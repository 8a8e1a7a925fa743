------------------------------ MODULE MCLexer -------------------------------
(***************************************************************************)
(* Inputs for model checking Lexer: every text over a small alphabet up to *)
(* a bound, and texts assembled from loop fragments.                       *)
(***************************************************************************)
EXTENDS Lexer

CONSTANTS MaxText,      \* longest text over the letters of one concern
          MaxMixed,     \* longest text over all of them
          MaxFragments  \* most loop fragments put together

Options(strict, x, can, intr, n) ==
  [strict |-> strict, x |-> x, can |-> can, intr |-> intr, stacksize |-> n]

Arithmetic == BoundedSeq({"+", "-", ">", "<"}, MaxText)
Bracketed == BoundedSeq({"+", "-", "[", "]"}, MaxText)
Mixed == BoundedSeq({"+", "-", ">", "[", "]", "$", "?", "&", "#"}, MaxMixed)

Fragments == {<<"[", "+">>, <<"[", "-">>, <<"[", "[">>, <<"]">>, <<"]", "]">>, <<"+">>}
Loops == {FlattenSeq(f) : f \in BoundedSeq(Fragments, MaxFragments)}

AllFiles == Arithmetic \union Bracketed \union Mixed \union Loops
AllModes == {Options(s, FALSE, FALSE, FALSE, 1) : s \in BOOLEAN}
              \union {Options(FALSE, TRUE, TRUE, TRUE, 1), Options(TRUE, TRUE, FALSE, TRUE, 3)}
=============================================================================
