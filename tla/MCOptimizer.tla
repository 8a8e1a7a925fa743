---------------------------- MODULE MCOptimizer -----------------------------
(***************************************************************************)
(* Token vectors for model checking Optimizer: all short balanced ones,    *)
(* and every shape of the rewritten loops inside a few contexts.           *)
(***************************************************************************)
EXTENDS Optimizer

CONSTANT MaxTokens      \* longest vector over the small alphabet

Small == {Tok("[", 1), Tok("[", 2), Tok("]", 1), Tok("]", 2),
          Tok("-", 1), Tok("+", 1), Tok("<", 0)}
\* lex merges opposite neighbours.
Merged(p) == \A k \in 1 .. Len(p) - 1 : {p[k].op, p[k + 1].op} # {"+", "-"}
Short == {p \in BoundedSeq(Small, MaxTokens) : TokBalanced(p) /\ Merged(p)}

N == 1 .. 2
Move == {<<Tok("[", a), Tok("-", b), Tok(">", c), Tok("+", d), Tok("<", e), Tok("]", f)>> :
           a, b, c, d, e, f \in N}
Copy == {<<Tok("[", a), Tok("-", 1), Tok(">", c), Tok("+", c), Tok(">", d), Tok("+", d),
           Tok("<", e), Tok("]", f)>> : a, c, d, f \in N, e \in 2 .. 4}
Stub == {<<Tok("[", a), Tok("-", 1), Tok("<", n), Tok("]", a)>> : a \in N, n \in 0 .. 1}
Before == {<<>>, <<Tok("[", 1)>>, <<Tok("<", 0)>>, <<Tok("+", 1)>>}
After == {<<>>, <<Tok("]", 1)>>, <<Tok("+", 1), Tok("<", 1)>>}

InContext(S) == {p \in {b \o s \o a : b \in Before, s \in S, a \in After} : TokBalanced(p)}
Shapes == InContext(Move) \union InContext(Copy) \union InContext(Stub)
Both == Short \union Shapes
=============================================================================
