------------------------------- MODULE Tokens -------------------------------
(***************************************************************************)
(* The vocabulary shared by every module: the run-length tokens of         *)
(* include/lvbfc.h, the character stream they stand for, and the reference *)
(* notions (bracket depth, cancellation, net effect) that the properties   *)
(* of the lexer and of the optimizer are stated with.                      *)
(***************************************************************************)
EXTENDS Integers, Sequences, FiniteSets, SequencesExt

CoreOps == {">", "<", "+", "-", ".", ",", "[", "]"}
ExtraOps == {";", "&", "=", "?", "$"}
RewriteOps == {"Z", "A", "S", "M", "C"}
NoOp == "0"                         \* the op byte of a zeroed token
Uninit == "junk"                    \* the op byte of a slot nobody wrote
Ops == CoreOps \union ExtraOps \union RewriteOps \union {NoOp, Uninit}

\* t_tokenseq: an operation and how many times it is repeated.
Tok(o, n) == [op |-> o, len |-> n]
Token == [op : Ops, len : Nat]
Zeroed == Tok(NoOp, 0)
Garbage == Tok(Uninit, 0)

\* A token compact_vector drops.
Dead(t) == t.op = NoOp \/ t.len = 0

\* The characters a token, or a sequence of tokens, stands for.
Unfold(t) == [k \in 1 .. t.len |-> t.op]
UnfoldAll(ts) == FlattenSeq([k \in DOMAIN ts |-> Unfold(ts[k])])

\* What a token of the rewritten program stands for in the source language.
Meaning(t) ==
  CASE t.op = "Z" -> <<"[", "-", "]">>
    [] t.op = "A" -> <<"[", "-", "]">> \o [k \in 1 .. t.len |-> "+"]
    [] t.op = "S" -> <<"[", "-", "]">> \o [k \in 1 .. t.len |-> "-"]
    [] t.op = "M" -> <<"[", "-">>
                     \o [k \in 1 .. 2 * t.len |-> IF k % 2 = 1 THEN ">" ELSE "+"]
                     \o [k \in 1 .. t.len |-> "<"] \o <<"]">>
    [] OTHER -> Unfold(t)
Spelled(ts) == FlattenSeq([k \in DOMAIN ts |-> Meaning(ts[k])])

-----------------------------------------------------------------------------
(* Reference notions, on character streams.                                *)

Count(s, c, k) == Cardinality({j \in 1 .. k : s[j] = c})
Depth(s, k) == Count(s, "[", k) - Count(s, "]", k)

Balanced(s) == /\ \A k \in 1 .. Len(s) : Depth(s, k) >= 0
               /\ Depth(s, Len(s)) = 0

\* Depth over tokens, which carry whole runs of brackets.
Weight(t) == CASE t.op = "[" -> t.len
               [] t.op = "]" -> -t.len
               [] OTHER -> 0
TokDepth(ts, k) ==
  LET depth[n \in 0 .. Len(ts)] == IF n = 0 THEN 0 ELSE depth[n - 1] + Weight(ts[n])
  IN  depth[k]

\* In a sequence of single brackets, the one at q closes the one at p.
Matching(ts, p, q) ==
  /\ p < q /\ ts[p].op = "[" /\ ts[q].op = "]"
  /\ LET body == SubSeq(ts, p, q)
     IN  /\ TokDepth(body, Len(body)) = 0
         /\ \A k \in 1 .. Len(body) - 1 : TokDepth(body, k) > 0

TokBalanced(ts) == /\ \A k \in 1 .. Len(ts) : TokDepth(ts, k) >= 0
                   /\ TokDepth(ts, Len(ts)) = 0

\* Adjacent pairs that mean nothing together: opposite moves, opposite
\* additions, and the empty loop (the README's dead code elimination).
Cancelling == {<<"+", "-">>, <<"-", "+">>, <<">", "<">>, <<"<", ">">>, <<"[", "]">>}

\* The one irreducible stream obtained by deleting cancelling pairs.
AddChar(acc, c) == IF acc # <<>> /\ <<Last(acc), c>> \in Cancelling
                   THEN Front(acc) ELSE Append(acc, c)
Reduce(s) ==
  LET acc[n \in 0 .. Len(s)] == IF n = 0 THEN <<>> ELSE AddChar(acc[n - 1], s[n])
  IN  acc[Len(s)]
=============================================================================
