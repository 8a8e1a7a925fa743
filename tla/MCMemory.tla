------------------------------ MODULE MCMemory ------------------------------
(***************************************************************************)
(* Calls for model checking Memory: every operation on regions before,     *)
(* after and across each other, shorter and longer than every loop of      *)
(* words, with the word sizes of the code.                                 *)
(***************************************************************************)
EXTENDS Memory

WordBytes == <<16, 8, 4, 1>>
FillBytes == <<8, 8, 4, 1>>
Addresses == 1 .. 160

Call(op, to, from, len, k) == [op |-> op, d |-> to, s |-> from, n |-> len, k |-> k]
With(calls, m) == {[call |-> c, mem |-> m] : c \in calls}

\* Every byte its own value, so that a misplaced one shows.
Numbered == [a \in Addresses |-> a]
Lengths == {0, 1, 3, 4, 7, 8, 12, 15, 16, 19, 29, 31, 32, 37}
Moves == {Call("move", p, 60, len, 0) : p \in {Null, 20, 52, 59, 60, 61, 67, 75, 97, 98}, len \in Lengths}
           \union {Call("copy", p, 60, len, 0) : p \in {Null, 20, 60, 97}, len \in Lengths}
Pairs == {Call(op, p, q, len, 0) : op \in {"swap", "take"}, p \in {Null, 20}, q \in {Null, 60}, len \in Lengths}
Fills == {Call("fill", p, 1, len, 456) : p \in {Null, 20}, len \in Lengths}
Chunks == {Call("broadcast", 20, 1, len, k) : len \in Lengths, k \in {0, 1, 3, 4, 5}}
Clones == {Call("clone", 1, q, len, 0) : q \in {Null, 60}, len \in Lengths}
Changes == With(Moves \union Pairs \union Fills \union Chunks \union Clones, Numbered)

\* Two regions that differ in at most two places.
Raised(as) == [a \in Addresses |-> IF a \in as THEN 7 ELSE 0]
Spots == {80, 83, 87, 88, 92, 95, 96, 103, 104, 111, 112, 119, 120, 125}
Lines == {{}} \union {{a} : a \in Spots} \union {{a, b} : a \in {80, 84, 88}, b \in Spots}
Comparisons == {Call("compare", 10, 80, len, 0) : len \in Lengths \union {47, 48, 55, 63, 64}}
Compared == UNION {With(Comparisons, Raised(as)) : as \in Lines}
              \union With({Call("compare", p, q, 4, 0) : p, q \in {Null, 80}}, Raised({}))

\* Strings of bytes next to the limits of the word test.
Text(bytes) == [a \in Addresses |-> IF a \in 20 .. 30 THEN bytes[((a - 20) % Len(bytes)) + 1] ELSE IF a > 37 THEN 0 ELSE 1]
Samples == {Text(t) : t \in [1 .. 3 -> {0, 1, 128, 255}] \union [1 .. 2 -> {0, 1, 2}]}
Looks == {Call("chr", 20, 0, len, 256) : len \in {0, 1, 5}} \union {Call("strlen", p, 0, 1, 0) : p \in {Null, 19, 20, 24, 25}}
Looked == UNION {With(Looks, m) : m \in Samples}

AllCases == Changes \union Compared \union Looked

\* An argument at 10 and the flag at 80, by where they differ.
Arguments == UNION {With({Call("compare", 10, 80, 12, 0)}, Raised(as)) : as \in SUBSET (80 .. 91)}
=============================================================================
