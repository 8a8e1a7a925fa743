----------------------------- MODULE Optimizer ------------------------------
(***************************************************************************)
(* src/optm.c: one left-to-right pass over the token vector that rewrites  *)
(* loop patterns in place and compacts the vector after each visited       *)
(* token. The memory of the vector is kept past its size, because the      *)
(* pattern matcher forms pointers one slot past the end.                   *)
(***************************************************************************)
EXTENDS Tokens

CONSTANTS
  Programs,       \* token sequences lex may return
  Levels,         \* optimizer levels: main clamps --opt-level to 0 or 1
  Slack           \* unwritten slots of the vector beyond its size

\* What lex returns (Lexer's LexedForm): the brackets match, and only a move
\* can be left standing for nothing.
ASSUME ProgramsAssumption ==
  \A p \in Programs : /\ p \in Seq(Token) /\ TokBalanced(p)
                      /\ \A k \in 1 .. Len(p) : p[k].len > 0 \/ p[k].op \in {">", "<"}
ASSUME LevelsAssumption == Levels \subseteq Nat
ASSUME SlackAssumption == Slack \in Nat

VARIABLES
  input,          \* the tokens as lex returned them
  level,
  slots, size,    \* the vector's memory and v->size
  pass, i,        \* the loop counters of optimize
  stray,          \* a token at or past v->size has been read
  pc

vars == <<input, level, slots, size, pass, i, stray, pc>>

out == SubSeq(slots, 1, size)

Init ==
  /\ input \in Programs
  /\ level \in Levels
  /\ slots = input \o [k \in 1 .. Slack |-> Garbage]
  /\ size = Len(input)
  /\ pass = 0 /\ i = 0 /\ stray = FALSE
  /\ pc = "optimize"

-----------------------------------------------------------------------------
(* A rewrite is a new memory for the vector; indices are those of the code *)
(* plus one.                                                               *)

Peeled(t) == IF t.len = 1 THEN Zeroed ELSE Tok(t.op, t.len - 1)

\* Mutant: the whole run of closing brackets goes with the loop.
ReplaceRun(m, l, r, t) ==
  [k \in DOMAIN m |->
     CASE k = l -> IF m[l].len = 1 THEN t ELSE Peeled(m[l])
       [] k = l + 1 -> IF m[l].len = 1 THEN Zeroed ELSE t
       [] k \in l + 2 .. r -> Zeroed
       [] OTHER -> m[k]]

\* The loop from l to r is cleared inside, one bracket is peeled off each end,
\* and t goes where the opening bracket was, or after it if others remain.
Replace(m, l, r, t) ==
  [k \in DOMAIN m |->
     CASE k = l -> IF m[l].len = 1 THEN t ELSE Peeled(m[l])
       [] k = l + 1 -> IF m[l].len = 1 THEN Zeroed ELSE t
       [] k \in l + 2 .. r - 1 -> Zeroed
       [] k = r -> Peeled(m[r])
       [] OTHER -> m[k]]

\* t takes the place of the slots from l to r.
Put(m, l, r, t) ==
  [k \in DOMAIN m |-> IF k = l THEN t ELSE IF k \in l + 1 .. r THEN Zeroed ELSE m[k]]

OpsAt(m, l, ops) == \A k \in DOMAIN ops : m[l + k - 1].op = ops[k]

\* [-] becomes Z; equal bracket runs are both dropped whole, otherwise one
\* bracket is peeled off each.
ZeroLoop(m, l) ==
  IF ~(OpsAt(m, l, <<"[", "-", "]">>) /\ m[l + 1].len = 1) THEN m
  ELSE IF m[l].len = m[l + 2].len
       THEN Put(m, l, l + 2, Tok("Z", 1))
       ELSE Replace(m, l, l + 2, Tok("Z", 1))

\* [->+<] becomes M when the three middle lengths agree.
MoveLoop(m, l) ==
  IF /\ OpsAt(m, l, <<"[", "-", ">", "+", "<", "]">>)
     /\ m[l + 2].len = m[l + 3].len /\ m[l + 3].len = m[l + 4].len
  THEN Replace(m, l, l + 5, Tok("M", m[l + 2].len))
  ELSE m

\* The destinations of a copy loop: pairs >n +n from slot p on.
PairAt(m, p) == /\ p + 1 <= size
                /\ OpsAt(m, p, <<">", "+">>) /\ m[p].len = m[p + 1].len
Dests(m, l) == CHOOSE d \in 0 .. size :
                 /\ \A k \in 0 .. d - 1 : PairAt(m, l + 2 + 2 * k)
                 /\ ~PairAt(m, l + 2 + 2 * d)
RightTotal(m, l, d) ==
  LET total[k \in 0 .. d] == IF k = 0 THEN 0 ELSE total[k - 1] + m[l + 2 * k].len
  IN  total[d]

\* The closing bracket is looked for in the slot after the way back, which
\* may be the first slot past the vector.
CopyLoop(m, l) ==
  LET d == Dests(m, l)
      ret == l + 2 + 2 * d
  IN  IF /\ OpsAt(m, l, <<"[", "-">>)
         /\ ret <= size /\ m[ret].op = "<"
         /\ ret + 1 \in DOMAIN m /\ m[ret + 1].op = "]"
         /\ m[ret].len = RightTotal(m, l, d)
      THEN Replace(m, l, ret + 1, Tok("C", d))
      ELSE m
ReadsPast(m, l) == LET ret == l + 2 + 2 * Dests(m, l)
                   IN  OpsAt(m, l, <<"[", "-">>) /\ ret = size /\ m[ret].op = "<"

\* opt_openl: the three patterns in order, with its two early returns.
OpenLoop(m, l) ==
  LET z == ZeroLoop(m, l)
  IN  IF l + 2 > size THEN m
      ELSE IF l + 5 > size THEN z
      ELSE CopyLoop(MoveLoop(z, l), l)

\* Mutant: a subtraction assigns a positive value.
FoldZeroSign(m, l) ==
  IF l + 1 > size THEN m
  ELSE IF m[l + 1].op \in {"+", "-"} THEN Put(m, l, l + 1, Tok("A", m[l + 1].len)) ELSE m

\* optz: Z followed by an addition becomes an assignment.
FoldZero(m, l) ==
  IF l + 1 > size THEN m
  ELSE CASE m[l + 1].op = "+" -> Put(m, l, l + 1, Tok("A", m[l + 1].len))
         [] m[l + 1].op = "-" -> Put(m, l, l + 1, Tok("S", m[l + 1].len))
         [] OTHER -> m

\* The tokens of ts that are not dead, in order.
Kept(acc, t) == IF Dead(t) THEN acc ELSE Append(acc, t)
Living(ts) ==
  LET acc[n \in 0 .. Len(ts)] == IF n = 0 THEN <<>> ELSE Kept(acc[n - 1], ts[n])
  IN  acc[Len(ts)]

\* Mutant: the size is one too large.
CompactedLong(m) ==
  LET live == Living(SubSeq(m, 1, size))
  IN  slots' = live \o SubSeq(m, Len(live) + 1, Len(m)) /\ size' = Len(live) + 1

\* compact_vector slides the live tokens down; what lies beyond stays.
Compacted(m) ==
  LET live == Living(SubSeq(m, 1, size))
  IN  /\ slots' = live \o SubSeq(m, Len(live) + 1, Len(m))
      /\ size' = Len(live)

-----------------------------------------------------------------------------
cur == slots[i + 1]
Visiting == pc = "optimize" /\ pass < level /\ i < size

\* A token of length zero is passed over, and nothing is compacted.
SkipDead ==
  /\ Visiting /\ Dead(cur)
  /\ i' = i + 1
  /\ UNCHANGED <<input, level, slots, size, pass, stray, pc>>

VisitLoop ==
  /\ Visiting /\ ~Dead(cur) /\ cur.op = "["
  /\ Compacted(OpenLoop(slots, i + 1))
  /\ stray' = (stray \/ (i + 6 <= size /\
                 ReadsPast(MoveLoop(ZeroLoop(slots, i + 1), i + 1), i + 1)))
  /\ i' = i + 1
  /\ UNCHANGED <<input, level, pass, pc>>

VisitZero ==
  /\ Visiting /\ ~Dead(cur) /\ cur.op = "Z"
  /\ Compacted(FoldZero(slots, i + 1))
  /\ i' = i + 1
  /\ UNCHANGED <<input, level, pass, stray, pc>>

VisitOther ==
  /\ Visiting /\ ~Dead(cur) /\ cur.op \notin {"[", "Z"}
  /\ Compacted(slots)
  /\ i' = i + 1
  /\ UNCHANGED <<input, level, pass, stray, pc>>

\* Mutant: the pass counter is not advanced.
EndPassAgain ==
  /\ pc = "optimize" /\ pass < level /\ i >= size
  /\ i' = 0
  /\ UNCHANGED <<input, level, slots, size, pass, stray, pc>>

EndPass ==
  /\ pc = "optimize" /\ pass < level /\ i >= size
  /\ pass' = pass + 1 /\ i' = 0
  /\ UNCHANGED <<input, level, slots, size, stray, pc>>

Finish ==
  /\ pc = "optimize" /\ pass = level
  /\ pc' = "done"
  /\ UNCHANGED <<input, level, slots, size, pass, i, stray>>

Stop == pc = "done" /\ UNCHANGED vars

Next == \/ SkipDead \/ VisitLoop \/ VisitZero \/ VisitOther
        \/ EndPass \/ Finish \/ Stop

Spec == Init /\ [][Next]_vars /\ WF_vars(Next)

-----------------------------------------------------------------------------
(* Properties.                                                             *)

\* The type of every variable (optimize's locals and the vector).
TypeOK ==
  /\ input \in Seq(Token) /\ level \in Levels
  /\ slots \in Seq(Token) /\ Len(slots) = Len(input) + Slack
  /\ size \in 0 .. Len(input)
  /\ pass \in 0 .. level /\ i \in 0 .. Len(input)
  /\ stray \in BOOLEAN /\ pc \in {"optimize", "done"}

\* Every rewrite, whichever run of brackets it peels, leaves the brackets
\* matched (optm.c:18-38, 62-72, 98-105).
DepthKept == TokBalanced(out)

\* A loop around nothing but [-] tests the same cell twice: it is [-].
Nested == <<"[", "[", "-", "]">>
EndsNested(acc) == Len(acc) >= 4 /\ SubSeq(acc, Len(acc) - 3, Len(acc)) = Nested
AddLoop(acc, c) == IF c = "]" /\ EndsNested(acc)
                   THEN SubSeq(acc, 1, Len(acc) - 4) \o Tail(Nested)
                   ELSE Append(acc, c)
CollapseZeroing(s) ==
  LET acc[n \in 0 .. Len(s)] == IF n = 0 THEN <<>> ELSE AddLoop(acc[n - 1], s[n])
  IN  acc[Len(s)]
Reading(ts) == CollapseZeroing(Reduce(Spelled(ts)))

\* The loops M stands for decrease the cell by one a turn.
SingleDecrements == \A k \in 1 .. Len(input) - 1 :
  input[k].op = "[" /\ input[k + 1].op = "-" => input[k + 1].len = 1
Changes(o, n) == \E k \in 1 .. size : out[k].op = o /\ out[k].len > n

\* At every moment of the pass, half-rewritten runs of brackets included, the
\* tokens read back as the program lex returned: zeroing, assigning and moving
\* to the next cell replace exactly the loops they stand for; and although the
\* copy pattern forms a pointer past the end, no rewrite depends on a token
\* read there (optm.c:10-123, lv_vec_get.c:17).
RewritesExact ==
  /\ ~stray
  /\ (/\ \A k \in DOMAIN input : ~Dead(input[k])
      /\ SingleDecrements /\ ~Changes("C", 0) /\ ~Changes("M", 1))
     => Reading(out) = Reading(input)

\* The pass ends although it compacts the vector under its own index.
Terminates == <>(pc = "done")
=============================================================================
