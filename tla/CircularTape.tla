---------------------------- MODULE CircularTape ----------------------------
(***************************************************************************)
(* What README.md promises of a default program: Brainfuck on a circular   *)
(* tape, a run of n operations meaning n single ones. No flags, no memory, *)
(* no C: a move is addition modulo the size of the tape. Z, A and S are    *)
(* the cell assignments the optimizer introduces.                          *)
(***************************************************************************)
EXTENDS Integers, Sequences

CONSTANTS
  Values,               \* values of a cell
  Matching(_, _, _)     \* which closing bracket goes with which opening one

VARIABLES
  code, ip,             \* single-bracket statements and the next one
  cells, tape, head,    \* the number of cells, their values, the head
  stdin, stdout

vars == <<code, ip, cells, tape, head, stdin, stdout>>

Init ==
  /\ cells \in Nat \ {0}
  /\ tape = [a \in 0 .. cells - 1 |-> 0]
  /\ head = 0 /\ ip = 1 /\ stdout = <<>>

op == code[ip].op
n == code[ip].len
Here(ops) == ip \in DOMAIN code /\ op \in ops
Step == ip' = ip + 1

\* h is where n single steps to the right (left) of the head end.
Turn ==
  /\ \/ Here({">"}) /\ head' = (head + n) % cells
     \/ Here({"<"}) /\ head' = (head - n) % cells
  /\ Step /\ UNCHANGED <<code, cells, tape, stdin, stdout>>

Set ==
  /\ \E v \in 0 .. Values - 1 :
       /\ tape' = [tape EXCEPT ![head] = v]
       /\ \/ Here({"+"}) /\ v = (tape[head] + n) % Values
          \/ Here({"-"}) /\ v = (tape[head] - n) % Values
          \/ Here({"Z"}) /\ v = 0
          \/ Here({"A"}) /\ v = n % Values
          \/ Here({"S"}) /\ v = (0 - n) % Values
  /\ Step /\ UNCHANGED <<code, cells, head, stdin, stdout>>

Write ==
  /\ Here({"."}) /\ stdout' = Append(stdout, tape[head])
  /\ Step /\ UNCHANGED <<code, cells, tape, head, stdin>>

Read ==
  /\ Here({","})
  /\ IF stdin = <<>>
     THEN tape' = [tape EXCEPT ![head] = Values - 1] /\ UNCHANGED stdin
     ELSE tape' = [tape EXCEPT ![head] = Head(stdin)] /\ stdin' = Tail(stdin)
  /\ Step /\ UNCHANGED <<code, cells, head, stdout>>

Bracket ==
  /\ \/ Here({"["}) /\ tape[head] # 0 /\ Step
     \/ Here({"["}) /\ tape[head] = 0 /\ \E q \in DOMAIN code : Matching(code, ip, q) /\ ip' = q + 1
     \/ Here({"]"}) /\ \E p \in DOMAIN code : Matching(code, p, ip) /\ ip' = p
  /\ UNCHANGED <<code, cells, tape, head, stdin, stdout>>

Next == Turn \/ Set \/ Write \/ Read \/ Bracket

Spec == Init /\ [][Next]_vars
=============================================================================
