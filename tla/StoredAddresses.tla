-------------------------- MODULE StoredAddresses ---------------------------
(***************************************************************************)
(* Generated with a history: the addresses that & has stored in cells of   *)
(* the tape and that no statement has overwritten since. The cells of such *)
(* an address may be carried through moves, growth and other statements    *)
(* before = uses them; what the address was taken of is known here only.   *)
(***************************************************************************)
EXTENDS Generated

VARIABLE notes    \* records [at, to, home]: the cells from `at` hold the address
                  \* of the cell `to` of the tape, which then began at `home`

pointersVars == <<vars, notes>>

CellsOf(m) == m.at .. m.at + WordSize - 1

\* The cells the statement at ip is there to write.
Overwritten == {a \in Tape :
  \/ (At({"+", "-", "Z", "A", "S", ","}) \/ Intrinsic(1) \/ Intrinsic(5)) /\ a = ptr
  \/ At({"M", "C"}) /\ a \in ptr .. ptr + n
  \/ Intrinsic(2) /\ a \in ptr .. ptr + Cell - 1
  \/ Intrinsic(3) /\ a \in ptr .. ptr + tape[ptr + 1] - 1
  \/ At({"&"}) /\ a \in ptr .. ptr + WordSize - 1}

\* & notes the address of a cell of the tape, if a word has room for it.
Noted ==
  IF At({"&"}) /\ ptr + n - 1 \in Tape /\ Pointed \in Addresses
  THEN {[at |-> ptr, to |-> ptr + n - 1, home |-> base]} ELSE {}

\* A statement that is not executed to its end writes nothing.
Record ==
  notes' = IF status' = "run"
           THEN {m \in notes : CellsOf(m) \intersect Overwritten = {}} \union Noted
           ELSE notes

PointersInit == Init /\ notes = {}

\* Each step of Next, with its record.
PointersNext ==
  \/ Build /\ Record
  \/ Start /\ Record
  \/ StartFails /\ Record
  \/ TurboMove /\ Record
  \/ WrapRight /\ Record
  \/ WrapLeft /\ Record
  \/ CheckedRight /\ Record
  \/ CheckedLeft /\ Record
  \/ HeapRight /\ Record
  \/ HeapGrow /\ Record
  \/ HeapExhausted /\ Record
  \/ HeapLeft /\ Record
  \/ Update /\ Record
  \/ MoveCell /\ Record
  \/ CopyCell /\ Record
  \/ Put1 /\ Record
  \/ Get1 /\ Record
  \/ EnterLoop /\ Record
  \/ SkipLoop /\ Record
  \/ RepeatLoop /\ Record
  \/ FillZero /\ Record
  \/ FillValue /\ Record
  \/ Multiply /\ Record
  \/ Dump /\ Record
  \/ Execute /\ Record
  \/ WriteAddress /\ Record
  \/ Jump /\ Record
  \/ Escape /\ Record
  \/ Return /\ Record
  \/ Stop /\ Record

PointersSpec == PointersInit /\ [][PointersNext]_pointersVars

-----------------------------------------------------------------------------
JumpsOn(m) == At({"="}) /\ ptr = m.at /\ status' = "run"

\* However long ago & stored an address, and whatever moved, grew or was
\* written elsewhere since, = goes to the very byte it was taken of. That is
\* the same cell unless the tape has moved: after a realloc that moves it the
\* address is a stale one (emmiters.c:164-169, 254-262, 382-387).
JumpLands ==
  [][\A m \in notes : JumpsOn(m) => /\ base + ptr' = m.home + m.to
                                    /\ ptr' = m.to <=> base = m.home]_pointersVars
=============================================================================
