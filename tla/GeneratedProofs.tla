-------------------------- MODULE GeneratedProofs ---------------------------
(***************************************************************************)
(* What holds of the generated program for every tape size, every program  *)
(* and every cell width.                                                   *)
(***************************************************************************)
EXTENDS StoredAddresses, TokensProofs

USE DEF Tape

LEMMA TokenShape ==
  ASSUME NEW c \in Seq(Token), NEW k \in DOMAIN c
  PROVE  c[k].len \in Nat /\ c[k].op \in Ops /\ k \in 1 .. Len(c)
<1>1. k \in 1 .. Len(c) /\ c[k] \in Token
  OBVIOUS
<1> QED
  BY <1>1 DEF Token

LEMMA InitTypeOK == Init => TypeOK
<1> SUFFICES ASSUME Init PROVE TypeOK
  OBVIOUS
<1> USE CodesAssumption, InputsAssumption, SizesAssumption, BasesAssumption, CellModAssumption
<1>1. code \in Seq(Token) /\ target \in Targets /\ stsize \in Nat \ {0} /\ size \in Nat \ {0}
  BY DEF Init
<1>2. tape \in [Tape -> 0 .. CellMod - 1]
  BY DEF Init
<1>3. stdin \in Seq(0 .. CellMod - 1)
  BY DEF Init
<1>4. stdout \in Seq(0 .. CellMod - 1)
  BY DEF Init
<1>5. ip \in 1 .. Len(code) + 1
  BY <1>1 DEF Init
<1>6. base \in Bases /\ ptr \in Int /\ owned \subseteq {"tape", "execbuf"} /\ status = "cc"
  BY DEF Init
<1> QED
  BY <1>1, <1>2, <1>3, <1>4, <1>5, <1>6 DEF TypeOK

-----------------------------------------------------------------------------
(* TypeOK is inductive. Four lemmas for the four shapes an action has.     *)

Byte == 0 .. CellMod - 1

LEMMA Current ==
  ASSUME TypeOK, Running
  PROVE  /\ ip \in 1 .. Len(code) /\ ip + 1 \in 1 .. Len(code) + 1
         /\ n \in Nat /\ stmt.op \in Ops
<1>1. code \in Seq(Token) /\ ip \in DOMAIN code
  BY DEF TypeOK, Running
<1>2. ip \in 1 .. Len(code)
  BY <1>1, TokenShape
<1>3. ip + 1 \in 1 .. Len(code) + 1
  BY <1>1, <1>2
<1> QED
  BY <1>1, <1>2, <1>3, TokenShape DEF n, stmt

LEMMA ReadCell ==
  ASSUME TypeOK, NEW a \in Tape
  PROVE  tape[a] \in Byte
  BY DEF TypeOK, Byte

LEMMA MoveType ==
  ASSUME TypeOK, Running, ptr' \in Int, ip' = ip + 1,
         UNCHANGED <<fixed, tape, size, base, stdin, stdout, owned, status>>
  PROVE  TypeOK'
<1>1. ip + 1 \in 1 .. Len(code) + 1
  BY Current
<1> QED
  BY <1>1 DEF TypeOK, fixed

LEMMA WriteType ==
  ASSUME TypeOK, Running, tape' \in [Tape -> Byte], ip' = ip + 1,
         UNCHANGED <<fixed, size, base, ptr, stdin, stdout, owned, status>>
  PROVE  TypeOK'
<1>1. ip + 1 \in 1 .. Len(code) + 1
  BY Current
<1> QED
  BY <1>1 DEF TypeOK, fixed, Byte

LEMMA GotoType ==
  ASSUME TypeOK, ip' \in 1 .. Len(code) + 1,
         UNCHANGED <<fixed, tape, size, base, ptr, stdin, stdout, owned, status>>
  PROVE  TypeOK'
  BY DEF TypeOK, fixed

LEMMA LeaveType ==
  ASSUME TypeOK, owned' \subseteq owned,
         status' \in {"run", "done", "overflow", "nomem", "ccerror", "stray"},
         UNCHANGED <<fixed, ip, tape, size, base, ptr, stdin, stdout>>
  PROVE  TypeOK'
  BY DEF TypeOK, fixed

LEMMA MovesTypeOK == TypeOK /\ Moves => TypeOK'
<1> SUFFICES ASSUME TypeOK, Moves PROVE TypeOK'
  OBVIOUS
<1>r. Running
  BY DEF Moves, TurboMove, WrapRight, WrapLeft, CheckedRight, CheckedLeft,
         HeapRight, HeapGrow, HeapExhausted, HeapLeft, At
<1>t. n \in Nat /\ ptr \in Int /\ size \in Nat \ {0} /\ ip + 1 \in 1 .. Len(code) + 1
  BY <1>r, Current DEF TypeOK
<1>1. CASE TurboMove
  BY <1>1, <1>r, <1>t, MoveType DEF TurboMove, MoveTo
<1>2. CASE WrapRight
  BY <1>2, <1>r, <1>t, MoveType DEF WrapRight, MoveTo
<1>3. CASE WrapLeft
  BY <1>3, <1>r, <1>t, MoveType DEF WrapLeft, MoveTo
<1>4. CASE CheckedRight
  <2>1. CASE ptr > size
    BY <2>1, <1>4, LeaveType DEF CheckedRight, Leave
  <2>2. CASE ~(ptr > size)
    BY <2>2, <1>4, <1>r, <1>t, MoveType DEF CheckedRight, MoveTo
  <2> QED
    BY <2>1, <2>2
<1>5. CASE CheckedLeft
  <2>1. CASE ptr - n < 0
    BY <2>1, <1>5, LeaveType DEF CheckedLeft, Leave
  <2>2. CASE ~(ptr - n < 0)
    BY <2>2, <1>5, <1>r, <1>t, MoveType DEF CheckedLeft, MoveTo
  <2> QED
    BY <2>1, <2>2
<1>6. CASE HeapRight
  BY <1>6, <1>r, <1>t, MoveType DEF HeapRight, MoveTo
<1>7. CASE HeapGrow
  <2>1. size' \in Nat \ {0} /\ ptr' \in Int /\ ip' \in 1 .. Len(code) + 1 /\ base' \in Bases
    BY <1>7, <1>t DEF HeapGrow
  <2>2. tape' \in [Tape' -> 0 .. CellMod - 1]
    BY <1>7, CellModAssumption DEF HeapGrow, TypeOK
  <2> QED
    BY <2>1, <2>2, <1>7 DEF HeapGrow, TypeOK, fixed
<1>8. CASE HeapExhausted
  BY <1>8, LeaveType DEF HeapExhausted, Leave
<1>9. CASE HeapLeft
  BY <1>9, <1>r, <1>t, MoveType DEF HeapLeft, MoveTo
<1> QED
  BY <1>1, <1>2, <1>3, <1>4, <1>5, <1>6, <1>7, <1>8, <1>9 DEF Moves

LEMMA NewValueType ==
  ASSUME TypeOK, Running, ptr \in Tape
  PROVE  NewValue \in Byte
<1>1. n \in Nat /\ Cell \in Int
  BY Current, ReadCell DEF Cell, Byte
<1>2. \A v \in Int : v % CellMod \in Byte
  BY CellModAssumption DEF Byte
<1>3. 0 \in Byte
  BY CellModAssumption DEF Byte
<1> QED
  BY <1>1, <1>2, <1>3 DEF NewValue

OwnCell == {"+", "-", "Z", "A", "S", ".", ",", "[", "M", "C"}

\* The check that a statement is safe puts the pointer on the tape whenever
\* the statement uses its own cell.
LEMMA SafeCell ==
  ASSUME TypeOK, Running, Safe, stmt.op \in OwnCell \/ (stmt.op = "$" /\ n = 1)
  PROVE  ptr \in Tape
<1>t. n \in Nat /\ ptr \in Int
  BY Current DEF TypeOK
<1>1. ptr \in Touched
  <2>1. CASE stmt.op \in {"+", "-", "Z", "A", "S", ".", ",", "["}
    BY <2>1 DEF Touched
  <2>2. CASE stmt.op \in {"M", "C"}
    <3>1. Touched = ptr .. ptr + n
      BY <2>2 DEF Touched
    <3> QED
      BY <3>1, <1>t
  <2>3. CASE stmt.op = "$" /\ n = 1
    BY <2>3 DEF Touched
  <2> QED
    BY <2>1, <2>2, <2>3 DEF OwnCell
<1> QED
  BY <1>1 DEF Safe

LEMMA CellsTypeOK == TypeOK /\ Cells => TypeOK'
<1> SUFFICES ASSUME TypeOK, Cells PROVE TypeOK'
  OBVIOUS
<1>r. Running /\ Safe
  BY DEF Cells, Update, MoveCell, CopyCell, Put1, Get1, At, Intrinsic
<1>o. stmt.op \in OwnCell \/ (stmt.op = "$" /\ n = 1)
  BY DEF Cells, Update, MoveCell, CopyCell, Put1, Get1, At, Intrinsic, OwnCell
<1>p. ptr \in Tape
  BY <1>r, <1>o, SafeCell
<1>t. n \in Nat /\ tape \in [Tape -> Byte] /\ ip + 1 \in 1 .. Len(code) + 1 /\ Cell \in Byte
  BY <1>r, <1>p, Current, ReadCell DEF TypeOK, Byte, Cell
<1>m. \A v \in Int : v % CellMod \in Byte
  BY CellModAssumption DEF Byte
<1>1. CASE Update
  BY <1>1, <1>r, <1>p, <1>t, NewValueType, WriteType DEF Update, Write
<1>2. CASE MoveCell
  <2>1. ASSUME NEW a \in Tape PROVE (tape[a] + Cell) % CellMod \in Byte /\ tape[a] \in Byte
    <3>1. tape[a] \in Byte /\ tape[a] + Cell \in Int
      BY <1>t DEF Byte
    <3> QED
      BY <3>1, <1>m, Zenon
  <2>2. 0 \in Byte
    BY CellModAssumption DEF Byte
  <2>3. tape' = [a \in Tape |-> CASE a = ptr -> 0
                             [] a \in ptr + 1 .. ptr + n -> (tape[a] + Cell) % CellMod
                             [] OTHER -> tape[a]]
    BY <1>2 DEF MoveCell, Write
  <2>4. \A a \in Tape : (CASE a = ptr -> 0
                       [] a \in ptr + 1 .. ptr + n -> (tape[a] + Cell) % CellMod
                       [] OTHER -> tape[a]) \in Byte
    <3> DEFINE sum(a) == (tape[a] + Cell) % CellMod
    <3>1. \A a \in Tape : sum(a) \in Byte
      BY <2>1
    <3> HIDE DEF sum
    <3>2. \A a \in Tape : (CASE a = ptr -> 0 [] a \in ptr + 1 .. ptr + n -> sum(a)
                         [] OTHER -> tape[a]) \in Byte
      BY <2>1, <2>2, <3>1
    <3> QED
      BY <3>2 DEF sum
  <2>5. tape' \in [Tape -> Byte]
    BY <2>3, <2>4
  <2> QED
    BY <2>5, <1>2, <1>r, WriteType DEF MoveCell, Write
<1>3. CASE CopyCell
  <2>1. 0 \in Byte /\ \A a \in Tape : tape[a] \in Byte
    BY <1>t, CellModAssumption DEF Byte
  <2>2. tape' = [a \in Tape |-> CASE a = ptr -> 0
                             [] a \in ptr + 1 .. ptr + n -> Cell
                             [] OTHER -> tape[a]]
    BY <1>3 DEF CopyCell, Write
  <2>3. tape' \in [Tape -> Byte]
    BY <2>1, <2>2, <1>t
  <2> QED
    BY <2>3, <1>3, <1>r, WriteType DEF CopyCell, Write
<1>4. CASE Put1
  <2>1. stdout' \in Seq(0 .. CellMod - 1)
    BY <1>4, <1>t DEF Put1, TypeOK, Byte
  <2> QED
    BY <2>1, <1>4, <1>t DEF Put1, TypeOK, fixed
<1>5. CASE Get1
  <2>1. CASE stdin = <<>>
    <3>1. tape' = [tape EXCEPT ![ptr] = CellMod - 1] /\ stdin' = stdin
      BY <2>1, <1>5 DEF Get1
    <3>2. CellMod - 1 \in Byte
      BY CellModAssumption DEF Byte
    <3>3. tape' \in [Tape -> Byte]
      BY <3>1, <3>2, <1>t
    <3> QED
      BY <3>1, <3>3, <1>5, <1>t DEF Get1, TypeOK, fixed, Byte
  <2>2. CASE stdin # <<>>
    <3>1. stdin \in Seq(Byte) /\ stdin' = Tail(stdin)
          /\ tape' = [tape EXCEPT ![ptr] = Head(stdin)]
      BY <2>2, <1>5 DEF Get1, TypeOK, Byte
    <3>2. stdin' \in Seq(Byte) /\ Head(stdin) \in Byte
      BY <3>1, <2>2
    <3>3. tape' \in [Tape -> Byte]
      BY <3>1, <3>2, <1>t
    <3> QED
      BY <3>2, <3>3, <1>5, <1>t DEF Get1, TypeOK, fixed, Byte
  <2> QED
    BY <2>1, <2>2
<1> QED
  BY <1>1, <1>2, <1>3, <1>4, <1>5 DEF Cells

LEMMA LoopTypeOK == TypeOK /\ Loop => TypeOK'
<1> SUFFICES ASSUME TypeOK, Loop PROVE TypeOK'
  OBVIOUS
<1>r. Running /\ code \in Seq(Token)
  BY DEF Loop, EnterLoop, SkipLoop, RepeatLoop, At, TypeOK
<1>d. \A q \in DOMAIN code : q \in 1 .. Len(code) + 1 /\ q + 1 \in 1 .. Len(code) + 1
  BY <1>r
<1>1. CASE EnterLoop
  BY <1>1, <1>r, Current, GotoType DEF EnterLoop, Goto
<1>2. CASE SkipLoop
  BY <1>2, <1>d, GotoType DEF SkipLoop, Goto
<1>3. CASE RepeatLoop
  BY <1>3, <1>d, GotoType DEF RepeatLoop, Goto
<1> QED
  BY <1>1, <1>2, <1>3 DEF Loop

LEMMA FillType ==
  ASSUME TypeOK, Running, NEW k, NEW v \in Byte, Fill(k, v)
  PROVE  TypeOK'
<1>1. CASE ~Fits(k)
  BY <1>1, LeaveType DEF Fill, Leave
<1>2. CASE Fits(k) /\ ptr + k - 1 >= size
  BY <1>2, LeaveType DEF Fill, Leave
<1>3. CASE Fits(k) /\ ~(ptr + k - 1 >= size)
  <2>1. tape' = [a \in Tape |-> IF a \in ptr .. ptr + k - 1 THEN v ELSE tape[a]]
    BY <1>3 DEF Fill, Write
  <2>2. tape' \in [Tape -> Byte]
    BY <2>1, ReadCell
  <2> QED
    BY <2>2, <1>3, WriteType DEF Fill, Write
<1> QED
  BY <1>1, <1>2, <1>3

LEMMA ExtendedTypeOK == TypeOK /\ Extended => TypeOK'
<1> SUFFICES ASSUME TypeOK, Extended PROVE TypeOK'
  OBVIOUS
<1>r. Running /\ Safe
  BY DEF Extended, FillZero, FillValue, Multiply, Dump, Execute, WriteAddress, Jump,
         At, Intrinsic
<1>t. n \in Nat /\ ptr \in Int /\ tape \in [Tape -> Byte] /\ ip + 1 \in 1 .. Len(code) + 1
  BY <1>r, Current DEF TypeOK, Byte
<1>1. CASE FillZero
  <2>1. 0 \in Byte /\ Fill(Cell, 0)
    BY <1>1, CellModAssumption DEF FillZero, Byte
  <2> QED
    BY <2>1, <1>r, FillType
<1>2. CASE FillValue
  <2>1. stmt.op = "$" /\ n = 3 /\ Fill(tape[ptr + 1], Cell)
    BY <1>2 DEF FillValue, Intrinsic, At
  <2>2. Touched = {ptr, ptr + 1}
    BY <2>1 DEF Touched
  <2>3. Cell \in Byte
    BY <2>2, <1>r, <1>t DEF Safe, Cell
  <2> QED
    BY <2>1, <2>3, <1>r, FillType
<1>3. CASE Multiply
  <2>1. CASE PastPair
    BY <2>1, <1>3, LeaveType DEF Multiply, Leave
  <2>2. CASE ~PastPair
    <3>1. stmt.op = "$" /\ n = 5
      BY <1>3 DEF Multiply, Intrinsic, At
    <3>2. Touched = {ptr, ptr + 1}
      BY <3>1, <2>2 DEF Touched
    <3>3. Cell \in Byte /\ tape[ptr + 1] \in Byte
      BY <3>2, <1>r, <1>t DEF Safe, Cell
    <3>4. Cell * tape[ptr + 1] \in Int
      BY <3>3 DEF Byte
    <3>5. (Cell * tape[ptr + 1]) % CellMod \in Byte
      <4> DEFINE product == Cell * tape[ptr + 1]
      <4>1. product \in Int
        BY <3>4
      <4> HIDE DEF product
      <4>2. product % CellMod \in Byte
        BY <4>1, CellModAssumption DEF Byte
      <4> QED
        BY <4>2 DEF product
    <3>6. tape' = [tape EXCEPT ![ptr] = (Cell * tape[ptr + 1]) % CellMod]
      BY <2>2, <1>3 DEF Multiply, Write
    <3>7. tape' \in [Tape -> Byte]
      BY <3>5, <3>6, <1>t, Zenon
    <3> QED
      BY <3>7, <2>2, <1>3, <1>r, WriteType DEF Multiply, Write
  <2> QED
    BY <2>1, <2>2
<1>4. CASE Dump
  BY <1>4, <1>t, GotoType DEF Dump, Goto
<1>5. CASE Execute
  <2>1. CASE "execbuf" \notin owned
    BY <2>1, <1>5, LeaveType DEF Execute, Leave
  <2>2. CASE "execbuf" \in owned /\ n > ExecSize
    BY <2>2, <1>5, LeaveType DEF Execute, Leave
  <2>3. CASE "execbuf" \in owned /\ ~(n > ExecSize)
    BY <2>3, <1>5, <1>t, GotoType DEF Execute, Goto
  <2> QED
    BY <2>1, <2>2, <2>3
<1>6. CASE WriteAddress
  <2>1. CASE ~FitsWord
    BY <2>1, <1>6, LeaveType DEF WriteAddress, Leave
  <2>2. CASE FitsWord
    <3>1. PICK w \in WordCells :
            Write([a \in Tape |-> IF a \in ptr .. ptr + WordSize - 1
                                 THEN w[a - ptr + 1] ELSE tape[a]])
      BY <2>2, <1>6 DEF WriteAddress
    <3>2. \A a \in ptr .. ptr + WordSize - 1 : w[a - ptr + 1] \in Byte
      BY <1>t, WordSizeAssumption DEF WordCells, Byte
    <3>3. tape' \in [Tape -> Byte]
      BY <3>1, <3>2, <1>t DEF Write
    <3> QED
      BY <3>1, <3>3, <1>r, WriteType DEF Write
  <2> QED
    BY <2>1, <2>2
<1>7. CASE Jump
  <2>1. PICK a \in Addresses : MoveTo(a - base)
    BY <1>7 DEF Jump
  <2>2. a - base \in Int
    BY BasesAssumption DEF Addresses, TypeOK
  <2> QED
    BY <2>1, <2>2, <1>r, MoveType DEF MoveTo
<1> QED
  BY <1>1, <1>2, <1>3, <1>4, <1>5, <1>6, <1>7 DEF Extended

LEMMA StepTypeOK == TypeOK /\ [Next]_vars => TypeOK'
<1> SUFFICES ASSUME TypeOK, [Next]_vars PROVE TypeOK'
  OBVIOUS
<1>1. CASE Build
  BY <1>1 DEF Build, TypeOK, fixed
<1>2. CASE Start
  BY <1>2 DEF Start, TypeOK, fixed
<1>3. CASE StartFails
  BY <1>3, LeaveType DEF StartFails
<1>4. CASE Escape
  BY <1>4, LeaveType DEF Escape, Leave
<1>5. CASE Return
  BY <1>5, LeaveType DEF Return, Leave
<1>6. CASE UNCHANGED vars
  BY <1>6 DEF vars, TypeOK
<1> QED
  BY <1>1, <1>2, <1>3, <1>4, <1>5, <1>6, MovesTypeOK, CellsTypeOK, LoopTypeOK, ExtendedTypeOK
  DEF Next, Stop

\* The generated program keeps its types: its pointer is a number, its cells
\* and its bytes are cells' values, its next statement exists.
THEOREM TypeCorrect == Spec => []TypeOK
<1> QED
  BY InitTypeOK, StepTypeOK, PTL DEF Spec

-----------------------------------------------------------------------------
(* The pointer stays on the tape.                                          *)

\* The program, its flags and its requested size never change.
LEMMA FixedStays == [Next]_vars => UNCHANGED fixed
<1> SUFFICES ASSUME [Next]_vars PROVE UNCHANGED fixed
  OBVIOUS
<1>1. CASE Build \/ Start \/ StartFails \/ Escape \/ Return
  BY <1>1 DEF Build, Start, StartFails, Escape, Return, Leave
<1>2. CASE Moves
  BY <1>2 DEF Moves, TurboMove, WrapRight, WrapLeft, CheckedRight, CheckedLeft,
     HeapRight, HeapGrow, HeapExhausted, HeapLeft, MoveTo, Leave
<1>3. CASE Cells
  BY <1>3 DEF Cells, Update, MoveCell, CopyCell, Put1, Get1, Write
<1>4. CASE Loop
  BY <1>4 DEF Loop, EnterLoop, SkipLoop, RepeatLoop, Goto
<1>5. CASE Extended
  BY <1>5 DEF Extended, FillZero, FillValue, Multiply, Dump, Execute, WriteAddress, Jump,
     Fill, Write, Leave, Goto, MoveTo
<1>6. CASE UNCHANGED vars
  BY <1>6 DEF vars, fixed
<1> QED
  BY <1>1, <1>2, <1>3, <1>4, <1>5, <1>6 DEF Next, Stop

\* What keeps it there: the tape is never smaller than the program asked for,
\* which is what the runs of moves are measured against.
Bounded == TypeOK /\ stsize <= size /\ InBounds

LEMMA RunFits ==
  ASSUME TypeOK, Running, RunsFit, stmt.op \in {">", "<"}
  PROVE  n <= stsize
  BY DEF RunsFit, Running, stmt, n

LEMMA InitBounded == Init => Bounded
<1> SUFFICES ASSUME Init PROVE Bounded
  OBVIOUS
<1>1. TypeOK /\ ptr = 0 /\ size = stsize
  BY InitTypeOK DEF Init
<1> QED
  BY <1>1 DEF Bounded, InBounds, TypeOK

\* Only a move changes the pointer or the size, unless = is used.
LEMMA MovesOnly ==
  ASSUME TypeOK, [Next]_vars, ~Moves, ~Jump
  PROVE  UNCHANGED <<ptr, size>>
<1>1. CASE Build \/ Start \/ StartFails \/ Escape \/ Return
  BY <1>1 DEF Build, Start, StartFails, Escape, Return, Leave
<1>2. CASE Cells
  BY <1>2 DEF Cells, Update, MoveCell, CopyCell, Put1, Get1, Write
<1>3. CASE Loop
  BY <1>3 DEF Loop, EnterLoop, SkipLoop, RepeatLoop, Goto
<1>4. CASE Extended
  BY <1>4 DEF Extended, FillZero, FillValue, Multiply, Dump, Execute, WriteAddress,
     Fill, Write, Leave, Goto
<1>5. CASE UNCHANGED vars
  BY <1>5 DEF vars
<1> QED
  BY <1>1, <1>2, <1>3, <1>4, <1>5 DEF Next, Stop

LEMMA MoveBounded ==
  ASSUME Bounded, Moves, Mode \in {"wrap", "heap"}, RunsFit, ptr \in Tape
  PROVE  ptr' \in 0 .. size' - 1 /\ stsize <= size'
<1>t. /\ n \in Nat /\ ptr \in Int /\ size \in Nat \ {0} /\ stsize \in Nat \ {0}
      /\ n <= stsize /\ stsize <= size
<2>1. Running /\ stmt.op \in {">", "<"}
  BY DEF Moves, TurboMove, WrapRight, WrapLeft, CheckedRight, CheckedLeft,
         HeapRight, HeapGrow, HeapExhausted, HeapLeft, At
<2> QED
  BY <2>1, Current, RunFits DEF Bounded, TypeOK
<1>1. CASE WrapRight
  BY <1>1, <1>t DEF WrapRight, MoveTo
<1>2. CASE WrapLeft
  BY <1>2, <1>t DEF WrapLeft, MoveTo
<1>3. CASE HeapRight
  BY <1>3, <1>t DEF HeapRight, MoveTo
<1>4. CASE HeapGrow
  BY <1>4, <1>t DEF HeapGrow
<1>5. CASE HeapExhausted
  BY <1>5, <1>t DEF HeapExhausted, Leave
<1>6. CASE HeapLeft
  BY <1>6, <1>t DEF HeapLeft, MoveTo
<1>7. ~TurboMove /\ ~CheckedRight /\ ~CheckedLeft
  BY DEF TurboMove, CheckedRight, CheckedLeft
<1> QED
  BY <1>1, <1>2, <1>3, <1>4, <1>5, <1>6, <1>7 DEF Moves

LEMMA StepBounded == Bounded /\ [Next]_vars => Bounded'
<1> SUFFICES ASSUME Bounded, [Next]_vars PROVE Bounded'
  OBVIOUS
<1>1. TypeOK' /\ UNCHANGED fixed
  BY StepTypeOK, FixedStays DEF Bounded
<1>2. stsize' <= size'
  <2>1. CASE Moves
    <3>1. size' = size \/ HeapGrow
      BY <2>1 DEF Moves, TurboMove, WrapRight, WrapLeft, CheckedRight, CheckedLeft,
         HeapRight, HeapExhausted, HeapLeft, MoveTo, Leave
    <3>2. CASE HeapGrow
      BY <3>2, <1>1, Current DEF HeapGrow, Bounded, TypeOK, fixed, At
    <3> QED
      BY <3>1, <3>2, <1>1 DEF Bounded, fixed
  <2>2. CASE ~Moves /\ ~Jump
    BY <2>2, <1>1, MovesOnly DEF Bounded, fixed
  <2>3. CASE Jump
    BY <2>3, <1>1 DEF Jump, MoveTo, Bounded, fixed
  <2> QED
    BY <2>1, <2>2, <2>3
<1>3. ASSUME Mode' \in {"wrap", "heap"}, RunsFit', NoJumps'
      PROVE  ptr' \in Tape'
  <2>1. Mode \in {"wrap", "heap"} /\ RunsFit /\ NoJumps
    BY <1>1, <1>3 DEF Mode, RunsFit, NoJumps, fixed
  <2>2. ptr \in Tape
    BY <2>1 DEF Bounded, InBounds
  <2>3. ~Jump
    BY <2>1 DEF Jump, At, NoJumps, Running, stmt
  <2>4. CASE Moves
    BY <2>1, <2>2, <2>4, MoveBounded
  <2>5. CASE ~Moves
    BY <2>2, <2>3, <2>5, MovesOnly DEF Bounded
  <2> QED
    BY <2>4, <2>5
<1> QED
  BY <1>1, <1>2, <1>3 DEF Bounded, InBounds

\* On a tape that wraps or grows, a program whose runs of moves fit the size
\* it asked for, and which never jumps with =, always points to a cell.
THEOREM PointerInBounds == Spec => []InBounds
<1>1. Spec => []Bounded
  BY InitBounded, StepBounded, PTL DEF Spec
<1> QED
  BY <1>1, PTL DEF Bounded

\* A statement of the core language touches the current cell at most.
LEMMA CoreSafe ==
  ASSUME TypeOK, Running, OnlyCore, ptr \in Tape
  PROVE  Safe
<1>1. stmt.op \in CoreStatements
  BY DEF Running, OnlyCore, stmt
<1>2. Touched \subseteq {ptr}
  BY <1>1 DEF Touched, CoreStatements
<1> QED
  BY <1>2 DEF Safe

StrayInv == Bounded /\ NeverStray

LEMMA StepNeverStray == StrayInv /\ [Next]_vars => StrayInv'
<1> SUFFICES ASSUME StrayInv, [Next]_vars PROVE StrayInv'
  OBVIOUS
<1>1. Bounded' /\ UNCHANGED fixed
  BY StepBounded, FixedStays DEF StrayInv, Bounded
<1>2. ASSUME Mode' \in {"wrap", "heap"}, RunsFit', OnlyCore'
      PROVE  status' # "stray"
  <2>1. Mode \in {"wrap", "heap"} /\ RunsFit /\ OnlyCore
    BY <1>1, <1>2 DEF Mode, RunsFit, OnlyCore, fixed
  <2>2. status # "stray"
    BY <2>1 DEF StrayInv, NeverStray
  <2>3. NoJumps
    BY <2>1 DEF NoJumps, OnlyCore, CoreStatements
  <2>4. ptr \in Tape /\ TypeOK
    BY <2>1, <2>3 DEF StrayInv, Bounded, InBounds
  <2>5. CASE Build \/ Start \/ StartFails \/ Return
    BY <2>5 DEF Build, Start, StartFails, Return, Leave
  <2>6. ~Escape
    BY <2>1, <2>4, CoreSafe DEF Escape
  <2>7. CASE Moves
    BY <2>2, <2>7 DEF Moves, TurboMove, WrapRight, WrapLeft, CheckedRight, CheckedLeft,
       HeapRight, HeapGrow, HeapExhausted, HeapLeft, MoveTo, Leave
  <2>8. CASE Cells
    BY <2>2, <2>8 DEF Cells, Update, MoveCell, CopyCell, Put1, Get1, Write
  <2>9. CASE Loop
    BY <2>2, <2>9 DEF Loop, EnterLoop, SkipLoop, RepeatLoop, Goto
  <2>10. ~Extended
    BY <2>1 DEF Extended, FillZero, FillValue, Multiply, Dump, Execute, WriteAddress, Jump,
       At, Intrinsic, Running, stmt, OnlyCore, CoreStatements
  <2>11. CASE UNCHANGED vars
    BY <2>2, <2>11 DEF vars
  <2> QED
    BY <2>5, <2>6, <2>7, <2>8, <2>9, <2>10, <2>11 DEF Next, Stop
<1> QED
  BY <1>1, <1>2 DEF StrayInv, NeverStray

LEMMA InitStrayInv == Init => StrayInv
  BY InitBounded DEF StrayInv, NeverStray, Init

\* Such a program, if it is of the core language, never touches memory outside
\* its tape.
THEOREM CoreNeverStrays == Spec => []NeverStray
<1>1. Spec => []StrayInv
  BY InitStrayInv, StepNeverStray, PTL DEF Spec
<1> QED
  BY <1>1, PTL DEF StrayInv

-----------------------------------------------------------------------------
(* Without wrapping the pointer drifts by one run of moves.                *)

DriftInv == TypeOK /\ NoWrapDrift

LEMMA InitDrift == Init => DriftInv
<1> SUFFICES ASSUME Init PROVE DriftInv
  OBVIOUS
<1>1. TypeOK /\ ptr = 0 /\ size \in Nat \ {0}
  BY InitTypeOK DEF Init, TypeOK
<1> QED
  BY <1>1 DEF DriftInv, NoWrapDrift

\* A move right starts at the end of the tape or before it.
LEMMA RightDrifts ==
  ASSUME DriftInv, CheckedRight, ptr >= 0
  PROVE  /\ ptr' >= 0
         /\ UNCHANGED size
         /\ \/ UNCHANGED ptr
            \/ \E k \in DOMAIN code : code[k].op = ">" /\ ptr' <= size + code[k].len
<1>1. n \in Nat /\ ptr \in Int /\ size \in Nat /\ ip \in DOMAIN code /\ code[ip].op = ">"
      /\ n = code[ip].len
  BY Current DEF CheckedRight, At, Running, DriftInv, TypeOK, stmt, n
<1>2. CASE ptr > size
  BY <1>1, <1>2 DEF CheckedRight, Leave
<1>3. CASE ~(ptr > size)
  BY <1>1, <1>3 DEF CheckedRight, MoveTo
<1> QED
  BY <1>2, <1>3

LEMMA StepDrift == DriftInv /\ [Next]_vars => DriftInv'
<1> SUFFICES ASSUME DriftInv, [Next]_vars PROVE DriftInv'
  OBVIOUS
<1>1. TypeOK' /\ UNCHANGED fixed
  BY StepTypeOK, FixedStays DEF DriftInv
<1>2. ASSUME (Mode = "nowrap" /\ NoJumps)'
      PROVE  /\ ptr' >= 0
             /\ ptr' <= size' \/ \E k \in DOMAIN code : code[k].op = ">" /\ ptr' <= size' + code[k].len
  <2>1. Mode = "nowrap" /\ NoJumps
    BY <1>1, <1>2 DEF Mode, NoJumps, fixed
  <2>2. /\ ptr >= 0
        /\ ptr <= size \/ \E k \in DOMAIN code : code[k].op = ">" /\ ptr <= size + code[k].len
    BY <2>1 DEF DriftInv, NoWrapDrift
  <2>3. ~Jump
    BY <2>1 DEF Jump, At, NoJumps, Running, stmt
  <2>4. CASE CheckedRight
    BY <2>2, <2>4, RightDrifts
  <2>5. CASE CheckedLeft
    <3>1. n \in Nat /\ ptr \in Int /\ size \in Nat
      BY <2>5, Current DEF CheckedLeft, At, DriftInv, TypeOK
    <3>2. UNCHANGED size /\ (UNCHANGED ptr \/ (ptr' = ptr - n /\ ptr - n >= 0))
      BY <2>5, <3>1 DEF CheckedLeft, Leave, MoveTo
    <3>3. ptr - n <= ptr
      BY <3>1
    <3>4. ASSUME NEW k \in DOMAIN code, ptr <= size + code[k].len
          PROVE  ptr - n <= size + code[k].len
      <4>1. code \in Seq(Token)
        BY DEF DriftInv, TypeOK
      <4>2. code[k].len \in Nat
        BY <4>1, TokenShape
      <4> QED
        BY <3>1, <3>4, <4>2
    <3> QED
      BY <2>2, <3>1, <3>2, <3>3, <3>4
  <2>6. CASE ~Moves
    BY <2>2, <2>3, <2>6, MovesOnly DEF DriftInv
  <2> QED
    BY <2>1, <2>4, <2>5, <2>6 DEF Moves, TurboMove, WrapRight, WrapLeft,
       HeapRight, HeapGrow, HeapExhausted, HeapLeft
<1>3. code' = code
  BY <1>1 DEF fixed
<1>4. NoWrapDrift'
  BY <1>2, <1>3 DEF NoWrapDrift
<1> QED
  BY <1>1, <1>4 DEF DriftInv

\* Without wrapping, and without =, the pointer never goes left of the tape,
\* nor further right of it than one run of moves.
THEOREM DriftIsBounded == Spec => []NoWrapDrift
<1>1. Spec => []DriftInv
  BY InitDrift, StepDrift, PTL DEF Spec
<1> QED
  BY <1>1, PTL DEF DriftInv

-----------------------------------------------------------------------------
(* A default program implements the circular tape.                         *)

LEMMA Modulo ==
  ASSUME NEW s \in Nat \ {0}, NEW a \in 0 .. s - 1
  PROVE  a % s = a /\ (a + s) % s = a /\ (a - s) % s = a
<1>1. a % s = a
  BY SMT
<1>2. (a + s) % s = a
  BY SMT
<1>3. (a - s) % s = a
  BY SMT
<1> QED
  BY <1>1, <1>2, <1>3

LEMMA InitImplements == Init => Abs!Init
  BY SizesAssumption DEF Init, Abs!Init

\* One subtraction, or one addition, of the size is what modulo means here.
LEMMA TurnImplements ==
  ASSUME Bounded, Default, ptr \in Tape, WrapRight \/ WrapLeft
  PROVE  Abs!Turn
<1>1. Running /\ stmt.op \in {">", "<"}
  BY DEF WrapRight, WrapLeft, At
<1>t. n \in Nat /\ ptr \in Int /\ size \in Nat \ {0} /\ n <= size
  BY <1>1, Current, RunFits DEF Bounded, TypeOK, Default
<1>a. Abs!Step /\ UNCHANGED <<code, size, tape, stdin, stdout>>
  BY DEF WrapRight, WrapLeft, MoveTo, fixed, Abs!Step
<1>2. CASE WrapRight
  <2>1. Abs!Here({">"})
    BY <1>2 DEF WrapRight, At, Running, stmt, Abs!Here, Abs!op
  <2>2. ptr' = (ptr + n) % size
    <3>1. CASE ptr + n >= size
      <4>1. ptr' = ptr + n - size /\ ptr' \in 0 .. size - 1 /\ ptr + n = ptr' + size
        BY <1>2, <3>1, <1>t DEF WrapRight, MoveTo
      <4> QED
        BY <4>1, <1>t, Modulo
    <3>2. CASE ~(ptr + n >= size)
      <4>1. ptr' = ptr + n /\ ptr + n \in 0 .. size - 1
        BY <1>2, <3>2, <1>t DEF WrapRight, MoveTo
      <4> QED
        BY <4>1, <1>t, Modulo
    <3> QED
      BY <3>1, <3>2
  <2> QED
    BY <2>1, <2>2, <1>a DEF Abs!Turn, Abs!n, n, stmt
<1>3. CASE WrapLeft
  <2>1. Abs!Here({"<"})
    BY <1>3 DEF WrapLeft, At, Running, stmt, Abs!Here, Abs!op
  <2>2. ptr' = (ptr - n) % size
    <3>1. CASE ptr - n < 0
      <4>1. ptr' = ptr - n + size /\ ptr' \in 0 .. size - 1 /\ ptr - n = ptr' - size
        BY <1>3, <3>1, <1>t DEF WrapLeft, MoveTo
      <4> QED
        BY <4>1, <1>t, Modulo
    <3>2. CASE ~(ptr - n < 0)
      <4>1. ptr' = ptr - n /\ ptr - n \in 0 .. size - 1
        BY <1>3, <3>2, <1>t DEF WrapLeft, MoveTo
      <4> QED
        BY <4>1, <1>t, Modulo
    <3> QED
      BY <3>1, <3>2
  <2> QED
    BY <2>1, <2>2, <1>a DEF Abs!Turn, Abs!n, n, stmt
<1> QED
  BY <1>2, <1>3

LEMMA CellsImplement ==
  ASSUME Bounded, Default, ptr \in Tape, Cells
  PROVE  Abs!Set \/ Abs!Write \/ Abs!Read
<1>1. Running /\ stmt.op \in CoreStatements
  BY DEF Cells, Update, MoveCell, CopyCell, Put1, Get1, At, Intrinsic, Default, OnlyCore,
     Running, stmt
<1>2. CASE Update
  <2>1. stmt.op \in {"+", "-", "Z", "A", "S"}
    BY <1>1, <1>2 DEF Update, At, Intrinsic, CoreStatements
  <2>2. NewValue \in 0 .. CellMod - 1
    BY <1>1, NewValueType DEF Bounded, Byte
  <2>3. tape' = [tape EXCEPT ![ptr] = NewValue]
    BY <1>2 DEF Update, Write
  <2>4. \/ Abs!Here({"+"}) /\ NewValue = (tape[ptr] + Abs!n) % CellMod
        \/ Abs!Here({"-"}) /\ NewValue = (tape[ptr] - Abs!n) % CellMod
        \/ Abs!Here({"Z"}) /\ NewValue = 0
        \/ Abs!Here({"A"}) /\ NewValue = Abs!n % CellMod
        \/ Abs!Here({"S"}) /\ NewValue = (0 - Abs!n) % CellMod
    BY <1>1, <2>1 DEF NewValue, Cell, Abs!Here, Abs!op, Abs!n, n, stmt, Running
  <2>5. Abs!Step /\ UNCHANGED <<code, size, ptr, stdin, stdout>>
    BY <1>2 DEF Update, Write, Abs!Step, fixed
  <2> QED
    BY <2>2, <2>3, <2>4, <2>5 DEF Abs!Set
<1>3. CASE Put1
  BY <1>3 DEF Put1, At, Running, stmt, Cell, fixed, Abs!Write, Abs!Here, Abs!op, Abs!Step
<1>4. CASE Get1
  <2>1. Abs!Here({","}) /\ Abs!Step /\ UNCHANGED <<code, size, ptr, stdout>>
    BY <1>4 DEF Get1, At, Running, stmt, fixed, Abs!Here, Abs!op, Abs!Step
  <2>2. IF stdin = <<>>
        THEN tape' = [tape EXCEPT ![ptr] = CellMod - 1] /\ UNCHANGED stdin
        ELSE tape' = [tape EXCEPT ![ptr] = Head(stdin)] /\ stdin' = Tail(stdin)
    BY <1>4 DEF Get1
  <2> QED
    BY <2>1, <2>2 DEF Abs!Read
<1>5. ~MoveCell /\ ~CopyCell
  BY <1>1 DEF MoveCell, CopyCell, At, CoreStatements
<1> QED
  BY <1>2, <1>3, <1>4, <1>5 DEF Cells

LEMMA LoopImplements ==
  ASSUME Bounded, Default, Loop
  PROVE  Abs!Bracket
<1>1. UNCHANGED <<code, size, tape, ptr, stdin, stdout>>
  BY DEF Loop, EnterLoop, SkipLoop, RepeatLoop, Goto, fixed
<1>2. CASE EnterLoop
  BY <1>1, <1>2 DEF EnterLoop, At, Running, stmt, Cell, Goto,
     Abs!Bracket, Abs!Here, Abs!op, Abs!Step
<1>3. CASE SkipLoop
  <2>1. PICK q \in DOMAIN code : Matching(code, ip, q) /\ Goto(q + 1)
    BY <1>3 DEF SkipLoop
  <2>2. Abs!Here({"["}) /\ tape[ptr] = 0 /\ Matching(code, ip, q) /\ ip' = q + 1
    BY <1>3, <2>1 DEF SkipLoop, At, Running, stmt, Cell, Goto, Abs!Here, Abs!op
  <2> QED
    BY <1>1, <2>2 DEF Abs!Bracket
<1>4. CASE RepeatLoop
  <2>1. PICK p \in DOMAIN code : Matching(code, p, ip) /\ Goto(p)
    BY <1>4 DEF RepeatLoop
  <2>2. Abs!Here({"]"}) /\ Matching(code, p, ip) /\ ip' = p
    BY <1>4, <2>1 DEF RepeatLoop, At, Running, stmt, Goto, Abs!Here, Abs!op
  <2> QED
    BY <1>1, <2>2 DEF Abs!Bracket
<1> QED
  BY <1>2, <1>3, <1>4 DEF Loop

LEMMA StepImplements ==
  Bounded /\ Default /\ [Next]_vars => [Abs!Next]_(Abs!vars)
<1> SUFFICES ASSUME Bounded, Default, [Next]_vars
             PROVE  Abs!Next \/ UNCHANGED Abs!vars
  OBVIOUS
<1>1. OnlyCore /\ Mode = "wrap"
  BY DEF Default
<1>2. ptr \in Tape
  <2>1. NoJumps
    BY <1>1 DEF NoJumps, OnlyCore, CoreStatements
  <2> QED
    BY <2>1 DEF Bounded, InBounds, Default
<1>3. CASE Build \/ Start \/ StartFails \/ Escape \/ Return
  BY <1>3 DEF Build, Start, StartFails, Escape, Return, Leave, fixed, Abs!vars
<1>4. CASE Moves
  <2>1. WrapRight \/ WrapLeft
    BY <1>1, <1>4 DEF Moves, TurboMove, CheckedRight, CheckedLeft, HeapRight, HeapGrow,
       HeapExhausted, HeapLeft
  <2> QED
    BY <2>1, <1>2, TurnImplements DEF Abs!Next
<1>5. CASE Cells
  BY <1>2, <1>5, CellsImplement DEF Abs!Next
<1>6. CASE Loop
  BY <1>6, LoopImplements DEF Abs!Next
<1>7. ~Extended
  BY <1>1 DEF Extended, FillZero, FillValue, Multiply, Dump, Execute, WriteAddress, Jump,
     At, Intrinsic, Running, stmt, OnlyCore, CoreStatements
<1>8. CASE UNCHANGED vars
  BY <1>8 DEF vars, Abs!vars
<1> QED
  BY <1>3, <1>4, <1>5, <1>6, <1>7, <1>8 DEF Next, Stop

\* The C program compiled for a default program does what the circular tape
\* does: folded moves with one conditional correction are moves modulo the
\* size, and every other step is a step there or changes nothing.
THEOREM ImplementsCircularTape == Spec => CircularTapeSpec
<1>1. Spec => []Bounded
  BY InitBounded, StepBounded, PTL DEF Spec
<1>2. Init => (Default => Abs!Init)
  BY InitImplements
<1>3. Bounded /\ [Next]_vars => [Default => [Abs!Next]_(Abs!vars)]_vars
  BY StepImplements
<1> QED
  BY <1>1, <1>2, <1>3, PTL DEF Spec, CircularTapeSpec

\* A program that is a default one is so for good: all of it implements the
\* specification of the circular tape.
THEOREM DefaultIsCircular == Spec /\ Default => Abs!Spec
<1>1. Spec => []Bounded
  BY InitBounded, StepBounded, PTL DEF Spec
<1>2. Default /\ [Next]_vars => Default'
  BY FixedStays DEF Default, Mode, RunsFit, OnlyCore, fixed
<1>3. Spec /\ Default => []Default
  BY <1>2, PTL DEF Spec
<1> QED
  BY <1>1, <1>3, InitImplements, StepImplements, PTL DEF Spec, Abs!Spec

-----------------------------------------------------------------------------
(* What the program owns when it leaves.                                   *)

\* Nothing is owned before main begins, and only a heap program owns its tape:
\* that is what lets the exits of --no-wrap release execbuf alone.
Owns ==
  /\ TypeOK
  /\ status \in {"cc", "start"} => owned = {}
  /\ target.heap \/ "tape" \notin owned
  /\ ExitsRelease

LEMMA InitOwns == Init => Owns
<1> SUFFICES ASSUME Init PROVE Owns
  OBVIOUS
<1>1. TypeOK /\ owned = {} /\ status = "cc"
  BY InitTypeOK DEF Init
<1> QED
  BY <1>1 DEF Owns, ExitsRelease

\* A step that goes on, or goes astray, releasing nothing.
LEMMA RunningOwns ==
  ASSUME Owns, TypeOK', UNCHANGED fixed, UNCHANGED owned, status' \in {"run", "stray"}
  PROVE  Owns'
<1>1. target' = target
  BY DEF fixed
<1> QED
  BY <1>1 DEF Owns, ExitsRelease

\* An exit that releases nothing.
LEMMA LeavingOwns ==
  ASSUME Owns, TypeOK', Leave(status', {}),
         \/ status' = "overflow" /\ stmt.op = "$"
         \/ status' = "nomem" /\ Mode = "heap" /\ stmt.op = ">"
         \/ status' = "nomem" /\ stmt.op = ";" /\ "execbuf" \notin owned
  PROVE  Owns'
<1>1. UNCHANGED <<code, target, ip>> /\ owned' = owned
  BY DEF Leave, fixed
<1>2. stmt' = stmt /\ Mode' = Mode
  BY <1>1 DEF stmt, Mode
<1>3. target.heap \/ "tape" \notin owned
  BY DEF Owns
<1>4. owned \subseteq {"tape", "execbuf"}
  BY DEF Owns, TypeOK
<1>5. CASE status' = "overflow" /\ stmt.op = "$"
  BY <1>1, <1>2, <1>3, <1>5 DEF Owns, ExitsRelease
<1>6. CASE status' = "nomem" /\ Mode = "heap" /\ stmt.op = ">"
  BY <1>1, <1>2, <1>3, <1>6 DEF Owns, ExitsRelease
<1>7. CASE status' = "nomem" /\ stmt.op = ";" /\ "execbuf" \notin owned
  <2>1. owned # {} => owned = {"tape"} /\ target.heap
    BY <1>3, <1>4, <1>7
  <2>2. target.heap => Mode = "heap"
    BY DEF Mode
  <2> QED
    BY <1>1, <1>2, <1>3, <1>7, <2>1, <2>2 DEF Owns, ExitsRelease
<1> QED
  BY <1>5, <1>6, <1>7

\* An exit that releases both, or execbuf when the tape is on the stack.
LEMMA ReleasedOwns ==
  ASSUME Owns, TypeOK', UNCHANGED fixed, status' \in {"done", "overflow"},
         \/ owned' = owned \ {"execbuf", "tape"}
         \/ owned' = owned \ {"execbuf"} /\ Mode = "nowrap"
  PROVE  Owns'
<1>1. owned \subseteq {"tape", "execbuf"} /\ target' = target
  BY DEF Owns, TypeOK, fixed
<1>2. Mode = "nowrap" => "tape" \notin owned
  BY DEF Owns, Mode
<1>3. owned' = {}
  BY <1>1, <1>2
<1> QED
  BY <1>3 DEF Owns, ExitsRelease

LEMMA MovesOwns ==
  ASSUME Owns, TypeOK', UNCHANGED fixed, Moves
  PROVE  Owns'
<1>1. CASE CheckedRight
  <2>1. CASE ptr > size
    BY <1>1, <2>1, ReleasedOwns DEF CheckedRight, Leave
  <2>2. CASE ~(ptr > size)
    BY <1>1, <2>2, RunningOwns DEF CheckedRight, MoveTo, At, Running
  <2> QED
    BY <2>1, <2>2
<1>2. CASE CheckedLeft
  <2>1. CASE ptr - n < 0
    BY <1>2, <2>1, ReleasedOwns DEF CheckedLeft, Leave
  <2>2. CASE ~(ptr - n < 0)
    BY <1>2, <2>2, RunningOwns DEF CheckedLeft, MoveTo, At, Running
  <2> QED
    BY <2>1, <2>2
<1>3. CASE HeapExhausted
  <2>1. status' = "nomem" /\ Leave("nomem", {}) /\ Mode = "heap" /\ stmt.op = ">"
    BY <1>3 DEF HeapExhausted, Leave, At
  <2> QED
    BY <2>1, LeavingOwns
<1>4. CASE TurboMove \/ WrapRight \/ WrapLeft \/ HeapRight \/ HeapGrow \/ HeapLeft
  <2>1. owned' = owned /\ status' = "run"
    BY <1>4 DEF TurboMove, WrapRight, WrapLeft, HeapRight, HeapGrow, HeapLeft, MoveTo, At, Running
  <2> QED
    BY <2>1, RunningOwns
<1> QED
  BY <1>1, <1>2, <1>3, <1>4 DEF Moves

LEMMA ExtendedOwns ==
  ASSUME Owns, TypeOK', UNCHANGED fixed, Extended
  PROVE  Owns'
<1>1. CASE FillZero \/ FillValue \/ Multiply
  <2>1. stmt.op = "$" /\ status = "run"
    BY <1>1 DEF FillZero, FillValue, Multiply, Intrinsic, At, Running
  <2>2. \/ owned' = owned /\ status' \in {"run", "stray"}
        \/ status' = "overflow" /\ Leave("overflow", {})
    BY <1>1, <2>1 DEF FillZero, FillValue, Multiply, Fill, Leave, Write
  <2> QED
    BY <2>1, <2>2, RunningOwns, LeavingOwns
<1>2. CASE Dump \/ Jump
  <2>1. owned' = owned /\ status' = "run"
    BY <1>2 DEF Dump, Jump, Goto, MoveTo, At, Running
  <2> QED
    BY <2>1, RunningOwns
<1>3. CASE Execute
  <2>1. stmt.op = ";" /\ status = "run"
    BY <1>3 DEF Execute, At, Running
  <2>2. \/ owned' = owned /\ status' \in {"run", "stray"}
        \/ status' = "nomem" /\ Leave("nomem", {}) /\ "execbuf" \notin owned
    BY <1>3, <2>1 DEF Execute, Leave, Goto
  <2> QED
    BY <2>1, <2>2, RunningOwns, LeavingOwns
<1>4. CASE WriteAddress
  <2>1. CASE ~FitsWord
    BY <1>4, <2>1, ReleasedOwns DEF WriteAddress, Leave
  <2>2. CASE FitsWord
    <3>1. owned' = owned /\ status' = "run"
      BY <1>4, <2>2 DEF WriteAddress, Write, At, Running
    <3> QED
      BY <3>1, RunningOwns
  <2> QED
    BY <2>1, <2>2
<1> QED
  BY <1>1, <1>2, <1>3, <1>4 DEF Extended

LEMMA StepOwns == Owns /\ [Next]_vars => Owns'
<1> SUFFICES ASSUME Owns, [Next]_vars PROVE Owns'
  OBVIOUS
<1>t. TypeOK' /\ UNCHANGED fixed
  BY StepTypeOK, FixedStays DEF Owns
<1>1. CASE Build
  <2>1. owned' = {} /\ status' \in {"ccerror", "start"}
    BY <1>1 DEF Build, Owns
  <2> QED
    BY <1>t, <2>1 DEF Owns, ExitsRelease
<1>2. CASE Start
  <2>1. status' = "run" /\ (target.heap \/ "tape" \notin owned')
    BY <1>2 DEF Start
  <2> QED
    BY <1>t, <2>1 DEF Owns, ExitsRelease, fixed
<1>3. CASE StartFails
  <2>1. owned' = {} /\ status' = "nomem"
    BY <1>3 DEF StartFails, Owns
  <2> QED
    BY <1>t, <2>1 DEF Owns, ExitsRelease
<1>4. CASE Moves
  BY <1>4, <1>t, MovesOwns
<1>5. CASE Cells \/ Loop
  <2>1. owned' = owned /\ status' = "run"
    BY <1>5 DEF Cells, Update, MoveCell, CopyCell, Put1, Get1, Write, Intrinsic, At, Running,
                Loop, EnterLoop, SkipLoop, RepeatLoop, Goto
  <2> QED
    BY <1>t, <2>1, RunningOwns
<1>6. CASE Extended
  BY <1>6, <1>t, ExtendedOwns
<1>7. CASE Escape
  <2>1. owned' = owned /\ status' = "stray"
    BY <1>7 DEF Escape, Leave
  <2> QED
    BY <1>t, <2>1, RunningOwns
<1>8. CASE Return
  BY <1>t, <1>8, ReleasedOwns DEF Return, Leave
<1>9. CASE UNCHANGED vars
  <2>1. stmt' = stmt /\ Mode' = Mode /\ UNCHANGED <<target, owned, status>>
    BY <1>9 DEF vars, stmt, Mode
  <2> QED
    BY <1>t, <2>1 DEF Owns, ExitsRelease
<1> QED
  BY <1>1, <1>2, <1>3, <1>4, <1>5, <1>6, <1>7, <1>8, <1>9 DEF Next, Stop

\* Every program, with the extensions too, and every mode: the ways out that
\* leave execbuf or the tape behind are the three ExitsRelease names.
THEOREM EndsReleased == Spec => []ExitsRelease
<1>1. Owns => ExitsRelease
  BY DEF Owns
<1> QED
  BY InitOwns, StepOwns, <1>1, PTL DEF Spec

-----------------------------------------------------------------------------
(* Where the intrinsics can go wrong.                                      *)

IntrinsicInv == Bounded /\ IntrinsicsBounded

\* With the pointer on the tape the one statement that reaches past it is $$$
\* on the last cell, which reads its length from the next one.
LEMMA OnlyFillEscapes ==
  ASSUME TypeOK, Running, CoreOrIntrinsic, ptr \in Tape, ~Safe
  PROVE  stmt = Tok("$", 3) /\ ptr = size - 1
<1>1. /\ code[ip].op \in CoreStatements \union {"$"} /\ n \in Nat
      /\ size \in Nat \ {0} /\ ptr \in Int /\ 0 <= ptr /\ ptr <= size - 1
  BY Current DEF CoreOrIntrinsic, Running, TypeOK
<1>2. stmt.op \in CoreStatements \union {"$"}
  BY <1>1 DEF stmt
<1>3. Touched \in {{}, {ptr}} => Safe
  BY DEF Safe
<1>4. CASE stmt.op \in CoreStatements
  <2>1. Touched \in {{}, {ptr}}
    BY <1>4 DEF Touched, CoreStatements
  <2> QED
    BY <1>3, <2>1
<1>5. CASE stmt.op = "$" /\ n # 3
  <2>1. Touched \in {{}, {ptr}} \/ (Touched = {ptr, ptr + 1} /\ ~(ptr + 1 >= size))
    BY <1>5 DEF Touched, PastPair
  <2>2. ~(ptr + 1 >= size) => ptr + 1 \in Tape
    BY <1>1
  <2> QED
    BY <1>3, <2>1, <2>2 DEF Safe
<1>6. CASE stmt.op = "$" /\ n = 3
  <2>1. Touched = {ptr, ptr + 1}
    BY <1>6 DEF Touched
  <2>2. ptr + 1 \notin Tape
    BY <2>1 DEF Safe
  <2>3. ptr = size - 1
    BY <1>1, <2>2
  <2>4. stmt = Tok("$", 3)
    <3>1. stmt \in Token
      BY TokenShape DEF TypeOK, Running, stmt
    <3> QED
      BY <1>6, <3>1 DEF Token, Tok, n
  <2> QED
    BY <2>3, <2>4
<1> QED
  BY <1>2, <1>4, <1>5, <1>6

LEMMA StepIntrinsic == IntrinsicInv /\ [Next]_vars => IntrinsicInv'
<1> SUFFICES ASSUME IntrinsicInv, [Next]_vars PROVE IntrinsicInv'
  OBVIOUS
<1>b. Bounded /\ Bounded' /\ TypeOK /\ UNCHANGED fixed
  BY StepBounded, FixedStays DEF IntrinsicInv, Bounded
<1> SUFFICES ASSUME Mode' \in {"wrap", "heap"}, RunsFit', CoreOrIntrinsic', status' = "stray"
             PROVE  (stmt = Tok("$", 3) /\ ptr = size - 1)'
  BY <1>b DEF IntrinsicInv, IntrinsicsBounded
<1>1. Mode \in {"wrap", "heap"} /\ RunsFit /\ CoreOrIntrinsic
  BY <1>b DEF Mode, RunsFit, CoreOrIntrinsic, fixed
<1>2. NoJumps
  BY <1>1 DEF CoreOrIntrinsic, NoJumps, CoreStatements
<1>3. ptr \in Tape
  BY <1>1, <1>2, <1>b DEF Bounded, InBounds
<1>4. CASE Escape
  <2>1. stmt = Tok("$", 3) /\ ptr = size - 1
    BY <1>1, <1>3, <1>4, <1>b, OnlyFillEscapes DEF Escape
  <2>2. UNCHANGED <<code, ip, ptr, size>>
    BY <1>4 DEF Escape, Leave, fixed
  <2> QED
    BY <2>1, <2>2 DEF stmt
<1>5. CASE FillZero \/ FillValue
  <2>1. PICK k, v : Fill(k, v) /\ k \in Int /\ Running
    <3>1. Running /\ tape \in [Tape -> Byte]
      BY <1>5, <1>b DEF FillZero, FillValue, Intrinsic, At, TypeOK, Byte
    <3>2. FillZero => Fill(Cell, 0) /\ Cell \in Int
      BY <1>3, <3>1 DEF FillZero, Cell, Byte
    <3>3. FillValue => Fill(tape[ptr + 1], Cell) /\ tape[ptr + 1] \in Int
      <4> SUFFICES ASSUME FillValue PROVE Fill(tape[ptr + 1], Cell) /\ tape[ptr + 1] \in Int
        OBVIOUS
      <4>1. stmt.op = "$" /\ n = 3 /\ Safe
        BY DEF FillValue, Intrinsic, At
      <4>2. Touched = {ptr, ptr + 1}
        BY <4>1 DEF Touched
      <4>3. ptr + 1 \in Tape
        BY <4>1, <4>2 DEF Safe
      <4>4. tape[ptr + 1] \in Int
        BY <3>1, <4>3 DEF Byte
      <4> QED
        BY <4>4 DEF FillValue
    <3> QED
      BY <1>5, <3>1, <3>2, <3>3
  <2>2. ptr \in Int /\ size \in Int
    BY <1>b DEF TypeOK
  <2>3. Fits(k) => ~(ptr + k - 1 >= size)
    BY <2>1, <2>2 DEF Fits
  <2>4. status' = "overflow" \/ status' = status
    BY <2>1, <2>3 DEF Fill, Leave, Write
  <2>5. status = "run"
    BY <2>1 DEF Running
  <2> QED
    BY <2>4, <2>5
<1>6. CASE Multiply \/ Dump \/ Execute \/ WriteAddress \/ Jump
  <2>1. CASE Multiply
    BY <2>1 DEF Multiply, Intrinsic, At, Running, Leave, Write
  <2>2. CASE Dump \/ Execute \/ WriteAddress \/ Jump
    <3>1. Running /\ stmt.op \in {"?", ";", "&", "="}
      BY <2>2 DEF Dump, Execute, WriteAddress, Jump, At
    <3> QED
      BY <1>1, <3>1 DEF CoreOrIntrinsic, CoreStatements, Running, stmt
  <2> QED
    BY <1>6, <2>1, <2>2
<1>7. CASE Build \/ Start \/ StartFails \/ Return
  BY <1>7 DEF Build, Start, StartFails, Return, Leave
<1>8. CASE Moves
  BY <1>8 DEF Moves, TurboMove, WrapRight, WrapLeft, CheckedRight, CheckedLeft,
     HeapRight, HeapGrow, HeapExhausted, HeapLeft, At, Running, MoveTo, Leave
<1>9. CASE Cells \/ Loop
  BY <1>9 DEF Cells, Update, MoveCell, CopyCell, Put1, Get1, Write, Intrinsic, At, Running,
     Loop, EnterLoop, SkipLoop, RepeatLoop, Goto
<1>10. CASE UNCHANGED vars
  <2>1. stmt = Tok("$", 3) /\ ptr = size - 1
    BY <1>1, <1>10 DEF IntrinsicInv, IntrinsicsBounded, vars
  <2> QED
    BY <1>10, <2>1 DEF vars, stmt
<1> QED
  BY <1>4, <1>5, <1>6, <1>7, <1>8, <1>9, <1>10 DEF Next, Stop, Extended

\* Wrapping or on the heap, a program of core statements and intrinsics leaves
\* its tape through one statement only: $$$ on the last cell.
THEOREM IntrinsicsStayInside == Spec => []IntrinsicsBounded
<1>1. Init => IntrinsicInv
  BY InitBounded DEF Init, IntrinsicInv, IntrinsicsBounded
<1>2. IntrinsicInv => IntrinsicsBounded
  BY DEF IntrinsicInv
<1> QED
  BY <1>1, StepIntrinsic, <1>2, PTL DEF Spec

-----------------------------------------------------------------------------
(* What & writes.                                                          *)

LEMMA RemainderIs ==
  ASSUME NEW m \in Int, NEW a \in 0 .. m - 1
  PROVE  a % m = a
OBVIOUS

LEMMA WrittenReads ==
  ASSUME TypeOK, WriteAddress, status' = "run", Pointed \in Addresses
  PROVE  Holds(WordHere', Pointed)
<1> DEFINE here == ptr .. ptr + WordSize - 1
<1>1. At({"&"}) /\ Safe
  BY DEF WriteAddress
<1>2. Pointed % CellMod ^ WordSize = Pointed
  <2> DEFINE m == CellMod ^ WordSize
             a == Pointed
  <2>1. m \in Int /\ a \in 0 .. m - 1
    BY CellModAssumption, WordSizeAssumption DEF Addresses
  <2> HIDE DEF m, a
  <2>2. a % m = a
    BY <2>1, RemainderIs
  <2> QED
    BY <2>2 DEF m, a
<1>3. FitsWord
  BY DEF WriteAddress, Leave
<1>4. PICK w \in WordCells :
        /\ Holds(w, Pointed % CellMod ^ WordSize)
        /\ Write([b \in Tape |-> IF b \in here THEN w[b - ptr + 1] ELSE tape[b]])
  BY <1>3 DEF WriteAddress
<1>5. ptr' = ptr /\ tape' = [b \in Tape |-> IF b \in here THEN w[b - ptr + 1] ELSE tape[b]]
  BY <1>4 DEF Write
<1>6. here \subseteq Tape
  BY <1>1, <1>3 DEF At, Safe, Touched
<1>7. w \in [1 .. WordSize -> 0 .. CellMod - 1] /\ WordSize \in Nat /\ ptr \in Int
  BY <1>4, WordSizeAssumption DEF WordCells, TypeOK
<1>8. \A k \in 1 .. WordSize : tape'[ptr' + k - 1] = w[k]
  <2> SUFFICES ASSUME NEW k \in 1 .. WordSize PROVE tape'[ptr' + k - 1] = w[k]
    OBVIOUS
  <2> DEFINE b == ptr + k - 1
  <2>1. b \in here /\ b - ptr + 1 = k
    BY <1>7
  <2>2. b \in Tape
    BY <1>6, <2>1
  <2> HIDE DEF b, here
  <2>3. tape'[b] = w[b - ptr + 1]
    BY <1>5, <2>1, <2>2
  <2> QED
    BY <1>5, <2>1, <2>3 DEF b
<1>9. WordHere' = w
  <2>1. WordHere' = [k \in 1 .. WordSize |-> tape'[ptr' + k - 1]]
    BY DEF WordHere
  <2> QED
    BY <1>7, <1>8, <2>1
<1> QED
  BY <1>2, <1>4, <1>9

\* A noted address is still in its cells, which are on the tape.
NotesHold ==
  \A m \in notes :
    /\ {m.at, m.to, m.home} \subseteq Int /\ CellsOf(m) \subseteq Tape
    /\ Holds([k \in 1 .. WordSize |-> tape[m.at + k - 1]], m.home + m.to)
NotesInv == TypeOK /\ NotesHold

\* Only the statement at ip changes cells, and only those it is there to write.
LEMMA OthersKept ==
  ASSUME TypeOK, [Next]_vars, NEW a \in Tape, status' = "run" => a \notin Overwritten
  PROVE  a \in Tape' /\ tape'[a] = tape[a]
<1>t. tape \in [Tape -> Byte] /\ ptr \in Int /\ size \in Nat /\ (Running => n \in Nat)
  BY Current DEF TypeOK, Byte
<1>u. UNCHANGED <<size, tape>> => a \in Tape' /\ tape'[a] = tape[a]
  OBVIOUS
<1>w. ASSUME NEW f \in [Tape -> Int], size' = size, tape' = f, f[a] = tape[a]
      PROVE  a \in Tape' /\ tape'[a] = tape[a]
  BY <1>w
<1>1. CASE Build \/ Start \/ StartFails \/ Return \/ Escape \/ Stop \/ UNCHANGED vars
  BY <1>1, <1>u DEF Build, Start, StartFails, Return, Escape, Leave, Stop, vars
<1>2. CASE Moves
  <2>1. CASE HeapGrow
    <3>1. /\ size' = 2 * (ptr + n) /\ ptr + n >= size
          /\ tape' = [b \in 0 .. 2 * (ptr + n) - 1 |-> IF b \in Tape THEN tape[b] ELSE 0]
      BY <2>1 DEF HeapGrow
    <3>2. n \in Nat
      BY <2>1, <1>t DEF HeapGrow, At
    <3>3. a \in 0 .. 2 * (ptr + n) - 1
      BY <3>1, <3>2, <1>t
    <3> QED
      BY <3>1, <3>3
  <2>2. CASE ~HeapGrow
    BY <1>2, <2>2, <1>u DEF Moves, TurboMove, WrapRight, WrapLeft, CheckedRight, CheckedLeft,
       HeapRight, HeapExhausted, HeapLeft, MoveTo, Leave
  <2> QED
    BY <2>1, <2>2
<1>3. CASE Loop \/ Put1 \/ Dump \/ Execute \/ Jump
  BY <1>3, <1>u DEF Loop, EnterLoop, SkipLoop, RepeatLoop, Goto, Put1, Dump, Execute, Jump, MoveTo,
     Leave
<1>4. CASE Update \/ Get1 \/ Multiply
  <2>1. CASE UNCHANGED <<size, tape>>
    BY <2>1, <1>u
  <2>2. CASE ~UNCHANGED <<size, tape>>
    <3>1. size' = size /\ \E v : tape' = [tape EXCEPT ![ptr] = v]
      BY <1>4, <2>2 DEF Update, Get1, Multiply, Write, Leave
    <3>2. status' = "run" /\ (At({"+", "-", "Z", "A", "S", ","}) \/ Intrinsic(1) \/ Intrinsic(5))
      BY <1>4, <2>2 DEF Update, Get1, Multiply, Write, Leave, At, Intrinsic, Running
    <3>3. a # ptr
      BY <3>2 DEF Overwritten
    <3> QED
      BY <3>1, <3>3, <1>t
  <2> QED
    BY <2>1, <2>2
<1>5. CASE MoveCell \/ CopyCell
  <2>1. At({"M", "C"}) /\ status' = "run" /\ size' = size
    BY <1>5 DEF MoveCell, CopyCell, Write, At, Running
  <2>2. a \notin ptr .. ptr + n
    BY <2>1 DEF Overwritten
  <2>3. a # ptr /\ a \notin ptr + 1 .. ptr + n
    BY <2>1, <2>2, <1>t DEF At
  <2>4. tape'[a] = tape[a]
    BY <1>5, <2>3 DEF MoveCell, CopyCell, Write
  <2> QED
    BY <2>1, <2>4
<1>6. CASE FillZero \/ FillValue
  <2>1. CASE UNCHANGED <<size, tape>>
    BY <2>1, <1>u
  <2>2. CASE ~UNCHANGED <<size, tape>>
    <3>1. status' = "run" /\ size' = size
      BY <1>6, <2>2 DEF FillZero, FillValue, Fill, Write, Leave, Intrinsic, At, Running
    <3>2. ASSUME NEW k, NEW v, Fill(k, v), a \notin ptr .. ptr + k - 1
          PROVE  tape'[a] = tape[a]
      BY <2>2, <3>2 DEF Fill, Write, Leave
    <3>3. CASE FillZero
      <4>1. a \notin ptr .. ptr + Cell - 1
        BY <3>1, <3>3 DEF FillZero, Overwritten
      <4> QED
        BY <3>1, <3>2, <3>3, <4>1 DEF FillZero
    <3>4. CASE FillValue
      <4>1. a \notin ptr .. ptr + tape[ptr + 1] - 1
        BY <3>1, <3>4 DEF FillValue, Overwritten
      <4> QED
        BY <3>1, <3>2, <3>4, <4>1 DEF FillValue
    <3> QED
      BY <1>6, <3>1, <3>3, <3>4
  <2> QED
    BY <2>1, <2>2
<1>7. CASE WriteAddress
  <2>1. CASE ~FitsWord
    BY <1>7, <2>1, <1>u DEF WriteAddress, Leave
  <2>2. CASE FitsWord
    <3>1. status' = "run" /\ size' = size
      BY <1>7, <2>2 DEF WriteAddress, Write, At, Running
    <3>2. a \notin ptr .. ptr + WordSize - 1
      BY <1>7, <3>1 DEF WriteAddress, Overwritten
    <3>3. tape'[a] = tape[a]
      BY <1>7, <2>2, <3>1, <3>2 DEF WriteAddress, Write
    <3> QED
      BY <3>1, <3>3
  <2> QED
    BY <2>1, <2>2
<1> QED
  BY <1>1, <1>2, <1>3, <1>4, <1>5, <1>6, <1>7 DEF Next, Cells, Extended

\* A step at & that goes on is the one that writes an address.
LEMMA AddressStep ==
  ASSUME TypeOK, Next, At({"&"}), status' = "run"
  PROVE  WriteAddress
<1>1. Running /\ stmt.op = "&" /\ status = "run" /\ ip \in DOMAIN code
  BY DEF At, Running
<1>2. ~Build /\ ~Start /\ ~StartFails /\ ~Escape /\ ~Stop
  BY <1>1 DEF Build, Start, StartFails, Escape, Leave, Stop, Ended, CutOff, At
<1>3. ~Return
  BY <1>1 DEF Return, TypeOK
<1>4. ~Moves
  BY <1>1 DEF Moves, TurboMove, WrapRight, WrapLeft, CheckedRight, CheckedLeft,
     HeapRight, HeapGrow, HeapExhausted, HeapLeft, At
<1>5. ~Cells /\ ~Loop
  BY <1>1 DEF Cells, Update, MoveCell, CopyCell, Put1, Get1, Intrinsic, At,
     Loop, EnterLoop, SkipLoop, RepeatLoop
<1>6. Extended => WriteAddress
  BY <1>1 DEF Extended, FillZero, FillValue, Multiply, Dump, Execute, Jump, Intrinsic, At
<1> QED
  BY <1>2, <1>3, <1>4, <1>5, <1>6 DEF Next

\* A step at = that goes on is a jump.
LEMMA JumpStep ==
  ASSUME TypeOK, Next, At({"="}), status' = "run"
  PROVE  Jump
<1>1. Running /\ stmt.op = "=" /\ status = "run" /\ ip \in DOMAIN code
  BY DEF At, Running
<1>2. ~Build /\ ~Start /\ ~StartFails /\ ~Escape /\ ~Stop
  BY <1>1 DEF Build, Start, StartFails, Escape, Leave, Stop, Ended, CutOff, At
<1>3. ~Return
  BY <1>1 DEF Return, TypeOK
<1>4. ~Moves
  BY <1>1 DEF Moves, TurboMove, WrapRight, WrapLeft, CheckedRight, CheckedLeft,
     HeapRight, HeapGrow, HeapExhausted, HeapLeft, At
<1>5. ~Cells /\ ~Loop
  BY <1>1 DEF Cells, Update, MoveCell, CopyCell, Put1, Get1, Intrinsic, At,
     Loop, EnterLoop, SkipLoop, RepeatLoop
<1>6. Extended => Jump
  BY <1>1 DEF Extended, FillZero, FillValue, Multiply, Dump, Execute, WriteAddress, Intrinsic, At
<1> QED
  BY <1>2, <1>3, <1>4, <1>5, <1>6 DEF Next

\* The history watches the program, and restricts none of its steps.
LEMMA StepsRecorded == PointersNext <=> Next /\ Record
BY DEF PointersNext, Next, Moves, Cells, Loop, Extended

LEMMA StepNotes == NotesInv /\ [PointersNext]_pointersVars => NotesInv'
<1> SUFFICES ASSUME NotesInv, [PointersNext]_pointersVars PROVE NotesInv'
  OBVIOUS
<1>t. TypeOK /\ TypeOK' /\ [Next]_vars
  BY StepTypeOK, StepsRecorded DEF NotesInv, pointersVars
<1> SUFFICES ASSUME NEW m \in notes'
             PROVE  /\ {m.at, m.to, m.home} \subseteq Int /\ CellsOf(m) \subseteq Tape'
                    /\ Holds([k \in 1 .. WordSize |-> tape'[m.at + k - 1]], m.home + m.to)
  BY <1>t DEF NotesInv, NotesHold, CellsOf
<1>0. CASE UNCHANGED pointersVars
  <2>1. m \in notes /\ tape' = tape /\ size' = size
    BY <1>0 DEF pointersVars, vars
  <2> QED
    BY <2>1 DEF NotesInv, NotesHold
<1>1. CASE m \in notes /\ (status' = "run" => CellsOf(m) \intersect Overwritten = {})
  <2>1. /\ {m.at, m.to, m.home} \subseteq Int /\ CellsOf(m) \subseteq Tape
        /\ Holds([k \in 1 .. WordSize |-> tape[m.at + k - 1]], m.home + m.to)
    BY <1>1 DEF NotesInv, NotesHold
  <2>2. \A a \in CellsOf(m) : a \in Tape' /\ tape'[a] = tape[a]
    BY <1>t, <1>1, <2>1, OthersKept
  <2>3. \A k \in 1 .. WordSize : tape'[m.at + k - 1] = tape[m.at + k - 1]
    <3> SUFFICES ASSUME NEW k \in 1 .. WordSize
                 PROVE  tape'[m.at + k - 1] = tape[m.at + k - 1]
      OBVIOUS
    <3>1. m.at + k - 1 \in CellsOf(m)
      BY <2>1, WordSizeAssumption DEF CellsOf
    <3> QED
      BY <2>2, <3>1
  <2>4. [k \in 1 .. WordSize |-> tape'[m.at + k - 1]] = [k \in 1 .. WordSize |-> tape[m.at + k - 1]]
    BY <2>3
  <2>5. CellsOf(m) \subseteq Tape'
    BY <2>2
  <2> QED
    BY <2>1, <2>4, <2>5
<1>2. CASE PointersNext /\ ~(m \in notes /\ (status' = "run" => CellsOf(m) \intersect Overwritten = {}))
  <2>1. Next /\ status' = "run" /\ m \in Noted
    <3>1. m \notin {o \in notes : CellsOf(o) \intersect Overwritten = {}}
          /\ (m \in notes => status' = "run")
      BY <1>2
    <3> QED
      BY <1>2, <3>1, StepsRecorded DEF Record
  <2>2. At({"&"}) /\ Pointed \in Addresses /\ m = [at |-> ptr, to |-> ptr + n - 1, home |-> base]
    BY <2>1 DEF Noted
  <2>3. WriteAddress
    BY <1>t, <2>1, <2>2, AddressStep
  <2>4. Holds(WordHere', Pointed) /\ ptr' = ptr /\ size' = size
    <3>1. Holds(WordHere', Pointed)
      BY <1>t, <2>1, <2>2, <2>3, WrittenReads
    <3> QED
      BY <2>1, <2>3, <3>1 DEF WriteAddress, Write, Leave
  <2>5. WordHere' = [k \in 1 .. WordSize |-> tape'[m.at + k - 1]]
    BY <2>2, <2>4 DEF WordHere
  <2>6. Pointed = m.home + m.to /\ {ptr, ptr + n - 1, base} \subseteq Int
    <3>1. Running
      BY <2>2 DEF At
    <3>2. n \in Nat
      BY <1>t, <3>1, Current
    <3>3. ptr \in Int /\ base \in Int
      BY <1>t, BasesAssumption DEF TypeOK
    <3> QED
      BY <2>2, <3>2, <3>3 DEF Pointed
  <2>7. CellsOf(m) \subseteq Tape
    <3>1. FitsWord /\ Safe /\ stmt.op = "&"
      BY <2>1, <2>3 DEF WriteAddress, Leave, At
    <3> QED
      BY <2>2, <3>1 DEF Safe, Touched, CellsOf
  <2>8. {m.at, m.to, m.home} \subseteq Int /\ Tape' = Tape
    BY <2>2, <2>4, <2>6
  <2> QED
    BY <2>4, <2>5, <2>6, <2>7, <2>8
<1> QED
  BY <1>0, <1>1, <1>2

LEMMA JumpGoes ==
  ASSUME NotesInv, PointersNext, NEW m \in notes, JumpsOn(m)
  PROVE  /\ base + ptr' = m.home + m.to
         /\ ptr' = m.to <=> base = m.home
<1>1. Jump /\ ptr = m.at
  BY JumpStep, StepsRecorded DEF NotesInv, JumpsOn
<1>2. PICK a \in Addresses : Holds(WordHere, a) /\ ptr' = a - base
  BY <1>1 DEF Jump, MoveTo
<1>3. Holds(WordHere, m.home + m.to) /\ m.home \in Int /\ m.to \in Int
  <2>1. /\ Holds([k \in 1 .. WordSize |-> tape[m.at + k - 1]], m.home + m.to)
        /\ m.home \in Int /\ m.to \in Int
    BY DEF NotesInv, NotesHold
  <2> QED
    BY <1>1, <2>1 DEF WordHere
<1>4. a = m.home + m.to
  BY <1>2, <1>3 DEF Holds
<1>5. a \in Int /\ base \in Int
  BY BasesAssumption, CellModAssumption, WordSizeAssumption DEF Addresses, NotesInv, TypeOK
<1> QED
  BY <1>2, <1>3, <1>4, <1>5

\* For every program, mode, word size and way the tape grows: while nothing
\* overwrites an address & has stored, = goes to the byte it was taken of, the
\* same cell if and only if the tape begins where it began then.
THEOREM StoredAddressesLand == PointersSpec => JumpLands
<1> DEFINE Lands == \A m \in notes : JumpsOn(m) => /\ base + ptr' = m.home + m.to
                                                   /\ ptr' = m.to <=> base = m.home
<1>1. PointersInit => NotesInv
  BY InitTypeOK DEF PointersInit, NotesInv, NotesHold
<1>2. NotesInv /\ [PointersNext]_pointersVars => [Lands]_pointersVars
  BY JumpGoes
<1> QED
  BY <1>1, <1>2, StepNotes, PTL DEF PointersSpec, JumpLands

-----------------------------------------------------------------------------
(* The program does what its statements stand for.                         *)

\* The interpreter of what the statements stand for: a ring of as many cells
\* as the program asked for, or a tape without end.
Reader == [wrap |-> Mode = "wrap", size |-> stsize, values |-> CellMod]

\* What emit prints for tokens that have a meaning in the source language;
\* brackets and input and output are printed once per repetition.
Spoken == \A k \in DOMAIN code :
  /\ code[k].op \in CoreStatements \union {"M"}
  /\ code[k].op \in {"[", "]", ".", ",", "M"} => code[k].len = 1
Faithful == Mode \in {"wrap", "heap"} /\ RunsFit /\ Spoken

\* The program has the data d in its variables.
Shows(d) ==
  /\ d \in Datas(Reader) /\ d.head = ptr /\ d.in = stdin /\ d.out = stdout
  /\ \A a \in Nat : CellOf(d.tape, a) = IF a \in Tape THEN tape[a] ELSE 0

\* What is left of the text leads from the data it has to f.
Mirror(f) == \E d : Shows(d) /\ Awaits(Reader, code, ip, d, f)

\* The tape only grows on the heap.
Steady == Mode = "wrap" => size = stsize
MirrorInv(f) == Bounded /\ Steady /\ (Faithful => Mirror(f))

LEMMA ReaderFacts ==
  ASSUME TypeOK
  PROVE  /\ Reader \in Machines /\ Reader.wrap = (Mode = "wrap") /\ Reader.size = stsize
         /\ Reader.values = CellMod /\ CellValues(Reader) = Byte
         /\ CellMod \in Nat \ {0} /\ stsize \in Nat \ {0}
<1>1. CellMod \in Nat \ {0} /\ stsize \in Nat \ {0} /\ (Mode = "wrap") \in BOOLEAN
  BY CellModAssumption DEF TypeOK
<1>2. Reader.wrap = (Mode = "wrap") /\ Reader.size = stsize /\ Reader.values = CellMod
  BY DEF Reader
<1>3. Reader \in Machines
  BY <1>1 DEF Reader, Machines
<1> QED
  BY <1>1, <1>2, <1>3 DEF CellValues, Byte

LEMMA ReaderStays == UNCHANGED fixed => Reader' = Reader /\ (Faithful' => Faithful)
<1> SUFFICES ASSUME UNCHANGED fixed PROVE Reader' = Reader /\ (Faithful' => Faithful)
  OBVIOUS
<1>1. Mode' = Mode
  BY DEF Mode, fixed
<1> QED
  BY <1>1 DEF Reader, Faithful, RunsFit, Spoken, fixed

LEMMA SpokenFacts ==
  ASSUME TypeOK, Faithful
  PROVE  /\ code \in Seq(Token) /\ Single(code) /\ NoJumps
         /\ Running => /\ ip \in 1 .. Len(code) /\ stmt = code[ip] /\ stmt \in Token
                       /\ n = stmt.len /\ n \in Nat /\ stmt.op \in CoreStatements \union {"M"}
                       /\ stmt.op \in {"[", "]", ".", ",", "M"} => n = 1
<1>1. code \in Seq(Token) /\ DOMAIN code = 1 .. Len(code)
  BY DEF TypeOK
<1>2. Single(code)
  BY <1>1 DEF Single, Faithful, Spoken
<1>3. NoJumps
  BY DEF Faithful, Spoken, NoJumps, CoreStatements
<1>4. ASSUME Running PROVE /\ ip \in 1 .. Len(code) /\ stmt = code[ip] /\ stmt \in Token
                           /\ n = stmt.len /\ n \in Nat
  BY <1>1, <1>4, Current DEF stmt, n
<1>5. ASSUME Running PROVE /\ stmt.op \in CoreStatements \union {"M"}
                           /\ stmt.op \in {"[", "]", ".", ",", "M"} => n = 1
  BY <1>5 DEF Running, stmt, n, Faithful, Spoken
<1> QED
  BY <1>1, <1>2, <1>3, <1>4, <1>5

\* A step after which the program shows g.
LEMMA Reflects ==
  ASSUME UNCHANGED fixed, NEW g \in Datas(Reader), NEW f,
         g.head = ptr', g.in = stdin', g.out = stdout',
         \A a \in Nat : CellOf(g.tape, a) = IF a \in 0 .. size' - 1 THEN tape'[a] ELSE 0,
         Awaits(Reader, code, ip', g, f)
  PROVE  Mirror(f)'
<1>1. Reader' = Reader /\ code' = code
  BY ReaderStays DEF fixed
<1>2. Shows(g)'
  BY <1>1 DEF Shows
<1>3. Awaits(Reader', code', ip', g, f)
  BY <1>1
<1> QED
  BY <1>2, <1>3 DEF Mirror

LEMMA MirrorStays ==
  ASSUME UNCHANGED fixed, UNCHANGED <<ip, tape, size, ptr, stdin, stdout>>, NEW f, Mirror(f)
  PROVE  Mirror(f)'
<1>1. PICK d : Shows(d) /\ Awaits(Reader, code, ip, d, f)
  BY DEF Mirror
<1>2. ip' = ip /\ tape' = tape /\ size' = size /\ ptr' = ptr /\ stdin' = stdin /\ stdout' = stdout
  OBVIOUS
<1>3. d \in Datas(Reader) /\ d.head = ptr' /\ d.in = stdin' /\ d.out = stdout'
      /\ \A a \in Nat : CellOf(d.tape, a) = IF a \in 0 .. size' - 1 THEN tape'[a] ELSE 0
  BY <1>1, <1>2 DEF Shows
<1>4. Awaits(Reader, code, ip', d, f)
  BY <1>1, <1>2
<1> QED
  BY <1>3, <1>4, Reflects

LEMMA InitMirror ==
  ASSUME Init, NEW f, Ends(Reader, Begin(Spelled(code), Blank(stdin)), f)
  PROVE  MirrorInv(f)
<1>1. Bounded /\ TypeOK /\ Steady
  BY InitBounded DEF Bounded, Init, Steady
<1> DEFINE d == Blank(stdin)
<1>2. Reader \in Machines /\ CellValues(Reader) = Byte /\ stsize \in Nat \ {0}
      /\ Reader.size = stsize
  BY <1>1, ReaderFacts
<1>3. <<>> \in Tapes(Reader) /\ \A a \in Nat : CellOf(<<>>, a) = 0
  <2>1. DOMAIN <<>> = {} /\ <<>> = [a \in {} |-> 0]
    OBVIOUS
  <2>2. <<>> \in [{} -> 1 .. Reader.values - 1]
    BY <2>1
  <2>3. {} \in SUBSET Nat
    OBVIOUS
  <2>4. <<>> \in Tapes(Reader)
    BY <2>2, <2>3 DEF Tapes
  <2> QED
    BY <2>1, <2>4 DEF CellOf
<1>4. d \in Datas(Reader)
  <2>1. stdin \in Seq(CellValues(Reader))
    BY <1>1, <1>2 DEF TypeOK, Byte
  <2>2. <<>> \in Seq(CellValues(Reader)) /\ 0 \in Nat
    OBVIOUS
  <2>3. Reader.wrap => 0 < Reader.size
    BY <1>2
  <2> QED
    BY <1>2, <1>3, <2>1, <2>2, <2>3, DataMade DEF Blank
<1>5. Shows(d)
  <2>1. d.head = ptr /\ d.in = stdin /\ d.out = stdout /\ d.tape = <<>>
    BY DEF Blank, Init
  <2>2. \A a \in Tape : tape[a] = 0
    BY DEF Init
  <2> QED
    BY <1>3, <1>4, <2>1, <2>2 DEF Shows
<1>6. Awaits(Reader, code, ip, d, f)
  <2>1. code \in Seq(Token) /\ ip = 1
    BY <1>1 DEF TypeOK, Init
  <2> HIDE DEF d
  <2> QED
    BY <2>1, AwaitsStart DEF d
<1> HIDE DEF d
<1> QED
  BY <1>1, <1>5, <1>6 DEF MirrorInv, Mirror

\* The cells of the data are those of the tape.
LEMMA ShownCells ==
  ASSUME TypeOK, NEW d, Shows(d), ptr \in Tape
  PROVE  /\ d \in Datas(Reader) /\ d.head = ptr /\ d.in = stdin /\ d.out = stdout
         /\ d.tape \in Tapes(Reader) /\ Here(d) = Cell /\ Cell \in Byte /\ ptr \in Nat
         /\ \A a \in Tape : CellOf(d.tape, a) = tape[a] /\ a \in Nat
         /\ \A a \in Nat : a \notin Tape => CellOf(d.tape, a) = 0
         /\ \A a \in Tape : tape[a] \in Byte
<1>1. /\ d \in Datas(Reader) /\ d.head = ptr /\ d.in = stdin /\ d.out = stdout
      /\ \A a \in Nat : CellOf(d.tape, a) = IF a \in Tape THEN tape[a] ELSE 0
  BY DEF Shows
<1>2. \A a \in Tape : a \in Nat
  BY DEF TypeOK
<1>3. d.tape \in Tapes(Reader)
  BY <1>1, ReaderFacts, DataFields
<1>4. Here(d) = Cell /\ ptr \in Nat
  BY <1>1, <1>2 DEF Here, Cell
<1>5. \A a \in Tape : tape[a] \in Byte
  BY ReadCell
<1> QED
  BY <1>1, <1>2, <1>3, <1>4, <1>5 DEF Cell

-----------------------------------------------------------------------------
(* Moves.                                                                  *)

LEMMA MovesMirror ==
  ASSUME Bounded, Steady, Faithful, UNCHANGED fixed, Moves, NEW f, Mirror(f)
  PROVE  Mirror(f)'
<1>r. Running /\ stmt.op \in {">", "<"}
  BY DEF Moves, TurboMove, WrapRight, WrapLeft, CheckedRight, CheckedLeft,
         HeapRight, HeapGrow, HeapExhausted, HeapLeft, At
<1>0. TypeOK
  BY DEF Bounded
<1>1. /\ code \in Seq(Token) /\ NoJumps
      /\ ip \in 1 .. Len(code) /\ stmt = code[ip] /\ stmt \in Token
      /\ n = stmt.len /\ n \in Nat
  BY <1>0, <1>r, SpokenFacts
<1>t. /\ ptr \in Tape /\ size \in Nat \ {0} /\ stsize \in Nat \ {0} /\ ptr \in Nat
      /\ n <= stsize /\ stsize <= size
  <2>1. ptr \in Tape /\ size \in Nat \ {0} /\ stsize \in Nat \ {0} /\ stsize <= size
    BY <1>1 DEF Faithful, Bounded, InBounds, TypeOK
  <2>2. n <= stsize
    BY <1>0, <1>r, RunFits DEF Faithful
  <2> QED
    BY <2>1, <2>2
<1>e. /\ Reader \in Machines /\ Reader.wrap = (Mode = "wrap") /\ Reader.size = stsize
  BY <1>0, ReaderFacts
<1>w. ~Reader.wrap <=> Mode # "wrap"
  BY ONLY <1>e
<1>n. n \in Nat
  BY <1>1
<1>2. PICK d : Shows(d) /\ Awaits(Reader, code, ip, d, f)
  BY DEF Mirror
<1>3. d \in Datas(Reader) /\ d.head = ptr /\ d.in = stdin /\ d.out = stdout
      /\ \A a \in Nat : CellOf(d.tape, a) = IF a \in Tape THEN tape[a] ELSE 0
  BY <1>2 DEF Shows
<1> DEFINE i == IF stmt.op = ">" THEN 1 ELSE -1
           m == i * n
           g == Shifted(Reader, d, m)
<1>i. /\ m \in Int /\ (stmt.op = ">" => m = n) /\ (stmt.op = "<" => m = 0 - n)
      /\ (stmt.op = ">" /\ i = 1) \/ (stmt.op = "<" /\ i = -1)
  BY <1>1, <1>r
<1> HIDE DEF m
<1>4. Meaning(stmt) = Run(stmt.op, n)
  BY <1>1, <1>r, MeaningPlain
<1>5. stmt.op = "<" /\ Mode # "wrap" => n <= ptr
  BY <1>1, <1>2, <1>3, <1>e, AwaitsRoom
<1>6. Passes(Reader, Meaning(stmt), d, g)
  <2>1. i = -1 /\ ~Reader.wrap => n <= d.head
    <3>1. d.head = ptr
      BY <1>3
    <3>2. i = -1 => stmt.op = "<"
      BY <1>r
    <3> HIDE DEF i
    <3> QED
      BY ONLY <3>1, <3>2, <1>5, <1>w
  <2> HIDE DEF i
  <2>2. Passes(Reader, Run(stmt.op, n), d, Shifted(Reader, d, i * n))
    BY <1>1, <1>3, <1>e, <1>i, <2>1, RunMoves
  <2> QED
    BY <1>4, <2>2 DEF m
<1>7. Awaits(Reader, code, ip + 1, g, f)
  <2>1. code[ip].op \notin {"[", "]"}
    BY <1>1, <1>r
  <2> HIDE DEF g
  <2> QED
    BY <1>1, <1>2, <1>6, <2>1, AwaitsNext
<1>8. /\ g \in Datas(Reader) /\ g.tape = d.tape /\ g.in = d.in /\ g.out = d.out
      /\ g.head = IF Mode = "wrap" THEN (ptr + m) % stsize ELSE ptr + m
  <2>1. ~Reader.wrap => d.head + m >= 0
    <3>1. d.head = ptr
      BY <1>3
    <3>2. stmt.op = ">" \/ stmt.op = "<"
      BY <1>r
    <3> QED
      BY ONLY <3>1, <3>2, <1>5, <1>w, <1>i, <1>n, <1>t
  <2> HIDE DEF g
  <2>2. /\ g \in Datas(Reader) /\ g.tape = d.tape /\ g.in = d.in /\ g.out = d.out
        /\ g.head = IF Reader.wrap THEN (d.head + m) % Reader.size ELSE d.head + m
    BY <2>1, <1>3, <1>e, <1>i, TurnedFacts DEF g
  <2> QED
    BY <2>2, <1>3, <1>e
<1> HIDE DEF g, i
<1>9. CASE WrapRight \/ WrapLeft \/ HeapRight \/ HeapLeft
  <2>1. ip' = ip + 1 /\ tape' = tape /\ size' = size /\ stdin' = stdin /\ stdout' = stdout
    BY <1>9 DEF WrapRight, WrapLeft, HeapRight, HeapLeft, MoveTo
  <2>2. ptr' = g.head
    <3>1. CASE WrapRight
      <4>1. m = n /\ Mode = "wrap" /\ size = stsize
        BY <3>1, <1>i DEF WrapRight, At, Steady
      <4>2. CASE ptr + n >= size
        <5>0. ptr' = ptr + n - size
          BY <3>1, <4>2 DEF WrapRight, MoveTo
        <5>1. ptr' = ptr + n - size /\ ptr' \in 0 .. size - 1 /\ ptr + n = ptr' + size
          BY ONLY <5>0, <4>1, <4>2, <1>n, <1>t
        <5> QED
          BY <5>1, <4>1, <1>8, <1>t, Modulo
      <4>3. CASE ~(ptr + n >= size)
        <5>1. ptr' = ptr + n /\ ptr + n \in 0 .. size - 1
          BY <3>1, <4>1, <4>3, <1>1, <1>t DEF WrapRight, MoveTo
        <5> QED
          BY <5>1, <4>1, <1>8, <1>t, Modulo
      <4> QED
        BY <4>2, <4>3
    <3>2. CASE WrapLeft
      <4>1. m = 0 - n /\ Mode = "wrap" /\ size = stsize /\ ptr + m = ptr - n
        BY <3>2, <1>i, <1>1, <1>t DEF WrapLeft, At, Steady
      <4>2. CASE ptr - n < 0
        <5>0. ptr' = ptr - n + size
          BY <3>2, <4>2 DEF WrapLeft, MoveTo
        <5>1. ptr' = ptr - n + size /\ ptr' \in 0 .. size - 1 /\ ptr - n = ptr' - size
          BY ONLY <5>0, <4>1, <4>2, <1>n, <1>t
        <5> QED
          BY <5>1, <4>1, <1>8, <1>t, Modulo
      <4>3. CASE ~(ptr - n < 0)
        <5>1. ptr' = ptr - n /\ ptr - n \in 0 .. size - 1
          BY <3>2, <4>1, <4>3, <1>1, <1>t DEF WrapLeft, MoveTo
        <5> QED
          BY <5>1, <4>1, <1>8, <1>t, Modulo
      <4> QED
        BY <4>2, <4>3
    <3>3. CASE HeapRight
      BY <3>3, <1>8, <1>i DEF HeapRight, MoveTo, At
    <3>4. CASE HeapLeft
      <4>1. Mode # "wrap" /\ stmt.op = "<" /\ ptr' = IF ptr < n THEN size - n ELSE ptr - n
        BY <3>4 DEF HeapLeft, MoveTo, At
      <4> QED
        BY <4>1, <1>5, <1>8, <1>i, <1>1, <1>t
    <3> QED
      BY <3>1, <3>2, <3>3, <3>4, <1>9
  <2>3. \A a \in Nat : CellOf(g.tape, a) = IF a \in 0 .. size' - 1 THEN tape'[a] ELSE 0
    BY <1>3, <1>8, <2>1
  <2> QED
    BY <1>3, <1>7, <1>8, <2>1, <2>2, <2>3, Reflects
<1>10. CASE HeapGrow
  <2>1. ip' = ip + 1 /\ stdin' = stdin /\ stdout' = stdout /\ ptr' = ptr + n /\ m = n
        /\ Mode # "wrap" /\ size' = 2 * (ptr + n) /\ ptr + n >= size
        /\ tape' = [a \in 0 .. 2 * (ptr + n) - 1 |-> IF a \in Tape THEN tape[a] ELSE 0]
    BY <1>10, <1>i DEF HeapGrow, At
  <2>2. ASSUME NEW a \in Nat
        PROVE  CellOf(g.tape, a) = IF a \in 0 .. size' - 1 THEN tape'[a] ELSE 0
    <3>1. CellOf(g.tape, a) = IF a \in Tape THEN tape[a] ELSE 0
      BY <1>3, <1>8
    <3>2. a \in Tape => a \in 0 .. size' - 1
      BY <2>1, <1>t, <1>1
    <3>3. a \in 0 .. size' - 1 => tape'[a] = IF a \in Tape THEN tape[a] ELSE 0
      BY <2>1
    <3> QED
      BY <3>1, <3>2, <3>3
  <2> QED
    BY <1>3, <1>7, <1>8, <2>1, <2>2, Reflects
<1>11. CASE HeapExhausted
  BY <1>11, MirrorStays DEF HeapExhausted, Leave
<1>12. ~TurboMove /\ ~CheckedRight /\ ~CheckedLeft
  BY DEF TurboMove, CheckedRight, CheckedLeft, Faithful
<1> QED
  BY <1>9, <1>10, <1>11, <1>12 DEF Moves

-----------------------------------------------------------------------------
(* Cells.                                                                  *)

LEMMA UpdateMirror ==
  ASSUME Bounded, Faithful, UNCHANGED fixed, Update, NEW f, Mirror(f)
  PROVE  Mirror(f)'
<1>r. Running
  BY DEF Update, At, Intrinsic
<1>0. TypeOK
  BY DEF Bounded
<1>1. /\ code \in Seq(Token) /\ NoJumps
      /\ ip \in 1 .. Len(code) /\ stmt = code[ip] /\ stmt \in Token
      /\ n = stmt.len /\ n \in Nat
  BY <1>0, <1>r, SpokenFacts
<1>o. stmt.op \in {"+", "-", "Z", "A", "S"}
  <2>1. stmt.op \in CoreStatements \union {"M"}
    BY <1>0, <1>r, SpokenFacts
  <2> QED
    BY <2>1 DEF Update, At, Intrinsic, CoreStatements
<1>t. ptr \in Tape
  BY <1>1 DEF Faithful, Bounded, InBounds
<1>e. /\ Reader \in Machines /\ Reader.values = CellMod /\ CellMod \in Nat \ {0}
      /\ CellValues(Reader) = Byte
  BY <1>0, ReaderFacts
<1>2. PICK d : Shows(d) /\ Awaits(Reader, code, ip, d, f)
  BY DEF Mirror
<1>3. /\ d \in Datas(Reader) /\ d.head = ptr /\ d.in = stdin /\ d.out = stdout
      /\ d.tape \in Tapes(Reader) /\ Here(d) = Cell /\ Cell \in Byte /\ ptr \in Nat
      /\ \A a \in Tape : CellOf(d.tape, a) = tape[a] /\ a \in Nat
      /\ \A a \in Nat : a \notin Tape => CellOf(d.tape, a) = 0
  BY <1>0, <1>2, <1>t, ShownCells
<1>4. PICK v \in Int : /\ NewValue = v % CellMod
                       /\ Passes(Reader, Meaning(stmt), d, WithCell(Reader, d, v))
  <2>c. Cell \in Int
    BY <1>3 DEF Byte
  <2>1. CASE stmt.op \in {"+", "-"}
    <3> DEFINE i == IF stmt.op = "+" THEN 1 ELSE -1
               v == Cell + i * n
    <3>1. (stmt.op = "+" /\ i = 1) \/ (stmt.op = "-" /\ i = -1)
      BY <2>1
    <3>2. v \in Int /\ NewValue = v % CellMod
      <4>1. stmt.op = "+" => i * n = n
        BY <1>1
      <4>2. stmt.op = "-" => i * n = 0 - n
        BY <1>1
      <4>3. i * n \in Int
        BY <1>1
      <4> HIDE DEF i
      <4>4. Cell + (0 - n) = Cell - n
        BY <1>1, <2>c
      <4>5. stmt.op = "+" => NewValue = (Cell + n) % CellMod
        BY DEF NewValue
      <4>6. stmt.op = "-" => NewValue = (Cell - n) % CellMod
        BY DEF NewValue
      <4> QED
        BY <2>c, <3>1, <4>1, <4>2, <4>3, <4>4, <4>5, <4>6
    <3> HIDE DEF i
    <3>3. Meaning(stmt) = Run(stmt.op, n)
      BY <1>1, <2>1, MeaningPlain
    <3>4. Passes(Reader, Run(stmt.op, n), d, WithCell(Reader, d, Here(d) + i * n))
      BY <1>1, <1>3, <1>e, <3>1, RunAdds
    <3> QED
      BY <1>3, <3>2, <3>3, <3>4
  <2>2. CASE stmt.op = "Z"
    <3>1. Meaning(stmt) = ZL
      BY <1>1, <2>2, MeaningAssigned
    <3>2. NewValue = 0 /\ 0 % CellMod = 0
      BY <2>2, <1>e DEF NewValue
    <3>3. Passes(Reader, ZL, d, WithCell(Reader, d, 0))
      BY <1>3, <1>e, ClearPasses
    <3> QED
      BY <3>1, <3>2, <3>3
  <2>3. CASE stmt.op = "A"
    <3>1. Meaning(stmt) = ZL \o Run("+", n)
      BY <1>1, <2>3, MeaningAssigned
    <3>2. NewValue = n % CellMod /\ 1 * n = n
      BY <2>3, <1>1 DEF NewValue
    <3>3. Passes(Reader, ZL \o Run("+", n), d, WithCell(Reader, d, 1 * n))
      BY <1>1, <1>3, <1>e, AssignPasses
    <3> QED
      BY <1>1, <3>1, <3>2, <3>3
  <2>4. CASE stmt.op = "S"
    <3>1. Meaning(stmt) = ZL \o Run("-", n)
      BY <1>1, <2>4, MeaningAssigned
    <3>2. NewValue = (0 - n) % CellMod /\ (-1) * n = 0 - n /\ 0 - n \in Int
      BY <2>4, <1>1 DEF NewValue
    <3>3. Passes(Reader, ZL \o Run("-", n), d, WithCell(Reader, d, (-1) * n))
      BY <1>1, <1>3, <1>e, AssignPasses
    <3> QED
      BY <3>1, <3>2, <3>3
  <2> QED
    BY <1>o, <2>1, <2>2, <2>3, <2>4
<1> DEFINE g == WithCell(Reader, d, v)
<1>5. /\ g \in Datas(Reader) /\ g.head = d.head /\ g.in = d.in /\ g.out = d.out
      /\ g.tape = SetCell(d.tape, d.head, NewValue)
  BY <1>3, <1>4, <1>e, WrittenFacts
<1> HIDE DEF g
<1>6. Awaits(Reader, code, ip + 1, g, f)
  <2>1. code[ip].op \notin {"[", "]"}
    BY <1>1, <1>o
  <2>2. Passes(Reader, Meaning(code[ip]), d, g)
    BY <1>1, <1>4 DEF g
  <2> QED
    BY <1>1, <1>2, <2>1, <2>2, AwaitsNext
<1>7. /\ tape' = [tape EXCEPT ![ptr] = NewValue] /\ ip' = ip + 1
      /\ size' = size /\ ptr' = ptr /\ stdin' = stdin /\ stdout' = stdout
  BY DEF Update, Write
<1>8. ASSUME NEW a \in Nat
      PROVE  CellOf(g.tape, a) = IF a \in 0 .. size' - 1 THEN tape'[a] ELSE 0
  <2>1. NewValue \in CellValues(Reader)
    BY <1>4, <1>e, ModValue
  <2>2. CellOf(g.tape, a) = IF a = ptr THEN NewValue ELSE CellOf(d.tape, a)
    BY <1>3, <1>5, <1>e, <2>1, SetCellType
  <2>3. DOMAIN tape = Tape
    BY <1>0 DEF TypeOK
  <2>4. a \in Tape => tape'[a] = IF a = ptr THEN NewValue ELSE tape[a]
    BY <1>7, <2>3
  <2> QED
    BY <1>3, <1>7, <1>t, <2>2, <2>4
<1> QED
  BY <1>3, <1>5, <1>6, <1>7, <1>8, Reflects

LEMMA MoveCellMirror ==
  ASSUME Bounded, Steady, Faithful, UNCHANGED fixed, MoveCell, NEW f, Mirror(f)
  PROVE  Mirror(f)'
<1>r. Running /\ stmt.op = "M"
  BY DEF MoveCell, At
<1>0. TypeOK
  BY DEF Bounded
<1>1. /\ code \in Seq(Token) /\ NoJumps
      /\ ip \in 1 .. Len(code) /\ stmt = code[ip] /\ stmt \in Token
      /\ n = stmt.len /\ n = 1
  BY <1>0, <1>r, SpokenFacts
<1>t. ptr \in Tape
  BY <1>1 DEF Faithful, Bounded, InBounds
<1>e. /\ Reader \in Machines /\ Reader.values = CellMod /\ CellMod \in Nat \ {0}
      /\ Reader.wrap = (Mode = "wrap") /\ Reader.size = stsize
  BY <1>0, ReaderFacts
<1>2. PICK d : Shows(d) /\ Awaits(Reader, code, ip, d, f)
  BY DEF Mirror
<1>3. /\ d \in Datas(Reader) /\ d.head = ptr /\ d.in = stdin /\ d.out = stdout
      /\ d.tape \in Tapes(Reader) /\ Here(d) = Cell /\ Cell \in Byte /\ ptr \in Nat
      /\ \A a \in Tape : CellOf(d.tape, a) = tape[a] /\ a \in Nat
      /\ \A a \in Nat : a \notin Tape => CellOf(d.tape, a) = 0
  BY <1>0, <1>2, <1>t, ShownCells
<1>4. ptr + 1 \in Tape /\ ptr + 1 \in Nat /\ size \in Nat
  <2>1. Touched = ptr .. ptr + n
    BY <1>r DEF Touched
  <2>2. ptr + 1 \in ptr .. ptr + n
    BY <1>1, <1>3
  <2>3. Touched \subseteq Tape
    BY DEF MoveCell, Safe
  <2> QED
    BY <1>0, <1>3, <2>1, <2>2, <2>3 DEF TypeOK
<1>5. PICK g \in Datas(Reader) : Spills(Reader, d, g) /\ Passes(Reader, Looped(Body), d, g)
  <2>1. Reader.wrap => d.head + 1 < Reader.size
    <3>1. Mode = "wrap" => ptr + 1 < stsize
      BY <1>3, <1>4 DEF Steady
    <3> QED
      BY <3>1, <1>3, <1>e
  <2>2. Here(d) \in Nat
    BY <1>3 DEF Byte
  <2> QED
    BY <1>3, <1>e, <2>1, <2>2, SpillPasses
<1>6. Awaits(Reader, code, ip + 1, g, f)
  <2>1. code[ip].op \notin {"[", "]"}
    BY <1>1, <1>r
  <2>2. Passes(Reader, Meaning(code[ip]), d, g)
    BY <1>1, <1>5, <1>r, MoveOnce DEF Looped
  <2> QED
    BY <1>1, <1>2, <2>1, <2>2, AwaitsNext
<1>7. /\ tape' = [a \in Tape |-> CASE a = ptr -> 0
                                   [] a \in ptr + 1 .. ptr + n -> (tape[a] + Cell) % CellMod
                                   [] OTHER -> tape[a]]
      /\ ip' = ip + 1
      /\ size' = size /\ ptr' = ptr /\ stdin' = stdin /\ stdout' = stdout
  BY DEF MoveCell, Write
<1>8. ASSUME NEW a \in Nat
      PROVE  CellOf(g.tape, a) = IF a \in 0 .. size' - 1 THEN tape'[a] ELSE 0
  <2>1. CellOf(g.tape, a) = IF a = ptr THEN 0
          ELSE IF a = ptr + 1 THEN (CellOf(d.tape, a) + Cell) % CellMod
          ELSE CellOf(d.tape, a)
    BY <1>3, <1>5, <1>e DEF Spills
  <2>2. a \in ptr + 1 .. ptr + n <=> a = ptr + 1
    BY <1>1, <1>3
  <2>3. ASSUME a \in Tape
        PROVE  tape'[a] = IF a = ptr THEN 0
                 ELSE IF a = ptr + 1 THEN (tape[a] + Cell) % CellMod ELSE tape[a]
    <3>1. tape'[a] = CASE a = ptr -> 0
                       [] a \in ptr + 1 .. ptr + n -> (tape[a] + Cell) % CellMod
                       [] OTHER -> tape[a]
      BY <1>7, <2>3
    <3> QED
      BY <2>2, <3>1
  <2> QED
    BY <1>3, <1>4, <1>7, <1>t, <2>1, <2>3
<1>9. g.head = ptr' /\ g.in = stdin' /\ g.out = stdout'
  BY <1>3, <1>5, <1>7 DEF Spills
<1> QED
  BY <1>6, <1>7, <1>8, <1>9, Reflects

LEMMA PutMirror ==
  ASSUME Bounded, Faithful, UNCHANGED fixed, Put1, NEW f, Mirror(f)
  PROVE  Mirror(f)'
<1>r. Running /\ stmt.op = "."
  BY DEF Put1, At
<1>0. TypeOK
  BY DEF Bounded
<1>1. /\ code \in Seq(Token) /\ NoJumps
      /\ ip \in 1 .. Len(code) /\ stmt = code[ip] /\ stmt \in Token
      /\ n = stmt.len /\ n = 1
  BY <1>0, <1>r, SpokenFacts
<1>t. ptr \in Tape
  BY <1>1 DEF Faithful, Bounded, InBounds
<1>2. PICK d : Shows(d) /\ Awaits(Reader, code, ip, d, f)
  BY DEF Mirror
<1>3. /\ d \in Datas(Reader) /\ d.head = ptr /\ d.in = stdin /\ d.out = stdout
      /\ Here(d) = Cell
      /\ \A a \in Nat : CellOf(d.tape, a) = IF a \in Tape THEN tape[a] ELSE 0
  BY <1>0, <1>2, <1>t, ShownCells DEF Shows
<1> DEFINE g == Obeyed(Reader, ".", d)
<1>4. Passes(Reader, <<".">>, d, g)
  <2>1. "." \in Ops
    BY DEF Ops, CoreOps
  <2> QED
    BY <1>0, <1>3, <2>1, ReaderFacts, CharPasses
<1>5. g.head = ptr /\ g.in = stdin /\ g.out = Append(stdout, Cell) /\ g.tape = d.tape
  <2>1. g = [d EXCEPT !.out = Append(@, Here(d))]
    BY DEF Obeyed
  <2> DEFINE o == Append(d.out, Here(d))
  <2>2. g = [d EXCEPT !.out = o]
    BY <2>1
  <2>3. d = [head |-> d.head, tape |-> d.tape, in |-> d.in, out |-> d.out]
    BY <1>0, <1>3, ReaderFacts, DataFields
  <2> HIDE DEF g, o
  <2>4. g.head = d.head /\ g.in = d.in /\ g.out = o /\ g.tape = d.tape
    BY <2>2, <2>3
  <2> QED
    BY <1>3, <2>4 DEF o
<1>6. Awaits(Reader, code, ip + 1, g, f)
  <2>1. code[ip].op \notin {"[", "]"}
    BY <1>1, <1>r
  <2>2. Meaning(code[ip]) = <<".">>
    BY <1>1, <1>r, MeaningPlain, RunUnit
  <2> HIDE DEF g
  <2> QED
    BY <1>1, <1>2, <1>4, <2>1, <2>2, AwaitsNext
<1>7. /\ stdout' = Append(stdout, Cell) /\ ip' = ip + 1
      /\ size' = size /\ ptr' = ptr /\ stdin' = stdin /\ tape' = tape
  BY DEF Put1
<1>8. g \in Datas(Reader)
  BY <1>4 DEF Passes
<1> HIDE DEF g
<1>9. \A a \in Nat : CellOf(g.tape, a) = IF a \in 0 .. size' - 1 THEN tape'[a] ELSE 0
  BY <1>3, <1>5, <1>7
<1> QED
  BY <1>5, <1>6, <1>7, <1>8, <1>9, Reflects

LEMMA GetMirror ==
  ASSUME Bounded, Faithful, UNCHANGED fixed, Get1, NEW f, Mirror(f)
  PROVE  Mirror(f)'
<1>r. Running /\ stmt.op = ","
  BY DEF Get1, At
<1>0. TypeOK
  BY DEF Bounded
<1>1. /\ code \in Seq(Token) /\ NoJumps
      /\ ip \in 1 .. Len(code) /\ stmt = code[ip] /\ stmt \in Token
      /\ n = stmt.len /\ n = 1
  BY <1>0, <1>r, SpokenFacts
<1>t. ptr \in Tape
  BY <1>1 DEF Faithful, Bounded, InBounds
<1>e. /\ Reader \in Machines /\ Reader.values = CellMod /\ CellMod \in Nat \ {0}
      /\ CellValues(Reader) = Byte
  BY <1>0, ReaderFacts
<1>2. PICK d : Shows(d) /\ Awaits(Reader, code, ip, d, f)
  BY DEF Mirror
<1>3. /\ d \in Datas(Reader) /\ d.head = ptr /\ d.in = stdin /\ d.out = stdout
      /\ d.tape \in Tapes(Reader) /\ ptr \in Nat
      /\ \A a \in Tape : CellOf(d.tape, a) = tape[a] /\ a \in Nat
      /\ \A a \in Nat : a \notin Tape => CellOf(d.tape, a) = 0
  BY <1>0, <1>2, <1>t, ShownCells
<1> DEFINE g == Obeyed(Reader, ",", d)
           v == IF stdin = <<>> THEN CellMod - 1 ELSE Head(stdin)
<1>4. Passes(Reader, <<",">>, d, g)
  <2>1. "," \in Ops
    BY DEF Ops, CoreOps
  <2> QED
    BY <1>3, <1>e, <2>1, CharPasses
<1>v. v \in CellValues(Reader) /\ v \in Int
  <2>1. stdin \in Seq(Byte)
    BY <1>0 DEF TypeOK, Byte
  <2>2. stdin # <<>> => Head(stdin) \in Byte
    BY <2>1
  <2>3. CellMod - 1 \in Byte
    BY <1>e DEF Byte
  <2>4. v \in Byte
    BY <2>2, <2>3
  <2> HIDE DEF v
  <2> QED
    BY <1>e, <2>4 DEF Byte
<1>5. /\ g.head = ptr /\ g.out = stdout /\ g.tape = SetCell(d.tape, ptr, v)
      /\ g.in = IF stdin = <<>> THEN <<>> ELSE Tail(stdin)
  <2>1. CASE stdin = <<>>
    <3>1. g = WithCell(Reader, d, -1)
      BY <1>3, <2>1 DEF Obeyed
    <3>2. (-1) % CellMod = v
      <4>1. 0 \in CellValues(Reader)
        BY <1>e DEF Byte
      <4> QED
        BY <1>e, <2>1, <4>1, ModFacts
    <3> DEFINE z == -1
    <3>z. z \in Int
      OBVIOUS
    <3> HIDE DEF v, g, z
    <3>g. g = WithCell(Reader, d, z)
      BY <3>1 DEF z
    <3>3. /\ g.head = d.head /\ g.in = d.in /\ g.out = d.out
          /\ g.tape = SetCell(d.tape, d.head, (-1) % CellMod)
      BY <1>3, <1>e, <3>g, <3>z, WrittenFacts DEF z
    <3> QED
      BY <1>3, <2>1, <3>2, <3>3
  <2>2. CASE stdin # <<>>
    <3> DEFINE w == WithCell(Reader, d, v)
    <3>0. v = Head(stdin)
      BY <2>2
    <3>1. g = [w EXCEPT !.in = Tail(@)]
      BY <1>3, <2>2, <3>0 DEF Obeyed
    <3>2. v % CellMod = v
      <4> HIDE DEF v
      <4> QED
        BY <1>e, <1>v, ModLess DEF CellValues
    <3> HIDE DEF v
    <3>3. /\ w \in Datas(Reader) /\ w.head = d.head /\ w.in = d.in /\ w.out = d.out
          /\ w.tape = SetCell(d.tape, d.head, v % CellMod)
      BY <1>3, <1>e, <1>v, WrittenFacts
    <3> DEFINE t == Tail(w.in)
    <3>4. g = [w EXCEPT !.in = t]
      BY <3>1
    <3> HIDE DEF g, w, t
    <3>5. w = [head |-> w.head, tape |-> w.tape, in |-> w.in, out |-> w.out]
      BY <1>e, <3>3, DataFields
    <3>6. g.head = w.head /\ g.in = t /\ g.out = w.out /\ g.tape = w.tape
      BY <3>4, <3>5
    <3> QED
      BY <1>3, <2>2, <3>2, <3>3, <3>6 DEF t
  <2> QED
    BY <2>1, <2>2
<1>6. Awaits(Reader, code, ip + 1, g, f)
  <2>1. code[ip].op \notin {"[", "]"}
    BY <1>1, <1>r
  <2>2. Meaning(code[ip]) = <<",">>
    BY <1>1, <1>r, MeaningPlain, RunUnit
  <2> HIDE DEF g
  <2> QED
    BY <1>1, <1>2, <1>4, <2>1, <2>2, AwaitsNext
<1>7. /\ tape' = [tape EXCEPT ![ptr] = v] /\ ip' = ip + 1
      /\ stdin' = IF stdin = <<>> THEN <<>> ELSE Tail(stdin)
      /\ size' = size /\ ptr' = ptr /\ stdout' = stdout
  BY DEF Get1
<1>8. g \in Datas(Reader)
  BY <1>4 DEF Passes
<1> HIDE DEF g, v
<1>9. ASSUME NEW a \in Nat
      PROVE  CellOf(g.tape, a) = IF a \in 0 .. size' - 1 THEN tape'[a] ELSE 0
  <2>2. CellOf(g.tape, a) = IF a = ptr THEN v ELSE CellOf(d.tape, a)
    BY <1>3, <1>5, <1>e, <1>v, SetCellType
  <2>3. DOMAIN tape = Tape
    BY <1>0 DEF TypeOK
  <2>4. a \in Tape => tape'[a] = IF a = ptr THEN v ELSE tape[a]
    BY <1>7, <2>3
  <2> QED
    BY <1>3, <1>7, <1>t, <2>2, <2>4
<1> QED
  BY <1>5, <1>6, <1>7, <1>8, <1>9, Reflects

-----------------------------------------------------------------------------
(* Loops.                                                                  *)

LEMMA LoopMirror ==
  ASSUME Bounded, Faithful, UNCHANGED fixed, Loop, NEW f, Mirror(f)
  PROVE  Mirror(f)'
<1>r. Running /\ stmt.op \in {"[", "]"}
  BY DEF Loop, EnterLoop, SkipLoop, RepeatLoop, At
<1>0. TypeOK
  BY DEF Bounded
<1>1. /\ code \in Seq(Token) /\ Single(code) /\ NoJumps
      /\ ip \in 1 .. Len(code) /\ stmt = code[ip]
  BY <1>0, <1>r, SpokenFacts
<1>d. DOMAIN code = 1 .. Len(code)
  BY <1>1
<1>t. ptr \in Tape
  BY <1>1 DEF Faithful, Bounded, InBounds
<1>2. PICK d : Shows(d) /\ Awaits(Reader, code, ip, d, f)
  BY DEF Mirror
<1>3. /\ d \in Datas(Reader) /\ d.head = ptr /\ d.in = stdin /\ d.out = stdout
      /\ Here(d) = Cell
      /\ \A a \in Nat : CellOf(d.tape, a) = IF a \in Tape THEN tape[a] ELSE 0
  BY <1>0, <1>2, <1>t, ShownCells DEF Shows
<1>4. PICK q \in Nat : Goto(q) /\ Awaits(Reader, code, q, d, f)
  <2>1. CASE EnterLoop
    <3>1. Goto(ip + 1) /\ Cell # 0 /\ code[ip].op = "["
      BY <2>1, <1>1 DEF EnterLoop, At
    <3>2. Awaits(Reader, code, ip + 1, d, f)
      BY <1>1, <1>2, <1>3, <3>1, AwaitsEnter
    <3> QED
      BY <1>1, <3>1, <3>2
  <2>2. CASE SkipLoop
    <3>1. Cell = 0
      BY <2>2 DEF SkipLoop
    <3>2. PICK q \in 1 .. Len(code) : Matching(code, ip, q) /\ Goto(q + 1)
      BY <2>2, <1>1, <1>d DEF SkipLoop
    <3>3. Awaits(Reader, code, q + 1, d, f)
      BY <1>1, <1>2, <1>3, <3>1, <3>2, AwaitsSkip
    <3> QED
      BY <3>2, <3>3
  <2>3. CASE RepeatLoop
    <3>1. PICK p \in 1 .. Len(code) : Matching(code, p, ip) /\ Goto(p)
      BY <2>3, <1>1, <1>d DEF RepeatLoop
    <3>2. Awaits(Reader, code, p, d, f)
      BY <1>1, <1>2, <3>1, AwaitsRepeat
    <3> QED
      BY <3>1, <3>2
  <2> QED
    BY <2>1, <2>2, <2>3 DEF Loop
<1>5. /\ ip' = q /\ tape' = tape /\ size' = size /\ ptr' = ptr /\ stdin' = stdin
      /\ stdout' = stdout
  BY <1>4 DEF Goto
<1> QED
  BY <1>3, <1>4, <1>5, Reflects

LEMMA StepMirror ==
  ASSUME NEW f
  PROVE  MirrorInv(f) /\ [Next]_vars => MirrorInv(f)'
<1> SUFFICES ASSUME MirrorInv(f), [Next]_vars PROVE MirrorInv(f)'
  OBVIOUS
<1>0. Bounded /\ Steady /\ TypeOK
  BY DEF MirrorInv, Bounded
<1>1. Bounded' /\ UNCHANGED fixed
  BY <1>0, StepBounded, FixedStays
<1>2. Steady'
  <2>1. Mode' = Mode /\ stsize' = stsize
    BY <1>1 DEF Mode, fixed
  <2>2. CASE Moves
    <3>1. size' = size \/ HeapGrow
      BY <2>2 DEF Moves, TurboMove, WrapRight, WrapLeft, CheckedRight, CheckedLeft,
         HeapRight, HeapExhausted, HeapLeft, MoveTo, Leave
    <3> QED
      BY <1>0, <2>1, <3>1 DEF HeapGrow, Steady
  <2>3. CASE Jump
    BY <1>0, <2>1, <2>3 DEF Jump, MoveTo, Steady
  <2>4. CASE ~Moves /\ ~Jump
    BY <1>0, <2>1, <2>4, MovesOnly DEF Steady
  <2> QED
    BY <2>2, <2>3, <2>4
<1>3. ASSUME Faithful' PROVE Mirror(f)'
  <2>1. Faithful /\ Mirror(f)
    BY <1>1, <1>3, ReaderStays DEF MirrorInv
  <2>2. CASE Build \/ Start \/ StartFails \/ Escape \/ Return
    BY <1>1, <2>1, <2>2, MirrorStays DEF Build, Start, StartFails, Escape, Return, Leave
  <2>3. CASE Moves
    BY <1>0, <1>1, <2>1, <2>3, MovesMirror
  <2>4. CASE Cells
    <3>1. ~CopyCell
      <4>1. Running => stmt.op # "C"
        BY <1>0, <2>1, SpokenFacts DEF CoreStatements
      <4> QED
        BY <4>1 DEF CopyCell, At
    <3> QED
      BY <1>0, <1>1, <2>1, <2>4, <3>1, UpdateMirror, MoveCellMirror, PutMirror, GetMirror DEF Cells
  <2>5. CASE Loop
    BY <1>0, <1>1, <2>1, <2>5, LoopMirror
  <2>6. ~Extended
    <3>1. Running => stmt.op \in CoreStatements \union {"M"}
      BY <1>0, <2>1, SpokenFacts
    <3> QED
      BY <3>1 DEF Extended, FillZero, FillValue, Multiply, Dump, Execute, WriteAddress, Jump,
         At, Intrinsic, CoreStatements
  <2>7. CASE UNCHANGED vars
    BY <1>1, <2>1, <2>7, MirrorStays DEF vars
  <2> QED
    BY <2>2, <2>3, <2>4, <2>5, <2>6, <2>7 DEF Next, Stop
<1> QED
  BY <1>1, <1>2, <1>3 DEF MirrorInv

\* What the program printed and left on the tape is f.
Shown(f) == /\ f.head = ptr /\ f.in = stdin /\ f.out = stdout
            /\ \A a \in Tape : CellOf(f.tape, a) = tape[a]

\* A program that ends has executed all its statements.
Carried(f) == MirrorInv(f) /\ (status = "done" => ip = Len(code) + 1)

LEMMA StepCarried ==
  ASSUME NEW f
  PROVE  Carried(f) /\ [Next]_vars => Carried(f)'
<1> SUFFICES ASSUME Carried(f), [Next]_vars PROVE Carried(f)'
  OBVIOUS
<1>1. MirrorInv(f)'
  BY StepMirror DEF Carried
<1>2. ASSUME status' = "done" PROVE ip' = Len(code') + 1
  <2>1. code' = code
    BY FixedStays DEF fixed
  <2>2. CASE Return
    BY <2>1, <2>2 DEF Return, Leave
  <2>3. CASE Build \/ Start \/ StartFails \/ Escape
    BY <1>2, <2>3 DEF Build, Start, StartFails, Escape, Leave
  <2>4. CASE Moves
    BY <1>2, <2>4 DEF Moves, TurboMove, WrapRight, WrapLeft, CheckedRight, CheckedLeft,
       HeapRight, HeapGrow, HeapExhausted, HeapLeft, MoveTo, Leave, At, Running
  <2>5. CASE Cells
    BY <1>2, <2>5 DEF Cells, Update, MoveCell, CopyCell, Put1, Get1, Write, At, Intrinsic, Running
  <2>6. CASE Loop
    BY <1>2, <2>6 DEF Loop, EnterLoop, SkipLoop, RepeatLoop, Goto, At, Running
  <2>7. CASE Extended
    BY <1>2, <2>7 DEF Extended, FillZero, FillValue, Multiply, Dump, Execute, WriteAddress, Jump,
       Fill, Write, Leave, Goto, MoveTo, At, Intrinsic, Running
  <2>8. CASE UNCHANGED vars
    BY <1>2, <2>8 DEF vars, Carried
  <2> QED
    BY <2>2, <2>3, <2>4, <2>5, <2>6, <2>7, <2>8 DEF Next, Stop
<1> QED
  BY <1>1, <1>2 DEF Carried

LEMMA InitCarried ==
  ASSUME Init, NEW f, Ends(Reader, Begin(Spelled(code), Blank(stdin)), f)
  PROVE  Carried(f)
  BY InitMirror DEF Carried, Init

LEMMA CarriedShows ==
  ASSUME NEW f, Carried(f), Faithful, status = "done"
  PROVE  Shown(f)
<1>1. PICK d : Shows(d) /\ Awaits(Reader, code, Len(code) + 1, d, f)
  BY DEF Carried, MirrorInv, Mirror
<1>2. code \in Seq(Token) /\ size \in Nat
  BY DEF Carried, MirrorInv, Bounded, TypeOK
<1>3. f = d
  BY <1>1, <1>2, AwaitsEnd
<1> QED
  BY <1>1, <1>2, <1>3 DEF Shows, Shown

\* If what the statements stand for, read as Brainfuck from the start of the
\* tape, ends with the data f, a program that ends has printed what f says and
\* left the cells, the pointer and the rest of the input that f says: every
\* loop, run of moves, assignment and growth of the tape included
\* (emmiters.c:20-157, 255-340).
THEOREM ProgramDoesItsText ==
  ASSUME NEW CONSTANT f
  PROVE  Spec /\ Ends(Reader, Begin(Spelled(code), Blank(stdin)), f)
           => [](Faithful /\ status = "done" => Shown(f))
<1>1. Init /\ Ends(Reader, Begin(Spelled(code), Blank(stdin)), f) => Carried(f)
  BY InitCarried
<1>2. Carried(f) /\ [Next]_vars => Carried(f)'
  BY StepCarried
<1>3. Carried(f) => (Faithful /\ status = "done" => Shown(f))
  BY CarriedShows
<1> QED
  BY <1>1, <1>2, <1>3, PTL DEF Spec

-----------------------------------------------------------------------------
(* What emit prints stands for what its tokens do.                         *)

\* Tokens that have a meaning in the source language.
Sayable(t) == /\ t.op \in CoreOps \union {"Z", "A", "S", "M"}
              /\ t.op = "M" => t.len = 1

LEMMA SpelledJoined ==
  ASSUME NEW a \in Seq(Token)
  PROVE  \A b \in Seq(Token) : Spelled(a \o b) = Spelled(a) \o Spelled(b)
<1> DEFINE T == {b \in Seq(Token) : Spelled(a \o b) = Spelled(a) \o Spelled(b)}
<1>a. Spelled(a) \in Streams
  BY SpelledType DEF Streams
<1>1. <<>> \in T
  <2>1. a \o <<>> = a /\ <<>> \in Seq(Token)
    BY ConcatEmptySeq
  <2>2. Spelled(a) \o <<>> = Spelled(a)
    BY <1>a, TextEmpty
  <2> QED
    BY <2>1, <2>2, SpelledEmpty
<1>2. ASSUME NEW b \in Seq(Token), b \in T, NEW t \in Token PROVE Append(b, t) \in T
  <2>1. a \o Append(b, t) = Append(a \o b, t) /\ a \o b \in Seq(Token) /\ Append(b, t) \in Seq(Token)
    BY ConcatAppend
  <2>2. Spelled(Append(a \o b, t)) = Spelled(a \o b) \o Meaning(t)
    BY <2>1, SpelledAppend
  <2>3. Spelled(Append(b, t)) = Spelled(b) \o Meaning(t)
    BY SpelledAppend
  <2>4. Spelled(b) \in Streams /\ Meaning(t) \in Streams
    BY SpelledType, MeaningType DEF Streams
  <2>5. (Spelled(a) \o Spelled(b)) \o Meaning(t) = Spelled(a) \o (Spelled(b) \o Meaning(t))
    BY ONLY <1>a, <2>4, TextAssoc
  <2>6. Spelled(a \o b) = Spelled(a) \o Spelled(b)
    BY <1>2
  <2>7. Spelled(a \o Append(b, t)) = Spelled(a) \o Spelled(Append(b, t))
    BY ONLY <2>1, <2>2, <2>3, <2>5, <2>6
  <2> QED
    BY <2>1, <2>7
<1>3. Seq(Token) \subseteq T
  <2> HIDE DEF T
  <2> QED
    BY <1>1, <1>2, SeqInduction
<1> QED
  BY <1>3

LEMMA TokMade ==
  ASSUME NEW o \in Ops, NEW k \in Nat
  PROVE  Tok(o, k) \in Token /\ Tok(o, k).op = o /\ Tok(o, k).len = k
  BY DEF Tok, Token

\* A token printed once per repetition.
LEMMA RepeatedSpells ==
  ASSUME NEW o \in Ops, o \notin {"Z", "A", "S", "M"}
  PROVE  \A k \in Nat : /\ [j \in 1 .. k |-> Tok(o, 1)] \in Seq(Token)
                        /\ Spelled([j \in 1 .. k |-> Tok(o, 1)]) = Run(o, k)
<1> DEFINE r(k) == [j \in 1 .. k |-> Tok(o, 1)]
           T == {k \in Nat : Spelled(r(k)) = Run(o, k)}
<1>t. Tok(o, 1) \in Token /\ Meaning(Tok(o, 1)) = <<o>>
  <2>1. Tok(o, 1) \in Token /\ Tok(o, 1).op = o /\ Tok(o, 1).len = 1
    BY TokMade
  <2> QED
    BY <2>1, MeaningPlain, RunUnit
<1>r. \A k \in Nat : r(k) \in Seq(Token) /\ Len(r(k)) = k
  BY <1>t
<1>1. 0 \in T
  <2>1. r(0) = <<>>
    <3>1. r(0) \in Seq(Token) /\ Len(r(0)) = 0
      BY <1>r
    <3> HIDE DEF r
    <3> QED
      BY <3>1
  <2> HIDE DEF r
  <2> QED
    BY <2>1, SpelledEmpty, RunUnit
<1>2. ASSUME NEW k \in Nat, k \in T PROVE k + 1 \in T
  <2> DEFINE a == r(k + 1)
             b == r(k)
             t == Tok(o, 1)
             c == Append(b, t)
  <2>1. a \in Seq(Token) /\ Len(a) = k + 1 /\ b \in Seq(Token) /\ Len(b) = k /\ t \in Token
    BY <1>r, <1>t
  <2>2. (\A j \in 1 .. k + 1 : a[j] = t) /\ (\A j \in 1 .. k : b[j] = t)
    OBVIOUS
  <2> HIDE DEF a, b, t
  <2>3. c \in Seq(Token) /\ Len(c) = k + 1 /\ c[k + 1] = t /\ \A j \in 1 .. k : c[j] = b[j]
    BY <2>1, AppendProperties
  <2> HIDE DEF c
  <2>4. \A j \in 1 .. k + 1 : a[j] = c[j]
    BY <2>2, <2>3
  <2>5. a = c
    BY <2>1, <2>3, <2>4, SeqEqual
  <2>6. Spelled(a) = Spelled(b) \o <<o>>
    BY <2>1, <2>5, <1>t, SpelledAppend DEF c, t
  <2>7. Run(o, k + 1) = Run(o, k) \o <<o>>
    BY RunEnds DEF Cat
  <2>8. Spelled(b) = Run(o, k) /\ k + 1 \in Nat
    BY <1>2 DEF b
  <2>9. Spelled(a) = Run(o, k + 1)
    BY <2>6, <2>7, <2>8
  <2> QED
    BY <2>8, <2>9 DEF a
<1>3. Nat \subseteq T
  <2> HIDE DEF T
  <2> QED
    BY <1>1, <1>2, SetInduction
<1> QED
  BY <1>3, <1>r

\* A statement as emit prints them.
Statement(t) == /\ t \in Token /\ t.op \in CoreStatements \union {"M"}
                /\ t.op \in {"[", "]", ".", ",", "M"} => t.len = 1

LEMMA PrintedSays ==
  ASSUME NEW t \in Token, Sayable(t)
  PROVE  /\ Printed(t) \in Seq(Token) /\ Spelled(Printed(t)) = Meaning(t)
         /\ \A k \in 1 .. Len(Printed(t)) : Statement(Printed(t)[k])
<1>0. t.op \in Ops /\ t.len \in Nat
  BY WeightOf
<1>1. CASE t.op \in {"[", "]", ".", ","}
  <2> DEFINE r == [j \in 1 .. t.len |-> Tok(t.op, 1)]
  <2>1. Printed(t) = [k \in 1 .. t.len |-> Tok(t.op, 1)]
    <3>1. ~(t.op = "?" /\ t.len = 1) /\ ~(t.op = "$" /\ t.len \notin {1, 2, 3, 5})
          /\ ~(t.op \in {NoOp, Uninit})
      BY <1>1 DEF NoOp, Uninit
    <3> QED
      BY <1>1, <3>1 DEF Printed
  <2>2. r \in Seq(Token) /\ Spelled(r) = Run(t.op, t.len)
    BY <1>0, <1>1, RepeatedSpells
  <2>3. Meaning(t) = Run(t.op, t.len)
    BY <1>1, MeaningPlain
  <2>4. \A k \in 1 .. Len(r) : r[k] = Tok(t.op, 1)
    BY <1>0
  <2>6. Printed(t) = r
    BY <2>1
  <2>5. Statement(Tok(t.op, 1))
    <3>1. Tok(t.op, 1) \in Token /\ Tok(t.op, 1).op = t.op /\ Tok(t.op, 1).len = 1
      BY <1>0, TokMade
    <3> QED
      BY <1>1, <3>1 DEF Statement, CoreStatements
  <2> HIDE DEF r
  <2> QED
    BY <2>2, <2>3, <2>4, <2>5, <2>6
<1>2. CASE t.op \notin {"[", "]", ".", ","}
  <2>1. Printed(t) = <<t>>
    <3>1. t.op \notin {"[", "]", ".", ","} /\ t.op # "?" /\ t.op # "$" /\ t.op \notin {NoOp, Uninit}
      BY <1>2 DEF Sayable, CoreOps, NoOp, Uninit
    <3> QED
      BY <3>1 DEF Printed
  <2>2. <<t>> \in Seq(Token) /\ Len(<<t>>) = 1 /\ <<t>>[1] = t
    OBVIOUS
  <2>3. Spelled(<<t>>) = Meaning(t)
    <3>1. <<t>> = Append(<<>>, t) /\ <<>> \in Seq(Token)
      OBVIOUS
    <3>2. Spelled(<<t>>) = <<>> \o Meaning(t)
      BY <3>1, SpelledAppend, SpelledEmpty
    <3>3. Meaning(t) \in Streams
      BY MeaningType DEF Streams
    <3> QED
      BY <3>2, <3>3, TextEmpty
  <2>4. Statement(t)
    BY <1>2 DEF Statement, Sayable, CoreStatements, CoreOps
  <2> QED
    BY <2>1, <2>2, <2>3, <2>4
<1> QED
  BY <1>1, <1>2

\* Printing repeats brackets, reads and writes, and keeps what is said.
THEOREM PrintingKeepsText ==
  \A ts \in Seq(Token) :
    (\A k \in 1 .. Len(ts) : Sayable(ts[k])) =>
      /\ Emit(ts) \in Seq(Token) /\ Spelled(Emit(ts)) = Spelled(ts)
      /\ \A k \in 1 .. Len(Emit(ts)) : Statement(Emit(ts)[k])
<1> DEFINE P(ts) == /\ Emit(ts) \in Seq(Token) /\ Spelled(Emit(ts)) = Spelled(ts)
                    /\ \A k \in 1 .. Len(Emit(ts)) : Statement(Emit(ts)[k])
           T == {ts \in Seq(Token) : (\A k \in 1 .. Len(ts) : Sayable(ts[k])) => P(ts)}
           U(ts) == [k \in DOMAIN ts |-> Printed(ts[k])]
<1>1. <<>> \in T
  <2>1. U(<<>>) = <<>> /\ <<>> \in Seq(Token) /\ Len(<<>>) = 0
    OBVIOUS
  <2>2. Emit(<<>>) = <<>>
    BY <2>1, FlattenEmpty DEF Emit
  <2>3. \A k \in 1 .. Len(Emit(<<>>)) : Statement(Emit(<<>>)[k])
    BY <2>1, <2>2
  <2>4. Emit(<<>>) \in Seq(Token) /\ Spelled(Emit(<<>>)) = Spelled(<<>>)
    BY <2>1, <2>2
  <2> HIDE DEF U
  <2> QED
    BY <2>1, <2>3, <2>4
<1>2. ASSUME NEW ts \in Seq(Token), ts \in T, NEW t \in Token PROVE Append(ts, t) \in T
  <2> DEFINE us == Append(ts, t)
             m == Len(ts)
  <2>1. us \in Seq(Token) /\ Len(us) = m + 1 /\ us[m + 1] = t /\ m \in Nat
        /\ \A k \in 1 .. m : us[k] = ts[k]
    BY AppendProperties
  <2> SUFFICES ASSUME \A k \in 1 .. Len(us) : Sayable(us[k]) PROVE P(us)
    BY <2>1
  <2> HIDE DEF us
  <2>s. Sayable(t) /\ \A k \in 1 .. m : Sayable(ts[k])
    <3>1. m + 1 \in 1 .. Len(us)
      BY <2>1
    <3>2. \A k \in 1 .. m : k \in 1 .. Len(us)
      BY <2>1
    <3> QED
      BY <3>1, <3>2, <2>1
  <2>2. P(ts)
    BY <1>2, <2>s
  <2>3. /\ Printed(t) \in Seq(Token) /\ Spelled(Printed(t)) = Meaning(t)
        /\ \A k \in 1 .. Len(Printed(t)) : Statement(Printed(t)[k])
    BY <2>s, PrintedSays
  <2>4. U(us) = Append(U(ts), Printed(t)) /\ U(ts) \in Seq(Seq(Token))
    <3> DEFINE a == U(us)
               b == U(ts)
               c == Append(b, Printed(t))
    <3>1. \A k \in 1 .. m : Printed(ts[k]) \in Seq(Token)
      <4> SUFFICES ASSUME NEW k \in 1 .. m PROVE Printed(ts[k]) \in Seq(Token)
        OBVIOUS
      <4>1. ts[k] \in Token /\ Sayable(ts[k])
        BY <2>s
      <4> QED
        BY <4>1, PrintedSays
    <3>2. b \in Seq(Seq(Token)) /\ Len(b) = m /\ \A k \in 1 .. m : b[k] = Printed(ts[k])
      <4>1. DOMAIN ts = 1 .. m
        OBVIOUS
      <4> QED
        BY <2>1, <3>1, <4>1
    <3>d. DOMAIN us = 1 .. m + 1
      BY <2>1
    <3>3. \A k \in 1 .. m + 1 : us[k] = IF k = m + 1 THEN t ELSE ts[k]
      BY <2>1
    <3>4. \A k \in 1 .. m + 1 : Printed(us[k]) \in Seq(Token)
      <4> SUFFICES ASSUME NEW k \in 1 .. m + 1 PROVE Printed(us[k]) \in Seq(Token)
        OBVIOUS
      <4>1. k = m + 1 \/ k \in 1 .. m
        BY <2>1
      <4> QED
        BY <4>1, <3>1, <3>3, <2>1, <2>3
    <3>5. a \in Seq(Seq(Token)) /\ Len(a) = m + 1 /\ \A k \in 1 .. m + 1 : a[k] = Printed(us[k])
      BY <2>1, <3>d, <3>4
    <3> HIDE DEF a, b, m
    <3>6. c \in Seq(Seq(Token)) /\ Len(c) = m + 1 /\ c[m + 1] = Printed(t)
          /\ \A k \in 1 .. m : c[k] = b[k]
      BY <2>3, <3>2, AppendProperties
    <3> HIDE DEF c
    <3>7. \A k \in 1 .. m + 1 : a[k] = c[k]
      <4> SUFFICES ASSUME NEW k \in 1 .. m + 1 PROVE a[k] = c[k]
        OBVIOUS
      <4>1. k = m + 1 \/ k \in 1 .. m
        BY <2>1
      <4> QED
        BY <4>1, <2>1, <3>2, <3>5, <3>6
    <3>8. a = c
      BY <3>5, <3>6, <3>7, SeqEqual
    <3> QED
      BY <3>2, <3>8 DEF a, b, c
  <2>5. Emit(us) = Emit(ts) \o Printed(t)
    BY <2>3, <2>4, FlattenAppend DEF Emit
  <2> DEFINE x == Emit(ts)
             y == Printed(t)
  <2>6. x \in Seq(Token) /\ y \in Seq(Token)
    BY <2>2, <2>3
  <2>7. Spelled(Emit(us)) = Spelled(us)
    <3>1. Spelled(x \o y) = Spelled(x) \o Spelled(y)
      BY <2>6, SpelledJoined
    <3>2. Spelled(us) = Spelled(ts) \o Meaning(t)
      BY SpelledAppend DEF us
    <3> QED
      BY <3>1, <3>2, <2>2, <2>3, <2>5
  <2>8. \A k \in 1 .. Len(x) : Statement(x[k])
    BY <2>2
  <2>9. \A k \in 1 .. Len(y) : Statement(y[k])
    BY <2>3
  <2> HIDE DEF x, y
  <2>10. x \o y \in Seq(Token) /\ \A k \in 1 .. Len(x \o y) : Statement((x \o y)[k])
    <3>1. /\ x \o y \in Seq(Token) /\ Len(x \o y) = Len(x) + Len(y)
          /\ \A k \in 1 .. Len(x) + Len(y) : (x \o y)[k] = IF k <= Len(x) THEN x[k] ELSE y[k - Len(x)]
      BY <2>6, ConcatProperties
    <3>2. Len(x) \in Nat /\ Len(y) \in Nat
      BY <2>6
    <3> SUFFICES ASSUME NEW k \in 1 .. Len(x) + Len(y) PROVE Statement((x \o y)[k])
      BY <3>1
    <3>3. k \in 1 .. Len(x) \/ (~(k <= Len(x)) /\ k - Len(x) \in 1 .. Len(y))
      BY <3>2
    <3> QED
      BY <3>1, <3>3, <2>8, <2>9
  <2> QED
    BY <2>5, <2>7, <2>10 DEF x, y
<1>3. Seq(Token) \subseteq T
  <2> HIDE DEF T
  <2> QED
    BY <1>1, <1>2, SeqInduction
<1> QED
  BY <1>3

\* Whatever the token, it is printed as some of its own kind, or not at all.
LEMMA PrintedKind ==
  ASSUME NEW t \in Token
  PROVE  /\ Printed(t) \in Seq(Token)
         /\ \A k \in 1 .. Len(Printed(t)) : Printed(t)[k].op = t.op /\ t.op \notin {NoOp, Uninit}
         /\ t.op \in {"M", "C"} => Printed(t) = <<t>>
<1>0. t.op \in Ops /\ t.len \in Nat
  BY WeightOf
<1>1. CASE t.op \in {"[", "]", ".", ","}
  <2> DEFINE r == [k \in 1 .. t.len |-> Tok(t.op, 1)]
  <2>1. Printed(t) = r /\ t.op \notin {NoOp, Uninit, "M", "C"}
    <3>1. ~(t.op = "?" /\ t.len = 1) /\ ~(t.op = "$" /\ t.len \notin {1, 2, 3, 5})
          /\ t.op \notin {NoOp, Uninit, "M", "C"}
      BY <1>1 DEF NoOp, Uninit
    <3> QED
      BY <1>1, <3>1 DEF Printed
  <2>2. Tok(t.op, 1) \in Token /\ Tok(t.op, 1).op = t.op
    BY <1>0, TokMade
  <2>3. r \in Seq(Token) /\ Len(r) = t.len /\ \A k \in 1 .. Len(r) : r[k] = Tok(t.op, 1)
    BY <1>0, <2>2
  <2> HIDE DEF r
  <2> QED
    BY <2>1, <2>2, <2>3
<1>2. CASE Printed(t) = <<>> /\ t.op \notin {"M", "C"}
  BY <1>2
<1>3. CASE Printed(t) = <<t>> /\ t.op \notin {NoOp, Uninit}
  <2>1. <<t>> \in Seq(Token) /\ Len(<<t>>) = 1 /\ <<t>>[1] = t
    OBVIOUS
  <2> QED
    BY <1>3, <2>1
<1> QED
  BY <1>1, <1>2, <1>3 DEF Printed, NoOp, Uninit

LEMMA EmitStep ==
  /\ Emit(<<>>) = <<>>
  /\ \A ts \in Seq(Token) : \A t \in Token : Emit(Append(ts, t)) = Emit(ts) \o Printed(t)
<1> DEFINE U(ts) == [k \in DOMAIN ts |-> Printed(ts[k])]
<1>1. Emit(<<>>) = <<>>
  <2>1. U(<<>>) = <<>>
    OBVIOUS
  <2> QED
    BY <2>1, FlattenEmpty DEF Emit
<1>2. ASSUME NEW ts \in Seq(Token), NEW t \in Token
      PROVE  Emit(Append(ts, t)) = Emit(ts) \o Printed(t)
  <2> DEFINE us == Append(ts, t)
             m == Len(ts)
             a == U(us)
             b == U(ts)
             x == Printed(t)
             c == Append(b, x)
  <2>1. us \in Seq(Token) /\ Len(us) = m + 1 /\ us[m + 1] = t /\ m \in Nat
        /\ (\A k \in 1 .. m : us[k] = ts[k]) /\ DOMAIN ts = 1 .. m /\ DOMAIN us = 1 .. Len(us)
    BY AppendProperties
  <2>p. \A u \in Token : Printed(u) \in Seq(Token)
    BY PrintedKind
  <2>t. (\A k \in 1 .. m : ts[k] \in Token) /\ x \in Seq(Token)
    BY <2>p, <2>1
  <2> HIDE DEF us
  <2>2. b \in Seq(Seq(Token)) /\ Len(b) = m /\ \A k \in 1 .. m : b[k] = Printed(ts[k])
    BY <2>1, <2>p, <2>t
  <2>3. a \in Seq(Seq(Token)) /\ Len(a) = m + 1 /\ \A k \in 1 .. m + 1 : a[k] = Printed(us[k])
    <3>1. \A k \in 1 .. m + 1 : us[k] \in Token
      BY <2>1
    <3> QED
      BY <2>1, <2>p, <3>1
  <2>x. x = Printed(t)
    OBVIOUS
  <2> HIDE DEF a, b, x, m
  <2>4. c \in Seq(Seq(Token)) /\ Len(c) = m + 1 /\ c[m + 1] = x /\ \A k \in 1 .. m : c[k] = b[k]
    <3>1. x \in Seq(Token) /\ b \in Seq(Seq(Token)) /\ Len(b) = m
      BY <2>t, <2>2
    <3>2. \A ws \in Seq(Seq(Token)) : \A w \in Seq(Token) :
            /\ Append(ws, w) \in Seq(Seq(Token)) /\ Len(Append(ws, w)) = Len(ws) + 1
            /\ Append(ws, w)[Len(ws) + 1] = w
            /\ \A k \in 1 .. Len(ws) : Append(ws, w)[k] = ws[k]
      BY AppendProperties
    <3>3. /\ Append(b, x) \in Seq(Seq(Token)) /\ Len(Append(b, x)) = Len(b) + 1
          /\ Append(b, x)[Len(b) + 1] = x
          /\ \A k \in 1 .. Len(b) : Append(b, x)[k] = b[k]
      BY ONLY <3>1, <3>2, Zenon
    <3>4. c = Append(b, x)
      OBVIOUS
    <3> HIDE DEF c
    <3> QED
      BY ONLY <3>1, <3>3, <3>4
  <2> HIDE DEF c
  <2>5. \A k \in 1 .. m + 1 : a[k] = c[k]
    <3> SUFFICES ASSUME NEW k \in 1 .. m + 1 PROVE a[k] = c[k]
      OBVIOUS
    <3>1. k = m + 1 \/ k \in 1 .. m
      BY <2>1
    <3> QED
      BY <3>1, <2>1, <2>2, <2>3, <2>4, <2>x
  <2>6. a = c
    BY <2>3, <2>4, <2>5, SeqEqual
  <2>7. FlattenSeq(a) = FlattenSeq(b) \o x
    BY <2>2, <2>t, <2>6, FlattenAppend DEF c
  <2> QED
    BY <2>7, <2>x DEF Emit, a, b, us
<1> QED
  BY <1>1, <1>2

\* A statement has the operator of some token, and moves and copies are
\* printed as they are.
EmittedFrom(ts) ==
  /\ Emit(ts) \in Seq(Token)
  /\ \A k \in 1 .. Len(Emit(ts)) : \E j \in 1 .. Len(ts) :
       Emit(ts)[k].op = ts[j].op /\ ts[j].op \notin {NoOp, Uninit}
  /\ \A j \in 1 .. Len(ts) : ts[j].op \in {"M", "C"} =>
       \E k \in 1 .. Len(Emit(ts)) : Emit(ts)[k] = ts[j]

LEMMA EmitFrom == \A ts \in Seq(Token) : EmittedFrom(ts)
<1> DEFINE T == {ts \in Seq(Token) : EmittedFrom(ts)}
<1>1. <<>> \in T
  <2>1. Emit(<<>>) = <<>> /\ <<>> \in Seq(Token) /\ Len(<<>>) = 0
    BY EmitStep
  <2>2. EmittedFrom(<<>>)
    <3>1. Emit(<<>>) \in Seq(Token) /\ Len(Emit(<<>>)) = 0
      BY <2>1
    <3>2. \A k : k \notin 1 .. 0
      OBVIOUS
    <3> HIDE DEF T
    <3> QED
      BY ONLY <2>1, <3>1, <3>2 DEF EmittedFrom
  <2> QED
    BY <2>1, <2>2
<1>2. ASSUME NEW ts \in Seq(Token), ts \in T, NEW t \in Token PROVE Append(ts, t) \in T
  <2> DEFINE us == Append(ts, t)
             m == Len(ts)
             x == Emit(ts)
             y == Printed(t)
             z == x \o y
             q == Len(x)
             h == Len(y)
  <2>1. us \in Seq(Token) /\ Len(us) = m + 1 /\ us[m + 1] = t /\ m \in Nat
        /\ \A k \in 1 .. m : us[k] = ts[k]
    BY AppendProperties
  <2>2. Emit(us) = z
    BY EmitStep
  <2>3. EmittedFrom(ts)
    BY <1>2
  <2>4. /\ x \in Seq(Token)
        /\ \A k \in 1 .. q : \E j \in 1 .. m : x[k].op = ts[j].op /\ ts[j].op \notin {NoOp, Uninit}
        /\ \A j \in 1 .. m : ts[j].op \in {"M", "C"} => \E k \in 1 .. q : x[k] = ts[j]
    BY <2>3 DEF EmittedFrom
  <2>5. /\ y \in Seq(Token) /\ \A k \in 1 .. h : y[k].op = t.op /\ t.op \notin {NoOp, Uninit}
        /\ t.op \in {"M", "C"} => h = 1 /\ y[1] = t
    <3>1. Len(<<t>>) = 1 /\ <<t>>[1] = t
      OBVIOUS
    <3>2. t.op \in {"M", "C"} => y = <<t>>
      BY PrintedKind
    <3> QED
      BY <3>1, <3>2, PrintedKind
  <2>6. q \in Nat /\ h \in Nat
    BY <2>4, <2>5
  <2> HIDE DEF us, x, y, m
  <2>7. /\ z \in Seq(Token) /\ Len(z) = q + h
        /\ \A k \in 1 .. q + h : z[k] = IF k <= q THEN x[k] ELSE y[k - q]
    BY <2>4, <2>5, ConcatProperties
  <2> HIDE DEF z, q, h
  <2>8. ASSUME NEW k \in 1 .. q + h
        PROVE  \E j \in 1 .. m + 1 : z[k].op = us[j].op /\ us[j].op \notin {NoOp, Uninit}
    <3>1. CASE k <= q
      <4>1. k \in 1 .. q /\ z[k] = x[k]
        BY <2>6, <2>7, <3>1
      <4>2. PICK j \in 1 .. m : x[k].op = ts[j].op /\ ts[j].op \notin {NoOp, Uninit}
        BY <2>4, <4>1
      <4>3. j \in 1 .. m + 1 /\ us[j] = ts[j]
        BY <2>1
      <4> QED
        BY <4>1, <4>2, <4>3
    <3>2. CASE ~(k <= q)
      <4>1. k - q \in 1 .. h /\ z[k] = y[k - q]
        BY <2>6, <2>7, <3>2
      <4>2. m + 1 \in 1 .. m + 1
        BY <2>1
      <4> QED
        BY <2>1, <2>5, <4>1, <4>2
    <3> QED
      BY <3>1, <3>2
  <2>9. ASSUME NEW j \in 1 .. m + 1, us[j].op \in {"M", "C"}
        PROVE  \E k \in 1 .. q + h : z[k] = us[j]
    <3>1. CASE j = m + 1
      <4>1. h = 1 /\ y[1] = t /\ us[j] = t
        BY <2>1, <2>5, <2>9, <3>1
      <4>2. q + 1 \in 1 .. q + h /\ ~(q + 1 <= q) /\ (q + 1) - q = 1
        BY <2>6, <4>1
      <4>3. z[q + 1] = y[1]
        BY <2>7, <4>2
      <4> QED
        BY <4>1, <4>2, <4>3
    <3>2. CASE j # m + 1
      <4>1. j \in 1 .. m /\ us[j] = ts[j]
        BY <2>1, <3>2
      <4>2. PICK k \in 1 .. q : x[k] = ts[j]
        BY <2>4, <2>9, <4>1
      <4>3. k \in 1 .. q + h /\ k <= q
        BY <2>6
      <4>4. z[k] = x[k]
        BY <2>7, <4>3
      <4> QED
        BY <4>1, <4>2, <4>3, <4>4
    <3> QED
      BY <3>1, <3>2
  <2>10. EmittedFrom(us)
    BY <2>1, <2>2, <2>7, <2>8, <2>9 DEF EmittedFrom
  <2> QED
    BY <2>1, <2>10 DEF us
<1>3. Seq(Token) \subseteq T
  <2> HIDE DEF T
  <2> QED
    BY <1>1, <1>2, SeqInduction
<1> QED
  BY <1>3

\* The program emit prints for tokens whose text, interpreted, ends with the
\* data f has printed what f says and left its tape, pointer and input: the
\* printing of repeated statements and the program together
\* (emmiters.c:14-171, 251-370).
THEOREM EmittedDoesItsText ==
  ASSUME NEW CONSTANT f, NEW CONSTANT ts \in Seq(Token), \A k \in 1 .. Len(ts) : Sayable(ts[k])
  PROVE  Spec /\ code = Emit(ts) /\ Ends(Reader, Begin(Spelled(ts), Blank(stdin)), f)
           => [](Mode \in {"wrap", "heap"} /\ RunsFit /\ status = "done" => Shown(f))
<1>1. Emit(ts) \in Seq(Token) /\ Spelled(Emit(ts)) = Spelled(ts)
      /\ \A k \in 1 .. Len(Emit(ts)) : Statement(Emit(ts)[k])
  BY PrintingKeepsText
<1>2. code = Emit(ts) /\ [Next]_vars => (code = Emit(ts))'
  BY FixedStays DEF fixed
<1>3. code = Emit(ts) /\ Ends(Reader, Begin(Spelled(ts), Blank(stdin)), f)
        => Ends(Reader, Begin(Spelled(code), Blank(stdin)), f)
  BY <1>1
<1>4. code = Emit(ts) => Spoken
  <2> SUFFICES ASSUME code = Emit(ts) PROVE Spoken
    OBVIOUS
  <2>1. DOMAIN code = 1 .. Len(code) /\ \A k \in 1 .. Len(code) : Statement(code[k])
    BY <1>1
  <2> QED
    BY ONLY <2>1 DEF Spoken, Statement
<1>5. code = Emit(ts) /\ (Faithful /\ status = "done" => Shown(f))
        => (Mode \in {"wrap", "heap"} /\ RunsFit /\ status = "done" => Shown(f))
  BY <1>4 DEF Faithful
<1>6. Spec /\ Ends(Reader, Begin(Spelled(code), Blank(stdin)), f)
        => [](Faithful /\ status = "done" => Shown(f))
  BY ProgramDoesItsText
<1> QED
  BY <1>2, <1>3, <1>5, <1>6, PTL DEF Spec
=============================================================================
