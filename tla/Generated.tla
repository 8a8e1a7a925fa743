----------------------------- MODULE Generated ------------------------------
(***************************************************************************)
(* The C program that src/emmiters.c prints, executed. emit and emit_heap  *)
(* print one group of C statements per token; here each group is one       *)
(* action on the tape. Addresses are offsets from the start of the tape:   *)
(* the pointer buf may leave it, and a statement that would touch a cell   *)
(* outside it ends in the state "stray", after which C promises nothing.   *)
(***************************************************************************)
EXTENDS Tokens

CONSTANTS
  Codes,          \* sequences of statements emit may print (see Emit)
  Targets,        \* records [heap, wrap, turbo, x : BOOLEAN]
  Sizes,          \* tape sizes (stsize) to run with
  Inputs,         \* what the program may read from stdin
  CellMod,        \* values of a uint8_t cell (256 in the code)
  WordSize,       \* cells of a uintptr_t (8 in the code)
  Bases,          \* addresses a tape may be allocated at
  ExecSize,       \* bytes of the page mmap gives for execbuf
  MapMayFail,     \* whether that mmap may fail
  MaxSize,        \* largest tape realloc is able to give
  MaxOutput       \* bound of the model: bytes printed before it stops looking

ASSUME CodesAssumption == Codes \subseteq Seq(Token)
ASSUME InputsAssumption == Inputs \subseteq Seq(0 .. CellMod - 1)
ASSUME SizesAssumption == Sizes \subseteq Nat \ {0}
ASSUME CellModAssumption == CellMod \in Nat \ {0}
ASSUME WordSizeAssumption == WordSize \in Nat \ {0}
ASSUME BasesAssumption == Bases \subseteq Nat
ASSUME MaxSizeAssumption == MaxSize \in Nat
ASSUME MaxOutputAssumption == MaxOutput \in Nat
ASSUME ExecSizeAssumption == ExecSize \in Nat
ASSUME MapMayFailAssumption == MapMayFail \in BOOLEAN

VARIABLES
  code, target,   \* the emitted statements and the flags they were emitted for
  stsize,         \* the tape size printed into the text
  ip,             \* the statement to execute
  tape, size,     \* arr or safeg, as a function from offsets; size
  base, ptr,      \* its address; buf as an offset from it
  stdin, stdout,
  owned,          \* what the process has mapped or allocated and not released
  status

vars == <<code, target, stsize, ip, tape, size, base, ptr, stdin, stdout, owned, status>>

-----------------------------------------------------------------------------
(* Emission: which statements are printed for a token.                     *)

\* Brackets, '.' and ',' are printed once per repetition; '?' alone is only a
\* comment, and '$' has a meaning for some repetitions only.
Printed(t) ==
  CASE t.op \in {"[", "]", ".", ","} -> [k \in 1 .. t.len |-> Tok(t.op, 1)]
    [] t.op = "?" /\ t.len = 1 -> <<>>
    [] t.op = "$" /\ t.len \notin {1, 2, 3, 5} -> <<>>
    [] t.op \in {NoOp, Uninit} -> <<>>
    [] OTHER -> <<t>>
Emit(ts) == FlattenSeq([k \in DOMAIN ts |-> Printed(ts[k])])

\* main tests heap first; emit tests turbo first.
Mode == IF target.heap THEN "heap"
        ELSE IF target.turbo THEN "turbo"
        ELSE IF target.wrap THEN "wrap"
        ELSE "nowrap"

\* The C block a statement is in: the brackets open before it.
Enclosing(k) == {j \in 1 .. k : /\ code[j].op = "["
                                /\ \A m \in j .. k :
                                     TokDepth(SubSeq(code, j, k), m - j + 1) > 0}
Declared(o) == CASE o = "&" -> "__ptr" [] o = "=" -> "tmp" [] OTHER -> ""
Redeclares == \E j, k \in DOMAIN code :
                /\ j < k /\ Enclosing(j) = Enclosing(k)
                /\ Declared(code[j].op) = Declared(code[k].op)
                /\ Declared(code[k].op) # ""
\* '&' mentions `size`, which a turbo program does not declare.
Undeclared == Mode = "turbo" /\ \E k \in DOMAIN code : code[k].op = "&"

NoPointers == \A k \in DOMAIN code : code[k].op \notin {";", "&", "="}

\* read_file keeps the pointer and shellcode operators under --x only.
Init ==
  /\ code \in Codes
  /\ target \in Targets
  /\ ~target.x => NoPointers
  /\ stsize \in Sizes /\ size = stsize
  /\ tape = [a \in 0 .. size - 1 |-> 0]
  /\ base \in Bases
  /\ ptr = 0 /\ ip = 1
  /\ stdin \in Inputs /\ stdout = <<>>
  /\ owned = {} /\ status = "cc"

fixed == <<code, target, stsize>>

\* compile_c: cc accepts the text or every compiler refuses it.
Build ==
  /\ status = "cc"
  /\ status' = IF Redeclares \/ Undeclared THEN "ccerror" ELSE "start"
  /\ UNCHANGED <<fixed, ip, tape, size, base, ptr, stdin, stdout, owned>>

\* The first statements of main: the tape, and execbuf when --x was given.
Start ==
  /\ status = "start" /\ (target.heap => size <= MaxSize)
  /\ \E mapped \in IF target.x THEN {TRUE, ~MapMayFail} ELSE {FALSE} :
       owned' = (IF target.heap THEN {"tape"} ELSE {})
                  \union (IF mapped THEN {"execbuf"} ELSE {})
  /\ status' = "run"
  /\ UNCHANGED <<fixed, ip, tape, size, base, ptr, stdin, stdout>>

StartFails ==
  /\ status = "start" /\ target.heap /\ size > MaxSize
  /\ status' = "nomem"
  /\ UNCHANGED <<fixed, ip, tape, size, base, ptr, stdin, stdout, owned>>

-----------------------------------------------------------------------------
Running == status = "run" /\ ip \in DOMAIN code
stmt == code[ip]
n == stmt.len
At(ops) == Running /\ stmt.op \in ops
Tape == 0 .. size - 1
Cell == tape[ptr]

Intrinsic(k) == At({"$"}) /\ n = k
FitsWord == ptr + WordSize \in 0 .. size

\* The check of $$$$$; on the heap it compares as size_t, so that a pointer
\* left of the tape, which only = can make, is past it.
PastPair == ptr + 1 >= size \/ (Mode = "heap" /\ ptr + 1 < 0)

\* The offsets a statement reads or writes whatever the cells hold.
Touched ==
  CASE stmt.op \in {"+", "-", "Z", "A", "S", ".", ",", "["} -> {ptr}
    [] stmt.op \in {"M", "C"} -> ptr .. ptr + n
    [] stmt.op = ";" -> IF "execbuf" \in owned THEN ptr .. ptr + n - 1 ELSE {}
    [] stmt.op = "?" -> IF ptr < -1 THEN {ptr} ELSE 0 .. ptr
    [] stmt.op = "=" -> ptr .. ptr + WordSize - 1
    [] stmt.op = "&" -> IF FitsWord THEN ptr .. ptr + WordSize - 1 ELSE {}
    [] stmt.op = "$" /\ n \in {1, 2} -> {ptr}
    [] stmt.op = "$" /\ n = 3 -> {ptr, ptr + 1}
    [] stmt.op = "$" /\ n = 5 -> IF PastPair THEN {} ELSE {ptr, ptr + 1}
    [] OTHER -> {}
Safe == Touched \subseteq Tape

Leave(s, released) ==
  /\ status' = s
  /\ owned' = owned \ released
  /\ UNCHANGED <<fixed, ip, tape, size, base, ptr, stdin, stdout>>

MoveTo(p) ==
  /\ ptr' = p
  /\ ip' = ip + 1
  /\ UNCHANGED <<fixed, tape, size, base, stdin, stdout, owned, status>>

Write(f) ==
  /\ tape' = f
  /\ ip' = ip + 1
  /\ UNCHANGED <<fixed, size, base, ptr, stdin, stdout, owned, status>>

\* Any statement that would touch a cell outside the tape.
Escape == Running /\ ~Safe /\ Leave("stray", {})

-----------------------------------------------------------------------------
(* Moves, as each mode prints them.                                        *)

TurboMove ==
  /\ At({">", "<"}) /\ Mode = "turbo"
  /\ MoveTo(IF stmt.op = ">" THEN ptr + n ELSE ptr - n)

\* Mutant: the cell after the last one is let through.
WrapRightLate ==
  /\ At({">"}) /\ Mode = "wrap"
  /\ MoveTo(IF ptr + n > size THEN ptr + n - size ELSE ptr + n)

WrapRight ==
  /\ At({">"}) /\ Mode = "wrap"
  /\ MoveTo(IF ptr + n >= size THEN ptr + n - size ELSE ptr + n)

\* Mutant: the first cell is skipped.
WrapLeftEarly ==
  /\ At({"<"}) /\ Mode = "wrap"
  /\ MoveTo(IF ptr - n <= 0 THEN ptr - n + size ELSE ptr - n)

WrapLeft ==
  /\ At({"<"}) /\ Mode = "wrap"
  /\ MoveTo(IF ptr - n < 0 THEN ptr - n + size ELSE ptr - n)

\* --no-wrap tests before it moves right, and after it moves left.
CheckedRight ==
  /\ At({">"}) /\ Mode = "nowrap"
  /\ IF ptr > size THEN Leave("overflow", {"execbuf"}) ELSE MoveTo(ptr + n)

\* Mutants: the check comes before the move; the exit does not unmap execbuf.
CheckedLeftBefore ==
  /\ At({"<"}) /\ Mode = "nowrap"
  /\ IF ptr < 0 THEN Leave("overflow", {"execbuf"}) ELSE MoveTo(ptr - n)
CheckedLeftLeaking ==
  /\ At({"<"}) /\ Mode = "nowrap"
  /\ IF ptr - n < 0 THEN Leave("overflow", {}) ELSE MoveTo(ptr - n)

CheckedLeft ==
  /\ At({"<"}) /\ Mode = "nowrap"
  /\ IF ptr - n < 0 THEN Leave("overflow", {"execbuf"}) ELSE MoveTo(ptr - n)


HeapRight ==
  /\ At({">"}) /\ Mode = "heap" /\ ptr + n \in Tape
  /\ MoveTo(ptr + n)

\* Mutant: the whole new tape is cleared, not its new cells alone.
HeapGrowClearing ==
  /\ At({">"}) /\ Mode = "heap" /\ ptr + n >= size
  /\ 2 * (ptr + n) <= MaxSize
  /\ size' = 2 * (ptr + n)
  /\ tape' = [a \in 0 .. 2 * (ptr + n) - 1 |-> 0]
  /\ base' \in Bases
  /\ ptr' = ptr + n
  /\ ip' = ip + 1
  /\ UNCHANGED <<fixed, stdin, stdout, owned, status>>

\* GROW_BUF: realloc to twice the offset needed, which may move the tape. A
\* pointer left of the tape, which only = can make, is a huge offset.
HeapGrow ==
  /\ At({">"}) /\ Mode = "heap" /\ ptr + n >= size
  /\ 2 * (ptr + n) <= MaxSize
  /\ size' = 2 * (ptr + n)
  /\ tape' = [a \in 0 .. 2 * (ptr + n) - 1 |-> IF a \in Tape THEN tape[a] ELSE 0]
  /\ base' \in Bases
  /\ ptr' = ptr + n
  /\ ip' = ip + 1
  /\ UNCHANGED <<fixed, stdin, stdout, owned, status>>

HeapExhausted ==
  /\ At({">"}) /\ Mode = "heap" /\ ptr + n \notin Tape
  /\ 2 * (ptr + n) \notin 0 .. MaxSize
  /\ Leave("nomem", {})

HeapLeft ==
  /\ At({"<"}) /\ Mode = "heap"
  /\ MoveTo(IF ptr < n THEN size - n ELSE ptr - n)

-----------------------------------------------------------------------------
(* Cells.                                                                  *)

\* The value the statements that rewrite the current cell alone give it.
NewValue ==
  CASE stmt.op = "+" -> (Cell + n) % CellMod
    [] stmt.op = "-" -> (Cell - n) % CellMod
    [] stmt.op = "A" -> n % CellMod
    [] stmt.op = "S" -> (0 - n) % CellMod
    [] OTHER -> 0

Update ==
  /\ At({"+", "-", "Z", "A", "S"}) \/ Intrinsic(1)
  /\ Safe
  /\ Write([tape EXCEPT ![ptr] = NewValue])


\* M adds the cell to each of its n right neighbours and clears it.
MoveCell ==
  /\ At({"M"}) /\ Safe
  /\ Write([a \in Tape |-> CASE a = ptr -> 0
                             [] a \in ptr + 1 .. ptr + n -> (tape[a] + Cell) % CellMod
                             [] OTHER -> tape[a]])

\* C overwrites its n right neighbours with the cell and clears it.
CopyCell ==
  /\ At({"C"}) /\ Safe
  /\ Write([a \in Tape |-> CASE a = ptr -> 0
                             [] a \in ptr + 1 .. ptr + n -> Cell
                             [] OTHER -> tape[a]])

\* fputc and getchar; at the end of the input getchar returns EOF, stored in
\* a cell as its largest value.
Put1 ==
  /\ At({"."}) /\ Safe /\ Len(stdout) < MaxOutput
  /\ stdout' = Append(stdout, Cell)
  /\ ip' = ip + 1
  /\ UNCHANGED <<fixed, tape, size, base, ptr, stdin, owned, status>>

Get1 ==
  /\ At({","}) /\ Safe
  /\ tape' = [tape EXCEPT ![ptr] = IF stdin = <<>> THEN CellMod - 1 ELSE Head(stdin)]
  /\ stdin' = IF stdin = <<>> THEN <<>> ELSE Tail(stdin)
  /\ ip' = ip + 1
  /\ UNCHANGED <<fixed, size, base, ptr, stdout, owned, status>>

-----------------------------------------------------------------------------
(* Loops: each bracket is the head or the end of a while over the cell.    *)

Goto(q) ==
  /\ ip' = q
  /\ UNCHANGED <<fixed, tape, size, base, ptr, stdin, stdout, owned, status>>

EnterLoop == At({"["}) /\ Safe /\ Cell # 0 /\ Goto(ip + 1)
\* Mutant: a loop that is not entered ends at its closing bracket.
SkipLoopShort ==
  At({"["}) /\ Safe /\ Cell = 0 /\ \E q \in DOMAIN code : Matching(code, ip, q) /\ Goto(q)
SkipLoop == At({"["}) /\ Safe /\ Cell = 0 /\ \E q \in DOMAIN code : Matching(code, ip, q) /\ Goto(q + 1)
RepeatLoop == At({"]"}) /\ \E p \in DOMAIN code : Matching(code, p, ip) /\ Goto(p)

-----------------------------------------------------------------------------
(* The extended operators.                                                 *)

\* $$ and $$$: memset of k cells, after a length check that exits as it is.
FitsLoosely(k) == ptr + k <= size + 1    \* mutant: one cell too many
Fits(k) == ptr + k <= size
Fill(k, v) ==
  IF ~Fits(k) THEN Leave("overflow", {})
  ELSE IF ptr + k - 1 >= size THEN Leave("stray", {})
  ELSE Write([a \in Tape |-> IF a \in ptr .. ptr + k - 1 THEN v ELSE tape[a]])

FillZero ==
  /\ Intrinsic(2) /\ Safe
  /\ Fill(Cell, 0)

FillValue ==
  /\ Intrinsic(3) /\ Safe
  /\ Fill(tape[ptr + 1], Cell)

Multiply ==
  /\ Intrinsic(5) /\ Safe
  /\ IF PastPair THEN Leave("overflow", {})
     ELSE Write([tape EXCEPT ![ptr] = (Cell * tape[ptr + 1]) % CellMod])

\* ?? prints the cells up to buf.
Dump ==
  /\ At({"?"}) /\ Safe
  /\ Goto(ip + 1)

\* ;;; copies the cells to execbuf, calls it and clears it; what the machine
\* code does to the rest of the process is not modelled.
Execute ==
  /\ At({";"}) /\ Safe
  /\ IF "execbuf" \notin owned THEN Leave("nomem", {})
     ELSE IF n > ExecSize THEN Leave("stray", {})
     ELSE Goto(ip + 1)

\* The cells of a uintptr_t, least significant first, hold the address a.
Addresses == 0 .. CellMod ^ WordSize - 1
WordCells == [1 .. WordSize -> 0 .. CellMod - 1]
Holds(w, a) ==
  a = FoldLeft(LAMBDA v, k : v + w[k] * CellMod ^ (k - 1), 0, [k \in 1 .. WordSize |-> k])

\* & stores the address of the cell n - 1 further on.
Pointed == base + ptr + n - 1
WriteAddress ==
  /\ At({"&"}) /\ Safe
  /\ IF ~FitsWord
     THEN Leave("overflow", {"execbuf", "tape"})
     ELSE \E w \in WordCells :
            /\ Holds(w, Pointed % CellMod ^ WordSize)
            /\ Write([a \in Tape |-> IF a \in ptr .. ptr + WordSize - 1
                                     THEN w[a - ptr + 1] ELSE tape[a]])

\* = points buf wherever the cells say.
WordHere == [k \in 1 .. WordSize |-> tape[ptr + k - 1]]
Jump ==
  /\ At({"="}) /\ Safe
  /\ \E a \in Addresses : Holds(WordHere, a) /\ MoveTo(a - base)

\* The end of main releases what it took.
Return ==
  /\ status = "run" /\ ip = Len(code) + 1
  /\ Leave("done", {"execbuf", "tape"})

Ended == status \in {"done", "overflow", "nomem", "ccerror", "stray"}
CutOff == At({"."}) /\ Len(stdout) = MaxOutput
Stop == (Ended \/ CutOff) /\ UNCHANGED vars

Moves == \/ TurboMove \/ WrapRight \/ WrapLeft \/ CheckedRight \/ CheckedLeft
         \/ HeapRight \/ HeapGrow \/ HeapExhausted \/ HeapLeft
Cells == Update \/ MoveCell \/ CopyCell \/ Put1 \/ Get1
Loop == EnterLoop \/ SkipLoop \/ RepeatLoop
Extended == FillZero \/ FillValue \/ Multiply \/ Dump \/ Execute \/ WriteAddress \/ Jump

Next == \/ Build \/ Start \/ StartFails
        \/ Moves \/ Cells \/ Loop \/ Extended
        \/ Escape \/ Return \/ Stop

Spec == Init /\ [][Next]_vars /\ WF_vars(Next)

-----------------------------------------------------------------------------
(* Properties.                                                             *)

CoreStatements == {">", "<", "+", "-", ".", ",", "[", "]", "Z", "A", "S"}
OnlyCore == \A k \in DOMAIN code : code[k].op \in CoreStatements
CoreOrIntrinsic == \A k \in DOMAIN code : code[k].op \in CoreStatements \union {"$"}
NoJumps == \A k \in DOMAIN code : code[k].op # "="

\* No run of moves is longer than the tape the program starts with.
RunsFit == \A k \in DOMAIN code : code[k].op \in {">", "<"} => code[k].len <= stsize

\* The type of every variable of the generated program.
TypeOK ==
  /\ code \in Seq(Token) /\ target \in Targets /\ stsize \in Nat \ {0}
  /\ ip \in 1 .. Len(code) + 1
  /\ size \in Nat \ {0} /\ tape \in [Tape -> 0 .. CellMod - 1]
  /\ base \in Bases /\ ptr \in Int
  /\ stdin \in Seq(0 .. CellMod - 1) /\ stdout \in Seq(0 .. CellMod - 1)
  /\ owned \subseteq {"tape", "execbuf"}
  /\ status \in {"cc", "start", "run", "done", "overflow", "nomem", "ccerror", "stray"}

\* A single subtraction (or `safeg + size - n`) brings the pointer back: with
\* wrapping or on the heap, a program without '=' whose runs fit the initial
\* tape always has its pointer on a cell (emmiters.c:44-47, 62-66, 280-288).
InBounds ==
  Mode \in {"wrap", "heap"} /\ RunsFit /\ NoJumps => ptr \in Tape

\* Hence such a program, without the extensions, never leaves the tape.
NeverStray ==
  Mode \in {"wrap", "heap"} /\ RunsFit /\ OnlyCore => status # "stray"

\* Without wrapping the check before a right move is one move late, and the one
\* after a left move is not: the pointer never goes left of the tape, and right
\* of it by one run of moves at most (emmiters.c:48-55, 67-74).
NoWrapDrift ==
  Mode = "nowrap" /\ NoJumps =>
    /\ ptr >= 0
    /\ ptr <= size \/ \E k \in DOMAIN code : code[k].op = ">" /\ ptr <= size + code[k].len

\* A program that ends by itself has released everything. Of the ways out on an
\* error, in every mode and whatever --x mapped, only three leave something
\* behind: the checks of the intrinsics, a tape that cannot grow and, for the
\* tape, a missing execbuf (emmiters.c:50-73, 121-162, 198-221, 258, 339-381, 440).
ExitsRelease ==
  /\ status = "done" => owned = {}
  /\ status = "overflow" /\ owned # {} => stmt.op = "$"
  /\ status = "nomem" /\ owned # {} =>
       Mode = "heap" /\ (stmt.op = ">" \/ (stmt.op = ";" /\ owned = {"tape"}))

\* INFO.md:398: without wrapping there are no leaks on overflow.
NoWrapReleases == status = "overflow" /\ Mode = "nowrap" => owned = {}

\* The length checks of the intrinsics keep them on the tape; only $$$ reads
\* its length from the next cell unchecked (emmiters.c:189-213, 407-431).
IntrinsicsBounded ==
  /\ Mode \in {"wrap", "heap"} /\ RunsFit /\ CoreOrIntrinsic
  /\ status = "stray"
  => stmt = Tok("$", 3) /\ ptr = size - 1

\* A default program (no flags, the core language, runs that fit) is Brainfuck
\* on a circular tape: each of its steps is a step of CircularTape or changes
\* nothing there (emmiters.c:44-47, 62-66, 100-157).
Default == Mode = "wrap" /\ RunsFit /\ OnlyCore
Abs == INSTANCE CircularTape WITH cells <- size, head <- ptr, Values <- CellMod
CircularTapeSpec == (Default => Abs!Init) /\ [][Default => [Abs!Next]_(Abs!vars)]_vars

\* INFO.md:396: the tape wraps, so a program without extensions cannot touch
\* memory outside it.
WrapNeverStrays ==
  Mode = "wrap" /\ OnlyCore => status # "stray"
=============================================================================
