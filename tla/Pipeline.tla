------------------------------ MODULE Pipeline ------------------------------
(***************************************************************************)
(* The whole compiler and the program it produces: main reads and lexes    *)
(* the source, emit optimizes the tokens and prints them, and the printed  *)
(* program runs. Compared with an interpreter of the source text.          *)
(***************************************************************************)
EXTENDS Interpreter

CONSTANTS
  Sources,          \* the source texts
  Modes,            \* "wrap" or "heap": the flags main passes on
  OptLevels,        \* --opt-level after main's clamping
  StackSize,        \* --stacksize
  InitialCap, CellMod, MaxSize, MaxOutput, Inputs,
  Fuel              \* bound of the model: steps the interpreter is given

ASSUME SourcesAssumption == Sources \subseteq Seq(STRING)
ASSUME ModesAssumption == Modes \subseteq {"wrap", "heap"}
ASSUME OptLevelsAssumption == OptLevels \subseteq Nat
ASSUME StackSizeAssumption == StackSize \in Nat \ {0}
ASSUME InitialCapAssumption == InitialCap \in Nat \ {0}
ASSUME CellModAssumption == CellMod \in Nat \ {0}
ASSUME BoundsAssumption == MaxSize \in Nat /\ MaxOutput \in Nat
ASSUME InputsAssumption == Inputs \subseteq Seq(0 .. CellMod - 1)
ASSUME FuelAssumption == Fuel \in Nat

VARIABLES
  stage, mode, optl, given,
  file, opts, fsize, lexpc, fpos, src, pos, lslots, lsize, block, prev, dropped, st,
  stsize, lexi, plevel, wc, log, srcFrees, vec,
  input, level, slots, osize, pass, opti, stray, optpc,
  code, target, asked, ip, tape, size, base, ptr, stdin, stdout, owned, status

\* main's defaults, with --no-strict so that any balanced text is compiled.
Flags == [strict |-> FALSE, x |-> FALSE, can |-> FALSE, intr |-> FALSE,
          stacksize |-> StackSize]

L == INSTANCE Lexer WITH
       Files <- Sources, OptionSets <- {Flags}, MaxWarnings <- 5, MayFail <- FALSE,
       pc <- lexpc, slots <- lslots, size <- lsize, i <- lexi
O == INSTANCE Optimizer WITH
       Programs <- {}, Levels <- OptLevels, Slack <- 1,
       size <- osize, i <- opti, pc <- optpc
G == INSTANCE Generated WITH
       Codes <- {}, Targets <- {}, Sizes <- {}, WordSize <- 1, Bases <- {0},
       ExecSize <- 0, MapMayFail <- FALSE, stsize <- asked

main == <<stage, mode, optl, given>>
lexVars == <<file, opts, fsize, lexpc, fpos, src, pos, lslots, lsize, block, prev, dropped, st,
             stsize, lexi, plevel, wc, log, srcFrees, vec>>
optVars == <<input, level, slots, osize, pass, opti, stray, optpc>>
runVars == <<code, target, asked, ip, tape, size, base, ptr, stdin, stdout, owned, status>>
vars == <<main, lexVars, optVars, runVars>>

\* Only the lexer starts with anything to do.
Init ==
  /\ stage = "lex" /\ mode \in Modes /\ optl \in OptLevels
  /\ L!Init
  /\ input = <<>> /\ level = 0 /\ slots = <<>> /\ osize = 0
  /\ pass = 0 /\ opti = 0 /\ stray = FALSE /\ optpc = "done"
  /\ code = <<>> /\ asked = 1 /\ ip = 1 /\ size = 1
  /\ target = [heap |-> FALSE, wrap |-> FALSE, turbo |-> FALSE, x |-> FALSE]
  /\ tape = [a \in 0 .. 0 |-> 0] /\ base = 0 /\ ptr = 0
  /\ given \in Inputs /\ stdin = given /\ stdout = <<>> /\ owned = {} /\ status = "done"

Lex ==
  /\ stage = "lex" /\ ~L!Ended /\ L!Next
  /\ UNCHANGED <<main, optVars, runVars>>

\* emit and emit_heap begin by optimizing the vector lex returned.
StartOptimizer ==
  /\ stage = "lex" /\ lexpc = "accepted"
  /\ stage' = "optimize"
  /\ input' = L!out /\ level' = optl
  /\ slots' = L!out \o <<Garbage>> /\ osize' = lsize
  /\ pass' = 0 /\ opti' = 0 /\ stray' = FALSE /\ optpc' = "optimize"
  /\ UNCHANGED <<mode, optl, given, lexVars, runVars>>

Optimize ==
  /\ stage = "optimize" /\ optpc # "done" /\ O!Next
  /\ UNCHANGED <<main, lexVars, runVars>>

\* The program is printed with the tape size lex returned.
StartProgram ==
  /\ stage = "optimize" /\ optpc = "done"
  /\ stage' = "run"
  /\ code' = G!Emit(O!out)
  /\ target' = [heap |-> mode = "heap", wrap |-> TRUE, turbo |-> FALSE, x |-> FALSE]
  /\ asked' = stsize /\ size' = stsize
  /\ tape' = [a \in 0 .. stsize - 1 |-> 0]
  /\ ptr' = 0 /\ ip' = 1 /\ owned' = {} /\ status' = "cc"
  /\ UNCHANGED <<mode, optl, given, base, stdin, stdout, lexVars, optVars>>

Run ==
  /\ stage = "run" /\ ~G!Ended /\ G!Next
  /\ UNCHANGED <<main, lexVars, optVars>>

Done == \/ stage = "run" /\ (G!Ended \/ G!CutOff)
        \/ lexpc = "rejected"
Stop == Done /\ UNCHANGED vars

Next == Lex \/ StartOptimizer \/ Optimize \/ StartProgram \/ Run \/ Stop

Spec == Init /\ [][Next]_vars /\ WF_vars(Next)

-----------------------------------------------------------------------------
(* Properties.                                                             *)

\* The source text, interpreted: with wrapping on a ring of as many cells as
\* the program was given.
Machine == [wrap |-> mode = "wrap", size |-> asked, values |-> CellMod]
Reference == Interpret(Machine, Begin(src, Blank(given)), Fuel)
Agrees(r) == /\ stdout = r.data.out
             /\ \A a \in 0 .. size - 1 : tape[a] = CellOf(r.data.tape, a)
Exact == G!RunsFit /\ \A k \in DOMAIN code : code[k].op \notin {"M", "C"}

\* Folding, cancelling, Z, A, S, printing and growing the tape preserve what
\* the source text does: a program that ends and whose source ends has printed
\* the same bytes and left the same cells, and one whose source ends never
\* goes astray. M over one cell does as its loop where the neighbour is on the
\* tape, the loops of the program decrease by one, and lex left no cancelled
\* move (lexer.c, optm.c and emmiters.c together).
SameBehaviour ==
  /\ stage = "run" /\ Exact /\ status \in {"done", "stray"} =>
       LET r == Reference IN Halted(r) => status = "done" /\ Agrees(r)
  /\ stage = "run" /\ G!RunsFit /\ status = "done"
     /\ (\A k \in DOMAIN code : code[k].op # "C" /\ (code[k].op = "M" => code[k].len = 1))
     /\ (\A k \in DOMAIN input : ~O!Dead(input[k])) /\ O!SingleDecrements
     => LET r == Reference IN Halted(r) => Agrees(r)

\* A source that ends is not turned into a program that runs forever.
SourceEndsProgramEnds ==
  [](stage = "run" /\ status = "cc" /\ Exact /\ Halted(Reference) => <>(G!Ended \/ G!CutOff))

\* INFO.md:27-29: C, which copies the cell to its right neighbours, is
\* equivalent to the loop it replaces.
CopyBehaves ==
  stage = "run" /\ G!RunsFit /\ status = "done"
  /\ (\A k \in DOMAIN code : code[k].op # "M")
  => LET r == Reference IN Halted(r) => Agrees(r)
=============================================================================
