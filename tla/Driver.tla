------------------------------- MODULE Driver -------------------------------
(***************************************************************************)
(* src/lvbfc.c, and the ends of src/emmiters.c: one run of the compiler as *)
(* a process. main parses its arguments, reads and lexes the source, and   *)
(* has emit write the C text to /tmp/bf.c, a name every compiler shares;   *)
(* compile_c then calls cc and, failing that, clang. Several compilers may *)
(* run at once, a process may be killed anywhere, and the disk may fill.   *)
(*                                                                         *)
(* Output names are prefixes of one long string, given by their length:    *)
(* compile_c cuts its command at 256 bytes, and the name with it.          *)
(***************************************************************************)
EXTENDS Integers, Sequences, FiniteSets, SequencesExt

CONSTANTS
  Procs,          \* compiler processes
  CommandLines,   \* argument sequences they may be given (see Argument)
  Blocks,         \* buffers of C text fprintf flushes for one program
  CcRoom,         \* characters of the name that fit the cc command
  ClangRoom,      \* and the clang command, whose name is longer
  MayFail         \* whether files, memory and disk space may be refused

NoName == 0
DefaultOut == 1                     \* "bfout"
\* By what main takes it for: see Memory!PrefixRecognised for "stacksize".
Argument ==
  [kind : {"no-strict", "dmp-tok", "no-wrap", "allow-canary", "allow-intrinsics",
           "heap", "turbo", "x", "help", "unknown"}]
  \union [kind : {"stacksize", "opt-level", "name"}, n : Nat]

ASSUME CommandLinesAssumption == CommandLines \subseteq Seq(Argument)
ASSUME ProcsAssumption == Procs \intersect {"none", "mixed", "hole"} = {}
ASSUME BlocksAssumption == Blocks \in Nat \ {0}
ASSUME RoomAssumption == CcRoom \in Nat /\ ClangRoom \in 0 .. CcRoom
ASSUME MayFailAssumption == MayFail \in BOOLEAN

VARIABLES
  argv, i,        \* per process: the arguments and the next one
  conf,           \* what main has understood so far
  pc,             \* where main is
  wrote,          \* buffers of text handed to the disk so far
  offset,         \* position of the process's stream in /tmp/bf.c
  vec,            \* the token vector: "none", "live", "freed"
  built,          \* the program and the file of a successful cc, if any
  crossed,        \* another compiler held /tmp/bf.c open meanwhile
  tmp,            \* the text of /tmp/bf.c: buffers of programs, or holes
  tools, good,    \* the C compilers installed; the programs they accept
  full            \* whether the disk is full

local == <<argv, i, conf, pc, wrote, offset, vec, built, crossed>>
world == <<tmp, tools, good, full>>
vars == <<local, world>>

Nothing == [prog |-> "none", name |-> NoName]
Hole == [prog |-> "hole", block |-> 0]
Buffer(p, k) == [prog |-> p, block |-> k]

Default == [strict |-> TRUE, dmp |-> FALSE, wrap |-> TRUE, heap |-> FALSE, turbo |-> FALSE,
            x |-> FALSE, can |-> FALSE, intr |-> FALSE, stsize |-> 65536, optl |-> 0,
            file |-> NoName, out |-> DefaultOut]

Init ==
  /\ argv \in [Procs -> CommandLines]
  /\ i = [p \in Procs |-> 1] /\ conf = [p \in Procs |-> Default]
  /\ pc = [p \in Procs |-> "args"]
  /\ wrote = [p \in Procs |-> 0] /\ offset = [p \in Procs |-> 0]
  /\ vec = [p \in Procs |-> "none"] /\ built = [p \in Procs |-> Nothing]
  /\ crossed = [p \in Procs |-> FALSE]
  /\ tmp = <<>>
  /\ tools \in SUBSET {"cc", "clang"} /\ good \in SUBSET Procs
  /\ full = FALSE

\* p goes on to l and keeps what it has.
Goto(p, l) == pc' = [pc EXCEPT ![p] = l]
Free(p) == vec' = [vec EXCEPT ![p] = "freed"]

-----------------------------------------------------------------------------
(* The argument loop of main.                                              *)

\* Mutant: the optimizer level is not brought down to 0 or 1.
UnderstoodRaw(c, a) ==
  CASE a.kind = "name" -> [c EXCEPT !.file = a.n]
    [] a.kind = "opt-level" -> [c EXCEPT !.optl = a.n]
    [] OTHER -> c

Understood(c, a) ==
  CASE a.kind = "no-strict" -> [c EXCEPT !.strict = FALSE]
    [] a.kind = "dmp-tok" -> [c EXCEPT !.dmp = TRUE]
    [] a.kind = "no-wrap" -> [c EXCEPT !.wrap = FALSE]
    [] a.kind = "allow-canary" -> [c EXCEPT !.can = TRUE]
    [] a.kind = "allow-intrinsics" -> [c EXCEPT !.intr = TRUE]
    [] a.kind = "heap" -> [c EXCEPT !.heap = TRUE]
    [] a.kind = "turbo" -> [c EXCEPT !.turbo = TRUE]
    [] a.kind = "x" -> [c EXCEPT !.x = TRUE]
    [] a.kind = "stacksize" -> [c EXCEPT !.stsize = a.n]
    [] a.kind = "opt-level" -> [c EXCEPT !.optl = IF a.n > 0 THEN 1 ELSE 0]
    [] a.kind = "name" -> IF c.file = NoName THEN [c EXCEPT !.file = a.n]
                                             ELSE [c EXCEPT !.out = a.n]

Refuses(a) == a.kind = "unknown" \/ (a.kind = "stacksize" /\ a.n = 0)

\* One turn of the loop; --help and an argument in error end the program.
ParseArg(p) ==
  /\ pc[p] = "args" /\ i[p] <= Len(argv[p])
  /\ LET a == argv[p][i[p]]
     IN  \/ /\ a.kind = "help" /\ Goto(p, "ok") /\ UNCHANGED <<i, conf>>
         \/ /\ Refuses(a) /\ Goto(p, "failed") /\ UNCHANGED <<i, conf>>
         \/ /\ a.kind # "help" /\ ~Refuses(a)
            /\ i' = [i EXCEPT ![p] = @ + 1]
            /\ conf' = [conf EXCEPT ![p] = Understood(@, a)]
            /\ UNCHANGED pc
  /\ UNCHANGED <<argv, wrote, offset, vec, built, crossed, world>>

\* No arguments, or no file among them.
EndArgs(p) ==
  /\ pc[p] = "args" /\ i[p] > Len(argv[p])
  /\ Goto(p, IF conf[p].file = NoName THEN "failed" ELSE "source")
  /\ UNCHANGED <<argv, i, conf, wrote, offset, vec, built, crossed, world>>

-----------------------------------------------------------------------------
(* From the source to the text.                                            *)

\* read_file and lex succeed, or end the program with the vector freed.
FrontEnd(p) ==
  /\ pc[p] = "source"
  /\ \/ Goto(p, IF conf[p].dmp THEN "dump" ELSE "open") /\ vec' = [vec EXCEPT ![p] = "live"]
     \/ Goto(p, "failed") /\ (UNCHANGED vec \/ Free(p))
  /\ UNCHANGED <<argv, i, conf, wrote, offset, built, crossed, world>>

\* --dmp-tok prints the optimized tokens and builds nothing.
DumpKeeping(p) == pc[p] = "dump" /\ Goto(p, "ok") /\ UNCHANGED <<argv, i, conf, wrote, offset, vec, built, crossed, world>>
Dump(p) ==
  /\ pc[p] = "dump"
  /\ Goto(p, "ok") /\ Free(p)
  /\ UNCHANGED <<argv, i, conf, wrote, offset, built, crossed, world>>

\* p has written, or will read, the text in /tmp/bf.c.
Holds(p) == pc[p] \in {"write", "cc", "clang"}

\* Mutant: the file is opened for appending.
OpenAppending(p) ==
  /\ pc[p] = "open"
  /\ Goto(p, "write")
  /\ offset' = [offset EXCEPT ![p] = Len(tmp)]
  /\ crossed' = [q \in Procs |-> crossed[q] \/ (IF q = p THEN \E r \in Procs : Holds(r) ELSE Holds(q))]
  /\ UNCHANGED <<argv, i, conf, wrote, vec, built, world>>

\* fopen for writing empties the file, whoever else has it open.
Open(p) ==
  /\ pc[p] = "open"
  /\ Goto(p, "write")
  /\ tmp' = <<>>
  /\ crossed' = [q \in Procs |-> crossed[q] \/ (IF q = p THEN \E r \in Procs : Holds(r) ELSE Holds(q))]
  /\ UNCHANGED <<argv, i, conf, wrote, offset, vec, built, tools, good, full>>

OpenFails(p) ==
  /\ pc[p] = "open" /\ MayFail
  /\ Goto(p, "failed") /\ Free(p)
  /\ UNCHANGED <<argv, i, conf, wrote, offset, built, crossed, world>>

\* fprintf hands its buffer to the disk at the position of the stream; on a
\* full disk the buffer is lost, and nobody looks at the result.
Flush(p) ==
  /\ pc[p] = "write" /\ wrote[p] < Blocks
  /\ wrote' = [wrote EXCEPT ![p] = @ + 1]
  /\ IF full THEN UNCHANGED <<tmp, offset>>
     ELSE LET at == offset[p] + 1
              end == IF at > Len(tmp) THEN at ELSE Len(tmp)
          IN  /\ offset' = [offset EXCEPT ![p] = at]
              /\ tmp' = [k \in 1 .. end |-> IF k = at THEN Buffer(p, wrote[p] + 1)
                                            ELSE IF k <= Len(tmp) THEN tmp[k] ELSE Hole]
  /\ UNCHANGED <<argv, i, conf, pc, vec, built, crossed, tools, good, full>>

\* emit closes the file and frees the vector.
CloseText(p) ==
  /\ pc[p] = "write" /\ wrote[p] = Blocks
  /\ Goto(p, "cc") /\ Free(p)
  /\ UNCHANGED <<argv, i, conf, wrote, offset, built, crossed, world>>

-----------------------------------------------------------------------------
(* compile_c: system() runs the compiler to its end.                       *)

Text(p) == [k \in 1 .. Blocks |-> Buffer(p, k)]
Whole == \E q \in Procs : tmp = Text(q)
Cut == \E q \in Procs : IsStrictPrefix(tmp, Text(q))

\* What a compiler may make of the file. A text cut short lacks the end of
\* main; one that several processes wrote is anything.
Accepted == {q \in good : tmp = Text(q)} \union (IF Whole \/ Cut THEN {} ELSE {"mixed"})

Fitting(n, room) == IF n <= room THEN n ELSE room

Build(p, room) ==
  \E prog \in Accepted :
    LET name == Fitting(conf[p].out, room)
    IN  /\ built' = [built EXCEPT ![p] = [prog |-> prog, name |-> name]]
        /\ Goto(p, "ok")
        /\ UNCHANGED <<argv, i, conf, wrote, offset, vec, crossed, world>>

\* The command fails: no such compiler, no room, or it refuses the text.
Unbuilt(p, tool, l) ==
  /\ tool \notin tools \/ full \/ "mixed" \in Accepted \/ Accepted = {}
  /\ Goto(p, l)
  /\ UNCHANGED <<argv, i, conf, wrote, offset, vec, built, crossed, world>>

Cc(p) ==
  /\ pc[p] = "cc"
  /\ \/ "cc" \in tools /\ Build(p, CcRoom)
     \/ Unbuilt(p, "cc", "clang")

\* Mutant: a failing clang is followed by cc again.
ClangRetries(p) == pc[p] = "clang" /\ (("clang" \in tools /\ Build(p, ClangRoom)) \/ Unbuilt(p, "clang", "cc"))
\* Mutant: the result of the second command is not looked at.
ClangUnchecked(p) == pc[p] = "clang" /\ (("clang" \in tools /\ Build(p, ClangRoom)) \/ Unbuilt(p, "clang", "ok"))
Clang(p) ==
  /\ pc[p] = "clang"
  /\ \/ "clang" \in tools /\ Build(p, ClangRoom)
     \/ Unbuilt(p, "clang", "failed")

-----------------------------------------------------------------------------
Ended(p) == pc[p] \in {"ok", "failed", "killed"}

Killed(p) ==
  /\ MayFail /\ ~Ended(p)
  /\ Goto(p, "killed")
  /\ UNCHANGED <<argv, i, conf, wrote, offset, vec, built, crossed, world>>

DiskFills ==
  /\ MayFail /\ ~full
  /\ full' = TRUE
  /\ UNCHANGED <<local, tmp, tools, good>>

Step(p) == \/ ParseArg(p) \/ EndArgs(p) \/ FrontEnd(p) \/ Dump(p)
           \/ Open(p) \/ OpenFails(p) \/ Flush(p) \/ CloseText(p)
           \/ Cc(p) \/ Clang(p)
Stop == (\A p \in Procs : Ended(p)) /\ UNCHANGED vars

Next == (\E p \in Procs : Step(p) \/ Killed(p)) \/ DiskFills \/ Stop

Spec == Init /\ [][Next]_vars /\ \A p \in Procs : WF_vars(Step(p))

-----------------------------------------------------------------------------
(* Properties.                                                             *)

Program == Procs \union {"none", "mixed", "hole"}

\* The type of every variable.
TypeOK ==
  /\ argv \in [Procs -> Seq(Argument)]
  /\ i \in [Procs -> Nat] /\ \A p \in Procs : i[p] \in 1 .. Len(argv[p]) + 1
  /\ conf \in [Procs -> [strict : BOOLEAN, dmp : BOOLEAN, wrap : BOOLEAN, heap : BOOLEAN,
                         turbo : BOOLEAN, x : BOOLEAN, can : BOOLEAN, intr : BOOLEAN,
                         stsize : Nat \ {0}, optl : 0 .. 1, file : Nat, out : Nat]]
  /\ pc \in [Procs -> {"args", "source", "dump", "open", "write", "cc", "clang",
                       "ok", "failed", "killed"}]
  /\ wrote \in [Procs -> 0 .. Blocks] /\ offset \in [Procs -> 0 .. Blocks]
  /\ vec \in [Procs -> {"none", "live", "freed"}]
  /\ built \in [Procs -> [prog : Program, name : Nat]] /\ crossed \in [Procs -> BOOLEAN]
  /\ tmp \in Seq([prog : Program, block : 0 .. Blocks])
  /\ tools \subseteq {"cc", "clang"} /\ good \subseteq Procs /\ full \in BOOLEAN

\* Whichever way a program leaves main, lex, emit or compile_c, the vector has
\* been freed (lvbfc.c:154, emmiters.c:13, 227).
Released == \A p \in Procs : pc[p] \in {"ok", "failed"} => vec[p] # "live"

\* Unless another compiler had /tmp/bf.c open in between, "compiled
\* successfully" means that the named file holds the program of this source:
\* whatever an earlier, a failed or a killed compiler left there, however much
\* of the text the disk lost, and whichever C compiler took it.
OwnProgram ==
  \A p \in Procs :
    built[p] # Nothing /\ ~crossed[p] =>
      /\ built[p].prog = p
      /\ conf[p].out <= ClangRoom => built[p].name = conf[p].out

\* A program that ended well was asked for help or for a dump, or has built
\* something; one that failed has built nothing, and once the text is written
\* it fails for a reason only: a crossing, a full disk, a program no compiler
\* takes, or no compiler (lvbfc.c:45-65, 141-158).
ExitTellsTruth ==
  \A p \in Procs :
    /\ pc[p] = "ok" => \/ built[p] # Nothing
                       \/ conf[p].dmp
                       \/ \E k \in DOMAIN argv[p] : argv[p][k].kind = "help"
    /\ pc[p] = "failed" => built[p] = Nothing
    /\ pc[p] = "failed" /\ wrote[p] = Blocks =>
         crossed[p] \/ full \/ p \notin good \/ tools = {}

\* A compiler that is given the processor comes to an end, whatever the others
\* do: nothing in it waits for them.
Ends == \A p \in Procs : <>Ended(p)

\* lvbfc.c:32: `./lvbfc hello.b hello` compiles hello.b to ./hello: whatever
\* other compilers run, none builds the whole program of another from /tmp/bf.c.
AlwaysOwnProgram == \A p \in Procs : built[p].prog \notin Procs \ {p}
=============================================================================
