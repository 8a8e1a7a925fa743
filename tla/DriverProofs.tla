---------------------------- MODULE DriverProofs ----------------------------
(***************************************************************************)
(* Proofs about Driver: for any number of compilers, any command lines and *)
(* any length of the text, what a compiler reports of its program is true. *)
(***************************************************************************)
EXTENDS Driver, TLAPS

\* Where a process stands: nothing is written before the file is open, all of
\* it once it is closed, and nothing is built before the end.
Staged ==
  \A p \in Procs :
    /\ pc[p] \in {"args", "source", "dump", "open"} => wrote[p] = 0 /\ offset[p] = 0
    /\ pc[p] \in {"cc", "clang"} => wrote[p] = Blocks
    /\ pc[p] # "ok" => built[p] = Nothing
    /\ pc[p] = "dump" => conf[p].dmp
    /\ offset[p] <= wrote[p] /\ (~full => offset[p] = wrote[p])
    /\ pc[p] \in {"args", "source", "cc", "clang"} => vec[p] # "live"

\* Two compilers that hold the file know each other crossed.
Crossing ==
  \A p, q \in Procs : p # q /\ Holds(p) /\ Holds(q) => crossed[p]

\* What an undisturbed compiler has written is all there is in the file.
Begun(p, k) == [j \in 1 .. k |-> Buffer(p, j)]
Alone ==
  \A p \in Procs : Holds(p) /\ ~crossed[p] => tmp = Begun(p, offset[p])

\* Why the second compiler is tried.
NoCc ==
  \A p \in Procs : pc[p] = "clang" => crossed[p] \/ full \/ p \notin good \/ "cc" \notin tools

Inv == TypeOK /\ Staged /\ Crossing /\ Alone /\ NoCc /\ Released /\ OwnProgram /\ ExitTellsTruth

-----------------------------------------------------------------------------
(* The file of an undisturbed compiler.                                    *)

LEMMA BegunShape ==
  ASSUME NEW p \in Procs, NEW k \in 0 .. Blocks
  PROVE  /\ Begun(p, k) \in Seq([prog : Program, block : 0 .. Blocks])
         /\ Len(Begun(p, k)) = k
<1>1. Blocks \in Nat
  BY BlocksAssumption
<1>2. \A j \in 1 .. k : Buffer(p, j) \in [prog : Program, block : 0 .. Blocks]
  BY <1>1 DEF Buffer, Program
<1>3. Begun(p, k) \in [1 .. k -> [prog : Program, block : 0 .. Blocks]]
  BY <1>2 DEF Begun
<1> DEFINE b == Begun(p, k)
           S == [prog : Program, block : 0 .. Blocks]
<1>4. k \in Nat /\ b \in [1 .. k -> S]
  BY <1>1, <1>3
<1> HIDE DEF b, S
<1>5. b \in Seq(S) /\ Len(b) = k
  BY <1>4
<1> QED
  BY <1>5 DEF b, S

LEMMA TextIsBegun ==
  ASSUME NEW p \in Procs
  PROVE  Text(p) = Begun(p, Blocks)
  BY DEF Text, Begun

\* Different programs have different texts, and none is part of another.
LEMMA OneText ==
  ASSUME NEW p \in Procs, NEW q \in Procs, NEW k \in 0 .. Blocks, Begun(p, k) = Text(q)
  PROVE  k = Blocks /\ p = q
<1>1. Blocks \in Nat \ {0}
  BY BlocksAssumption
<1>2. k = Blocks
  <2>1. Len(Begun(p, k)) = k /\ Len(Begun(q, Blocks)) = Blocks
    BY <1>1, BegunShape
  <2> QED
    BY <2>1, TextIsBegun
<1>3. Begun(p, k)[1] = Buffer(p, 1) /\ Text(q)[1] = Buffer(q, 1)
  BY <1>1, <1>2 DEF Begun, Text
<1>4. Buffer(p, 1).prog = p /\ Buffer(q, 1).prog = q
  BY DEF Buffer
<1> QED
  BY <1>2, <1>3, <1>4

\* What a compiler may make of it: its own program, or nothing.
LEMMA OwnAccepted ==
  ASSUME NEW p \in Procs, NEW k \in 0 .. Blocks, tmp = Begun(p, k), good \subseteq Procs
  PROVE  /\ Accepted \subseteq {p}
         /\ k = Blocks /\ p \in good => Accepted = {p}
<1>1. Blocks \in Nat \ {0}
  BY BlocksAssumption
<1>2. Whole \/ Cut
  <2>1. CASE k = Blocks
    BY <2>1, TextIsBegun DEF Whole
  <2>2. CASE k < Blocks
    <3>1. Len(Begun(p, k)) = k /\ Len(Text(p)) = Blocks
      BY <1>1, BegunShape, TextIsBegun
    <3>2. \A j \in 1 .. k : tmp[j] = Text(p)[j]
      BY <1>1, <2>2 DEF Begun, Text
    <3>3. SubSeq(tmp, 1, k) = SubSeq(Text(p), 1, k)
      BY <1>1, <2>2, <3>2
    <3>4. IsStrictPrefix(tmp, Text(p))
      BY <1>1, <2>2, <3>1, <3>3 DEF IsStrictPrefix, IsPrefix
    <3> QED
      BY <3>4 DEF Cut
  <2> QED
    BY <1>1, <2>1, <2>2
<1>3. Accepted = {q \in good : tmp = Text(q)}
  BY <1>2 DEF Accepted
<1>4. \A q \in good : tmp = Text(q) => q = p
  BY OneText
<1>5. k = Blocks => tmp = Text(p)
  BY TextIsBegun
<1> QED
  BY <1>3, <1>4, <1>5

-----------------------------------------------------------------------------
(* The steps.                                                              *)

\* Where nobody begins to hold the file, and nobody writes it.
LEMMA QuietKeeps ==
  ASSUME Inv, UNCHANGED <<offset, crossed, tmp>>, \A q \in Procs : Holds(q)' => Holds(q)
  PROVE  Crossing' /\ Alone'
BY DEF Inv, Crossing, Alone, Begun, Buffer

\* What main may have understood.
Settings == [strict : BOOLEAN, dmp : BOOLEAN, wrap : BOOLEAN, heap : BOOLEAN,
             turbo : BOOLEAN, x : BOOLEAN, can : BOOLEAN, intr : BOOLEAN,
             stsize : Nat \ {0}, optl : 0 .. 1, file : Nat, out : Nat]

LEMMA InitInv == Init => Inv
<1> SUFFICES ASSUME Init PROVE Inv
  OBVIOUS
<1>1. Blocks \in Nat \ {0} /\ CommandLines \subseteq Seq(Argument)
  BY BlocksAssumption, CommandLinesAssumption
<1>2. TypeOK
  <2>1. Default \in Settings
    BY DEF Default, NoName, DefaultOut, Settings
  <2>2. Nothing \in [prog : Program, name : Nat]
    BY DEF Nothing, Program, NoName
  <2>3. argv \in [Procs -> Seq(Argument)] /\ i \in [Procs -> Nat]
    BY <1>1 DEF Init
  <2>4. \A p \in Procs : i[p] \in 1 .. Len(argv[p]) + 1
    BY <2>3 DEF Init
  <2>5. /\ pc \in [Procs -> {"args", "source", "dump", "open", "write", "cc", "clang",
                             "ok", "failed", "killed"}]
        /\ wrote \in [Procs -> 0 .. Blocks] /\ offset \in [Procs -> 0 .. Blocks]
        /\ vec \in [Procs -> {"none", "live", "freed"}] /\ crossed \in [Procs -> BOOLEAN]
    BY <1>1 DEF Init
  <2>6. conf \in [Procs -> Settings] /\ built \in [Procs -> [prog : Program, name : Nat]]
    BY <2>1, <2>2 DEF Init
  <2>7. tmp \in Seq([prog : Program, block : 0 .. Blocks])
    BY DEF Init
  <2>8. tools \subseteq {"cc", "clang"} /\ good \subseteq Procs
    BY DEF Init
  <2>9. full \in BOOLEAN
    BY DEF Init
  <2> QED
    BY <2>3, <2>4, <2>5, <2>6, <2>7, <2>8, <2>9 DEF TypeOK, Settings
<1>3. Staged /\ Crossing /\ Alone /\ NoCc
  BY <1>1 DEF Init, Staged, Crossing, Alone, NoCc, Holds
<1>4. Released /\ OwnProgram /\ ExitTellsTruth
  BY DEF Init, Released, OwnProgram, ExitTellsTruth
<1> QED
  BY <1>2, <1>3, <1>4 DEF Inv

LEMMA UnderstoodType ==
  ASSUME NEW c \in Settings, NEW a \in Argument, ~Refuses(a), a.kind # "help"
  PROVE  Understood(c, a) \in Settings
<1>1. CASE a.kind \in {"no-strict", "dmp-tok", "no-wrap", "allow-canary"}
  BY <1>1 DEF Understood, Settings
<1>2. CASE a.kind \in {"allow-intrinsics", "heap", "turbo", "x"}
  BY <1>2 DEF Understood, Settings
<1>3. CASE a.kind \in {"stacksize", "opt-level", "name"}
  <2>1. a.n \in Nat /\ (a.kind = "stacksize" => a.n # 0)
    BY <1>3 DEF Argument, Refuses
  <2>2. CASE a.kind = "stacksize"
    BY <2>1, <2>2 DEF Understood, Settings
  <2>3. CASE a.kind = "opt-level"
    BY <2>1, <2>3 DEF Understood, Settings
  <2>4. CASE a.kind = "name"
    BY <2>1, <2>4 DEF Understood, Settings
  <2> QED
    BY <1>3, <2>2, <2>3, <2>4
<1> QED
  BY <1>1, <1>2, <1>3 DEF Argument, Refuses

LEMMA ParseArgInv ==
  ASSUME Inv, NEW p \in Procs, ParseArg(p)
  PROVE  Inv'
<1>1. /\ pc[p] = "args" /\ i[p] \in 1 .. Len(argv[p])
      /\ UNCHANGED <<argv, wrote, offset, vec, built, crossed, tmp, tools, good, full>>
  BY DEF ParseArg, Inv, TypeOK, world
<1> DEFINE a == argv[p][i[p]]
<1>2. a \in Argument
  BY <1>1 DEF Inv, TypeOK
<1>3. \/ a.kind = "help" /\ Goto(p, "ok") /\ UNCHANGED <<i, conf>>
      \/ Goto(p, "failed") /\ UNCHANGED <<i, conf>>
      \/ /\ a.kind # "help" /\ ~Refuses(a) /\ UNCHANGED pc
         /\ i' = [i EXCEPT ![p] = @ + 1]
         /\ conf' = [conf EXCEPT ![p] = Understood(@, a)]
  BY DEF ParseArg
<1>4. TypeOK'
  <2>1. CASE UNCHANGED pc /\ i' = [i EXCEPT ![p] = @ + 1] /\ conf' = [conf EXCEPT ![p] = Understood(@, a)]
             /\ a.kind # "help" /\ ~Refuses(a)
    <3>1. Understood(conf[p], a) \in Settings
      BY <1>2, <2>1, UnderstoodType DEF Inv, TypeOK, Settings
    <3>2. i' \in [Procs -> Nat] /\ \A q \in Procs : i'[q] \in 1 .. Len(argv[q]) + 1
      BY <1>1, <2>1 DEF Inv, TypeOK
    <3> HIDE DEF a
    <3> QED
      BY <1>1, <2>1, <3>1, <3>2 DEF Inv, TypeOK, Settings
  <2>2. CASE UNCHANGED <<i, conf>> /\ (Goto(p, "ok") \/ Goto(p, "failed"))
    BY <1>1, <2>2 DEF Inv, TypeOK, Goto
  <2> QED
    BY <1>3, <2>1, <2>2
<1>5. \A q \in Procs : Holds(q)' => Holds(q)
  BY <1>1, <1>3 DEF Inv, TypeOK, Goto, Holds
<1>6. Crossing' /\ Alone'
  BY <1>1, <1>5, QuietKeeps
<1>7. \A q \in Procs : q # p => pc'[q] = pc[q] /\ conf'[q] = conf[q]
  BY <1>3 DEF Inv, TypeOK, Goto
<1>8. \/ pc'[p] = "args"
      \/ pc'[p] = "ok" /\ \E k \in DOMAIN argv[p] : argv[p][k].kind = "help"
      \/ pc'[p] = "failed"
  BY <1>1, <1>3 DEF Inv, TypeOK, Goto
<1>9. wrote[p] = 0 /\ offset[p] = 0 /\ built[p] = Nothing /\ vec[p] # "live" /\ Blocks # 0
  BY <1>1, BlocksAssumption DEF Inv, Staged
<1>10. Staged' /\ NoCc' /\ Released' /\ OwnProgram'
  BY <1>1, <1>7, <1>8, <1>9 DEF Inv, Staged, NoCc, Released, OwnProgram
<1>11. ExitTellsTruth'
  BY <1>1, <1>7, <1>8, <1>9 DEF Inv, ExitTellsTruth
<1> QED
  BY <1>4, <1>6, <1>10, <1>11 DEF Inv

\* A step of p alone that moves on to l and changes its vector at most.
Passes(p, l) ==
  /\ pc' = [pc EXCEPT ![p] = l] /\ (UNCHANGED vec \/ \E v \in {"live", "freed"} : vec' = [vec EXCEPT ![p] = v])
  /\ l \in {"source", "dump", "open", "cc", "clang", "ok", "failed", "killed"}
  /\ l \in {"cc", "clang"} => Holds(p)
  /\ UNCHANGED <<argv, i, conf, wrote, offset, built, crossed, tmp, tools, good, full>>

\* What is left to show of such a step is about where it leads.
LEMMA PassKeeps ==
  ASSUME Inv, NEW p \in Procs, NEW l, Passes(p, l), ~Ended(p),
         l \in {"source", "dump", "open"} => pc[p] \in {"args", "source"},
         l \in {"cc", "clang"} => wrote[p] = Blocks,
         l = "dump" => conf[p].dmp,
         l = "clang" => crossed[p] \/ full \/ p \notin good \/ "cc" \notin tools,
         l \in {"source", "cc", "clang", "ok", "failed"} => vec'[p] # "live",
         l = "ok" => conf[p].dmp,
         l = "failed" => wrote[p] # Blocks \/ crossed[p] \/ full \/ p \notin good \/ tools = {}
  PROVE  Inv'
<1>1. /\ UNCHANGED <<argv, i, conf, wrote, offset, built, crossed, tmp, tools, good, full>>
      /\ pc'[p] = l /\ \A q \in Procs : q # p => pc'[q] = pc[q] /\ vec'[q] = vec[q]
  BY DEF Passes, Inv, TypeOK
<1>2. TypeOK'
  <2>1. pc' \in [Procs -> {"args", "source", "dump", "open", "write", "cc", "clang",
                           "ok", "failed", "killed"}]
    BY DEF Passes, Inv, TypeOK
  <2>2. vec' \in [Procs -> {"none", "live", "freed"}]
    BY DEF Passes, Inv, TypeOK
  <2> QED
    BY <1>1, <2>1, <2>2 DEF Inv, TypeOK
<1>3. \A q \in Procs : Holds(q)' => Holds(q)
  BY <1>1 DEF Passes, Holds
<1>4. Crossing' /\ Alone'
  BY <1>1, <1>3, QuietKeeps
<1>5. built[p] = Nothing
  BY DEF Inv, Staged, Ended
<1>6. l \in {"source", "dump", "open", "cc", "clang", "ok", "failed", "killed"}
  BY DEF Passes
<1>7. Staged'
  <2>1. l \in {"source", "dump", "open"} => wrote[p] = 0 /\ offset[p] = 0
    BY DEF Inv, Staged
  <2> QED
    BY <1>1, <1>5, <1>6, <2>1 DEF Inv, Staged
<1>8. NoCc'
  BY <1>1, <1>6 DEF Inv, NoCc
<1>9. Released' /\ OwnProgram'
  BY <1>1, <1>6 DEF Inv, Released, OwnProgram
<1>10. ExitTellsTruth'
  BY <1>1, <1>5, <1>6 DEF Inv, ExitTellsTruth
<1> QED
  BY <1>2, <1>4, <1>7, <1>8, <1>9, <1>10 DEF Inv

LEMMA EndArgsInv ==
  ASSUME Inv, NEW p \in Procs, EndArgs(p)
  PROVE  Inv'
<1> DEFINE l == IF conf[p].file = NoName THEN "failed" ELSE "source"
<1>1. pc[p] = "args" /\ Passes(p, l) /\ UNCHANGED vec
  BY DEF EndArgs, Goto, Passes, world
<1>2. vec'[p] # "live" /\ wrote[p] # Blocks /\ ~Ended(p)
  BY <1>1, BlocksAssumption DEF Inv, Staged, Ended
<1> QED
  BY <1>1, <1>2, PassKeeps

LEMMA FrontEndInv ==
  ASSUME Inv, NEW p \in Procs, FrontEnd(p)
  PROVE  Inv'
<1>1. pc[p] = "source" /\ wrote[p] # Blocks /\ ~Ended(p) /\ vec[p] # "live"
  BY BlocksAssumption DEF FrontEnd, Inv, Staged, Ended
<1>2. CASE Goto(p, IF conf[p].dmp THEN "dump" ELSE "open") /\ vec' = [vec EXCEPT ![p] = "live"]
  <2> DEFINE l == IF conf[p].dmp THEN "dump" ELSE "open"
  <2>1. Passes(p, l)
    BY <1>2 DEF FrontEnd, Goto, Passes, world
  <2> QED
    BY <1>1, <2>1, PassKeeps
<1>3. CASE Goto(p, "failed") /\ (UNCHANGED vec \/ Free(p))
  <2>1. Passes(p, "failed") /\ vec'[p] # "live"
    BY <1>1, <1>3 DEF FrontEnd, Goto, Free, Passes, world, Inv, TypeOK
  <2> QED
    BY <1>1, <2>1, PassKeeps
<1> QED
  BY <1>2, <1>3 DEF FrontEnd

LEMMA DumpInv ==
  ASSUME Inv, NEW p \in Procs, Dump(p)
  PROVE  Inv'
<1>1. Passes(p, "ok") /\ vec'[p] # "live"
  BY DEF Dump, Goto, Free, Passes, world, Inv, TypeOK
<1>2. conf[p].dmp /\ ~Ended(p)
  BY DEF Dump, Inv, Staged, Ended
<1> QED
  BY <1>1, <1>2, PassKeeps

LEMMA OpenFailsInv ==
  ASSUME Inv, NEW p \in Procs, OpenFails(p)
  PROVE  Inv'
<1>1. Passes(p, "failed") /\ vec'[p] # "live"
  BY DEF OpenFails, Goto, Free, Passes, world, Inv, TypeOK
<1>2. wrote[p] # Blocks /\ ~Ended(p)
  BY BlocksAssumption DEF OpenFails, Inv, Staged, Ended
<1> QED
  BY <1>1, <1>2, PassKeeps

LEMMA CloseTextInv ==
  ASSUME Inv, NEW p \in Procs, CloseText(p)
  PROVE  Inv'
<1>1. Passes(p, "cc") /\ vec'[p] # "live"
  BY DEF CloseText, Goto, Free, Passes, Holds, world, Inv, TypeOK
<1>2. wrote[p] = Blocks /\ ~Ended(p)
  BY DEF CloseText, Ended
<1> QED
  BY <1>1, <1>2, PassKeeps

LEMMA KilledInv ==
  ASSUME Inv, NEW p \in Procs, Killed(p)
  PROVE  Inv'
<1>1. Passes(p, "killed") /\ ~Ended(p)
  BY DEF Killed, Goto, Passes, world
<1> QED
  BY <1>1, PassKeeps

LEMMA OpenInv ==
  ASSUME Inv, NEW p \in Procs, Open(p)
  PROVE  Inv'
<1>1. /\ pc[p] = "open" /\ pc' = [pc EXCEPT ![p] = "write"] /\ tmp' = <<>>
      /\ UNCHANGED <<argv, i, conf, wrote, offset, vec, built, tools, good, full>>
  BY DEF Open, Goto
<1>2. /\ pc'[p] = "write" /\ \A q \in Procs : q # p => pc'[q] = pc[q]
      /\ Holds(p)' /\ ~Holds(p) /\ \A q \in Procs : q # p => (Holds(q)' <=> Holds(q))
  BY <1>1 DEF Inv, TypeOK, Holds
<1>3. /\ crossed' \in [Procs -> BOOLEAN]
      /\ \A q \in Procs : crossed[q] => crossed'[q]
      /\ \A q \in Procs : q # p /\ Holds(q) => crossed'[q] /\ crossed'[p]
  BY DEF Open, Inv, TypeOK
<1>4. TypeOK'
  <2>1. pc' \in [Procs -> {"args", "source", "dump", "open", "write", "cc", "clang",
                           "ok", "failed", "killed"}]
    BY <1>1 DEF Inv, TypeOK
  <2>2. tmp' \in Seq([prog : Program, block : 0 .. Blocks])
    BY <1>1
  <2> QED
    BY <1>1, <1>3, <2>1, <2>2 DEF Inv, TypeOK
<1>5. Staged'
  BY <1>1, <1>2 DEF Inv, Staged
<1>6. Crossing'
  BY <1>2, <1>3 DEF Inv, Crossing
<1>7. Alone'
  <2>1. offset'[p] = 0
    BY <1>1 DEF Inv, Staged
  <2>2. tmp' = Begun(p, 0)
    BY <1>1 DEF Begun
  <2>3. \A q \in Procs : q # p /\ Holds(q)' => crossed'[q]
    BY <1>2, <1>3
  <2> QED
    BY <2>1, <2>2, <2>3 DEF Alone, Begun, Buffer
<1>8. NoCc' /\ Released' /\ OwnProgram'
  BY <1>1, <1>2, <1>3 DEF Inv, NoCc, Released, OwnProgram
<1>9. ExitTellsTruth'
  BY <1>1, <1>2, <1>3 DEF Inv, ExitTellsTruth
<1> QED
  BY <1>4, <1>5, <1>6, <1>7, <1>8, <1>9 DEF Inv

LEMMA FlushInv ==
  ASSUME Inv, NEW p \in Procs, Flush(p)
  PROVE  Inv'
<1>1. /\ pc[p] = "write" /\ wrote[p] < Blocks /\ wrote' = [wrote EXCEPT ![p] = @ + 1]
      /\ UNCHANGED <<argv, i, conf, pc, vec, built, crossed, tools, good, full>>
  BY DEF Flush
<1>2. /\ wrote[p] \in Nat /\ offset[p] \in Nat /\ Blocks \in Nat /\ offset[p] <= wrote[p]
      /\ Len(tmp) \in Nat /\ tmp \in Seq([prog : Program, block : 0 .. Blocks])
  BY BlocksAssumption DEF Inv, TypeOK, Staged
<1>3. /\ wrote' \in [Procs -> 0 .. Blocks] /\ wrote'[p] = wrote[p] + 1
      /\ \A q \in Procs : q # p => wrote'[q] = wrote[q]
  BY <1>1, <1>2 DEF Inv, TypeOK
<1> DEFINE at == offset[p] + 1
           end == IF at > Len(tmp) THEN at ELSE Len(tmp)
           new == [k \in 1 .. end |-> IF k = at THEN Buffer(p, wrote[p] + 1)
                                      ELSE IF k <= Len(tmp) THEN tmp[k] ELSE Hole]
<1>4. CASE full
  <2>1. UNCHANGED <<tmp, offset>>
    BY <1>4 DEF Flush
  <2>2. TypeOK'
    BY <1>1, <1>3, <2>1 DEF Inv, TypeOK
  <2>3. Staged'
    BY <1>1, <1>2, <1>3, <1>4, <2>1 DEF Inv, Staged
  <2>4. Crossing' /\ Alone'
    BY <1>1, <2>1, QuietKeeps DEF Holds
  <2>5. NoCc' /\ Released' /\ OwnProgram'
    BY <1>1, <2>1 DEF Inv, NoCc, Released, OwnProgram
  <2>6. ExitTellsTruth'
    BY <1>1, <1>3 DEF Inv, ExitTellsTruth
  <2> QED
    BY <2>2, <2>3, <2>4, <2>5, <2>6 DEF Inv
<1>5. CASE ~full
  <2>1. offset' = [offset EXCEPT ![p] = at] /\ tmp' = new
    BY <1>5 DEF Flush
  <2>2. offset[p] = wrote[p]
    BY <1>5 DEF Inv, Staged
  <2>3. /\ offset' \in [Procs -> 0 .. Blocks] /\ offset'[p] = at
        /\ \A q \in Procs : q # p => offset'[q] = offset[q]
    BY <1>1, <1>2, <2>1, <2>2 DEF Inv, TypeOK
  <2>4. new \in Seq([prog : Program, block : 0 .. Blocks])
    <3> DEFINE S == [prog : Program, block : 0 .. Blocks]
    <3>1. Hole \in S /\ Buffer(p, wrote[p] + 1) \in S
      BY <1>1, <1>2 DEF Hole, Buffer, Program
    <3>2. tmp \in Seq(S)
      BY <1>2
    <3>3. end \in Nat
      BY <1>2
    <3> HIDE DEF S, end
    <3>4. \A k \in 1 .. end : k <= Len(tmp) => tmp[k] \in S
      BY <3>2, <3>3
    <3>5. new \in [1 .. end -> S]
      BY <3>1, <3>4
    <3> HIDE DEF new
    <3>6. new \in Seq(S)
      BY <3>3, <3>5
    <3> QED
      BY <3>6 DEF S
  <2>5. TypeOK'
    <3> HIDE DEF at, new
    <3> QED
      BY <1>1, <1>3, <2>1, <2>3, <2>4 DEF Inv, TypeOK
  <2>6. Staged'
    BY <1>1, <1>2, <1>3, <2>2, <2>3 DEF Inv, Staged
  <2>7. Crossing'
    BY <1>1 DEF Inv, Crossing, Holds
  <2>8. Alone'
    <3>1. \A q \in Procs : q # p /\ Holds(q) => crossed[q]
      BY <1>1 DEF Inv, Crossing, Holds
    <3>2. ~crossed[p] => new = Begun(p, at)
      <4>1. SUFFICES ASSUME ~crossed[p] PROVE new = Begun(p, at)
        OBVIOUS
      <4>2. tmp = Begun(p, offset[p])
        BY <1>1, <4>1 DEF Inv, Alone, Holds
      <4>3. Len(tmp) = offset[p]
        BY <4>2, BegunShape DEF Inv, TypeOK
      <4>4. \A k \in 1 .. offset[p] : tmp[k] = Buffer(p, k)
        BY <4>2 DEF Begun
      <4> QED
        BY <1>2, <2>2, <4>3, <4>4 DEF Begun
    <3> HIDE DEF new, at
    <3>4. \A q \in Procs : Holds(q)' /\ ~crossed'[q] => q = p
      BY <1>1, <3>1 DEF Holds
    <3>5. ~crossed'[p] => tmp' = Begun(p, offset'[p])
      BY <1>1, <2>1, <2>3, <3>2
    <3> QED
      BY <3>4, <3>5 DEF Alone, Begun, Buffer
  <2>9. NoCc' /\ Released' /\ OwnProgram'
    BY <1>1 DEF Inv, NoCc, Released, OwnProgram
  <2>10. ExitTellsTruth'
    BY <1>1, <1>3 DEF Inv, ExitTellsTruth
  <2> QED
    BY <2>5, <2>6, <2>7, <2>8, <2>9, <2>10 DEF Inv
<1> QED
  BY <1>4, <1>5

-----------------------------------------------------------------------------
(* The C compilers.                                                        *)

\* Nothing else than a program of a process, or a mixture, is accepted.
LEMMA AcceptedShape ==
  ASSUME Inv
  PROVE  Accepted \subseteq Program /\ "none" \notin Accepted
  BY ProcsAssumption DEF Accepted, Program, Inv, TypeOK

\* A whole text on an undisturbed disk is accepted for what it is.
LEMMA WholeAccepted ==
  ASSUME Inv, NEW p \in Procs, pc[p] \in {"cc", "clang"}, ~crossed[p]
  PROVE  /\ Accepted \subseteq {p}
         /\ ~full /\ p \in good => Accepted = {p}
<1>1. wrote[p] = Blocks /\ offset[p] \in 0 .. Blocks /\ (~full => offset[p] = Blocks)
  BY DEF Inv, Staged, TypeOK
<1>2. tmp = Begun(p, offset[p]) /\ good \subseteq Procs
  BY DEF Inv, Alone, Holds, TypeOK
<1> QED
  BY <1>1, <1>2, OwnAccepted

LEMMA BuildInv ==
  ASSUME Inv, NEW p \in Procs, pc[p] \in {"cc", "clang"},
         NEW room \in {CcRoom, ClangRoom}, Build(p, room)
  PROVE  Inv'
<1>1. PICK prog \in Accepted :
        /\ built' = [built EXCEPT ![p] = [prog |-> prog, name |-> Fitting(conf[p].out, room)]]
        /\ pc' = [pc EXCEPT ![p] = "ok"]
        /\ UNCHANGED <<argv, i, conf, wrote, offset, vec, crossed, tmp, tools, good, full>>
  BY DEF Build, Goto, world
<1> DEFINE name == Fitting(conf[p].out, room)
<1>2. room \in Nat /\ ClangRoom \in Nat /\ ClangRoom <= room /\ conf[p].out \in Nat
  BY RoomAssumption DEF Inv, TypeOK
<1>3. name \in Nat /\ (conf[p].out <= ClangRoom => name = conf[p].out)
  BY <1>2 DEF Fitting
<1>4. prog \in Program /\ prog # "none" /\ (~crossed[p] => prog = p)
  BY <1>1, AcceptedShape, WholeAccepted
<1> HIDE DEF name
<1>5. /\ pc'[p] = "ok" /\ built'[p] = [prog |-> prog, name |-> name]
      /\ \A q \in Procs : q # p => pc'[q] = pc[q] /\ built'[q] = built[q]
  BY <1>1 DEF Inv, TypeOK, name
<1>6. built'[p] # Nothing /\ built'[p].prog = prog /\ built'[p].name = name
  BY <1>4, <1>5 DEF Nothing
<1>7. TypeOK'
  <2>1. built' \in [Procs -> [prog : Program, name : Nat]]
    BY <1>1, <1>3, <1>4 DEF Inv, TypeOK, name
  <2>2. pc' \in [Procs -> {"args", "source", "dump", "open", "write", "cc", "clang",
                           "ok", "failed", "killed"}]
    BY <1>1 DEF Inv, TypeOK
  <2> QED
    BY <1>1, <2>1, <2>2 DEF Inv, TypeOK
<1>8. \A q \in Procs : Holds(q)' => Holds(q)
  BY <1>5 DEF Holds
<1>9. Crossing' /\ Alone'
  BY <1>1, <1>8, QuietKeeps
<1>10. vec[p] # "live"
  BY DEF Inv, Staged
<1>11. Staged' /\ NoCc' /\ Released'
  BY <1>1, <1>5, <1>10 DEF Inv, Staged, NoCc, Released
<1>12. OwnProgram'
  BY <1>1, <1>3, <1>4, <1>5, <1>6 DEF Inv, OwnProgram
<1>13. ExitTellsTruth'
  BY <1>1, <1>5, <1>6 DEF Inv, ExitTellsTruth
<1> QED
  BY <1>7, <1>9, <1>11, <1>12, <1>13 DEF Inv

\* The command of a compiler that is there fails for a reason.
LEMMA UnbuiltReason ==
  ASSUME Inv, NEW p \in Procs, pc[p] \in {"cc", "clang"}, NEW tool, NEW l, Unbuilt(p, tool, l)
  PROVE  crossed[p] \/ full \/ p \notin good \/ tool \notin tools
<1> SUFFICES ASSUME ~crossed[p], ~full, p \in good PROVE tool \notin tools
  OBVIOUS
<1>1. Accepted = {p} /\ p # "mixed"
  BY WholeAccepted, ProcsAssumption
<1> QED
  BY <1>1 DEF Unbuilt

LEMMA CcInv ==
  ASSUME Inv, NEW p \in Procs, Cc(p)
  PROVE  Inv'
<1>1. pc[p] = "cc" /\ wrote[p] = Blocks /\ vec[p] # "live" /\ ~Ended(p)
  BY DEF Cc, Inv, Staged, Ended
<1>2. CASE Build(p, CcRoom)
  BY <1>1, <1>2, BuildInv
<1>3. CASE Unbuilt(p, "cc", "clang")
  <2>1. Passes(p, "clang") /\ UNCHANGED vec
    BY <1>1, <1>3 DEF Unbuilt, Goto, Passes, Holds, world
  <2>2. crossed[p] \/ full \/ p \notin good \/ "cc" \notin tools
    BY <1>1, <1>3, UnbuiltReason
  <2> QED
    BY <1>1, <2>1, <2>2, PassKeeps
<1> QED
  BY <1>2, <1>3 DEF Cc

LEMMA ClangInv ==
  ASSUME Inv, NEW p \in Procs, Clang(p)
  PROVE  Inv'
<1>1. pc[p] = "clang" /\ vec[p] # "live" /\ ~Ended(p)
  BY DEF Clang, Inv, Staged, Ended
<1>2. CASE Build(p, ClangRoom)
  BY <1>1, <1>2, BuildInv
<1>3. CASE Unbuilt(p, "clang", "failed")
  <2>1. Passes(p, "failed") /\ UNCHANGED vec
    BY <1>1, <1>3 DEF Unbuilt, Goto, Passes, world
  <2>2. crossed[p] \/ full \/ p \notin good \/ "clang" \notin tools
    BY <1>1, <1>3, UnbuiltReason
  <2>3. crossed[p] \/ full \/ p \notin good \/ "cc" \notin tools
    BY <1>1 DEF Inv, NoCc
  <2>4. crossed[p] \/ full \/ p \notin good \/ tools = {}
    BY <2>2, <2>3 DEF Inv, TypeOK
  <2> QED
    BY <1>1, <2>1, <2>4, PassKeeps
<1> QED
  BY <1>2, <1>3 DEF Clang

LEMMA DiskFillsInv ==
  ASSUME Inv, DiskFills
  PROVE  Inv'
<1>1. full' = TRUE /\ UNCHANGED <<argv, i, conf, pc, wrote, offset, vec, built, crossed, tmp, tools, good>>
  BY DEF DiskFills, local
<1>2. TypeOK'
  BY <1>1 DEF Inv, TypeOK
<1>3. Crossing' /\ Alone'
  BY <1>1, QuietKeeps DEF Holds
<1>4. Staged' /\ NoCc' /\ Released' /\ OwnProgram'
  BY <1>1 DEF Inv, Staged, NoCc, Released, OwnProgram
<1>5. ExitTellsTruth'
  BY <1>1 DEF Inv, ExitTellsTruth
<1> QED
  BY <1>2, <1>3, <1>4, <1>5 DEF Inv

-----------------------------------------------------------------------------
(* The specification.                                                      *)

LEMMA NextInv == Inv /\ [Next]_vars => Inv'
<1> SUFFICES ASSUME Inv, [Next]_vars PROVE Inv'
  OBVIOUS
<1>1. ASSUME NEW p \in Procs, Step(p) PROVE Inv'
  BY <1>1, ParseArgInv, EndArgsInv, FrontEndInv, DumpInv, OpenInv, OpenFailsInv, FlushInv,
     CloseTextInv, CcInv, ClangInv DEF Step
<1>2. ASSUME NEW p \in Procs, Killed(p) PROVE Inv'
  BY <1>2, KilledInv
<1>3. CASE DiskFills
  BY <1>3, DiskFillsInv
<1>4. CASE UNCHANGED vars
  <2>1. UNCHANGED <<argv, i, conf, pc, wrote, offset, vec, built, crossed, tmp, tools, good, full>>
    BY <1>4 DEF vars, local, world
  <2>2. TypeOK'
    BY <2>1 DEF Inv, TypeOK
  <2>3. Crossing' /\ Alone'
    BY <2>1, QuietKeeps DEF Holds
  <2>4. Staged' /\ NoCc' /\ Released' /\ OwnProgram' /\ ExitTellsTruth'
    BY <2>1 DEF Inv, Staged, NoCc, Released, OwnProgram, ExitTellsTruth
  <2> QED
    BY <2>2, <2>3, <2>4 DEF Inv
<1> QED
  BY <1>1, <1>2, <1>3, <1>4 DEF Next, Stop

LEMMA Invariance == Spec => []Inv
BY InitInv, NextInv, PTL DEF Spec

\* For any number of compilers the variables keep their types: in particular
\* no stream goes past the text, whatever the disk loses.
THEOREM TypeCorrect == Spec => []TypeOK
<1>1. Inv => TypeOK
  BY DEF Inv
<1> QED
  BY <1>1, Invariance, PTL

\* Every way out of main but a kill has freed the vector (lvbfc.c:154,
\* emmiters.c:13, 227).
THEOREM AllReleased == Spec => []Released
<1>1. Inv => Released
  BY DEF Inv
<1> QED
  BY <1>1, Invariance, PTL

\* A compiler that no other one crossed builds its own program or none, under
\* its own name if the command has room for it (emmiters.c:8, lvbfc.c:48).
THEOREM BuildsItsOwn == Spec => []OwnProgram
<1>1. Inv => OwnProgram
  BY DEF Inv
<1> QED
  BY <1>1, Invariance, PTL

\* Success means that something was built, dumped or explained, and failure
\* that nothing was built, for one of the known reasons (lvbfc.c:45-65).
THEOREM ExitIsTrue == Spec => []ExitTellsTruth
<1>1. Inv => ExitTellsTruth
  BY DEF Inv
<1> QED
  BY <1>1, Invariance, PTL
=============================================================================
