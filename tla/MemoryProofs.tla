---------------------------- MODULE MemoryProofs ----------------------------
(***************************************************************************)
(* Proofs about Memory: for every list of word widths that ends with the   *)
(* byte, every memory and every call on it, a job keeps its place in its   *)
(* regions, a copy or a fill is exact at every moment (Inv), no byte is    *)
(* written outside the reach of the call (CInv), and a finished call has   *)
(* done, job by job, what it stands for (DInv).                            *)
(***************************************************************************)
EXTENDS Memory, TokensProofs

\* Where the current job stands. Nothing is said of a comparison, which can
\* start over from stale pointers.
InPlace ==
  todo # <<>> =>
    /\ n <= todo[1].n
    /\ todo[1].kind \in {"copy", "fill"} => d + off = todo[1].d + (todo[1].n - n)
    /\ todo[1].kind = "copy" => s + off = todo[1].s + (todo[1].n - n)
    /\ todo[1].kind = "fill" => s = todo[1].s
    /\ todo[1].kind = "back" => s - off = todo[1].s - (todo[1].n - n)

AllRead == \A i \in 1 .. Len(todo) : Reads(todo[i])

Inv == TypeOK /\ InPlace /\ AllRead /\ PrefixExact

-----------------------------------------------------------------------------
(* The words.                                                              *)

LEMMA SizesAre ==
  /\ Widths \in Seq(Nat \ {0}) /\ Len(Widths) > 0 /\ Widths[Len(Widths)] = 1
  /\ Sizes \in Seq(Nat \ {0}) /\ Len(Sizes) > 0 /\ Sizes[Len(Sizes)] = 1
  /\ ~Doing("fill") => Sizes = Widths
BY WidthAssumption DEF Sizes

LEMMA WordWidth ==
  ASSUME level \in Nat \ {0}, level <= Len(Sizes)
  PROVE  Width \in Nat \ {0}
BY SizesAre DEF Width

LEMMA ByteIsByte ==
  ASSUME NEW c \in Int
  PROVE  Byte(c) \in Bytes
BY DEF Byte, Bytes

\* The first job of what is left is a job, and what is left are jobs.
LEMMA JobLeft ==
  ASSUME TypeOK, todo # <<>>
  PROVE  /\ todo[1] \in JobType /\ todo[1].d \in Int /\ todo[1].s \in Int /\ todo[1].n \in Nat
         /\ Tail(todo) \in Seq(JobType) /\ Len(Tail(todo)) = Len(todo) - 1
         /\ \A i \in 1 .. Len(todo) - 1 : Tail(todo)[i] = todo[i + 1]
<1>1. todo \in Seq(JobType) /\ Len(todo) \in Nat \ {0}
  BY DEF TypeOK
<1>2. todo[1] \in JobType
  BY <1>1
<1> QED
  BY <1>1, <1>2 DEF JobType

-----------------------------------------------------------------------------
(* What a copy or a fill has done grows by the word.                       *)

\* A word copied, or filled, after the first p bytes of a job.
WordCopied(m, to, from, p, w) ==
  [a \in DOMAIN m |-> IF a \in to + p .. to + p + w - 1 THEN m[from + p + (a - (to + p))] ELSE m[a]]
WordFilled(m, to, c, p, w) == [a \in DOMAIN m |-> IF a \in to + p .. to + p + w - 1 THEN c ELSE m[a]]

LEMMA CopiedGrows ==
  ASSUME NEW m \in [Space -> Bytes], NEW to \in Int, NEW from \in Int,
         NEW p \in Nat, NEW w \in Nat, NEW len \in Nat, p + w <= len,
         from .. from + len - 1 \subseteq Space,
         ~(from < to /\ to < from + len)
  PROVE  Copied(m, to, from, p + w) = WordCopied(Copied(m, to, from, p), to, from, p, w)
<1> DEFINE m1 == Copied(m, to, from, p)
<1>1. DOMAIN m1 = Space /\ Space \subseteq Int
  BY SpaceAssumption DEF Copied
<1>2. \A a \in Space : m1[a] = IF a \in to .. to + p - 1 THEN m[from + a - to] ELSE m[a]
  BY DEF Copied, Region
<1>3. ASSUME NEW a \in Space, a \in to + p .. to + p + w - 1
      PROVE  m1[from + p + (a - (to + p))] = m[from + a - to]
  <2>1. from + p + (a - (to + p)) = from + a - to
    BY <1>1, <1>3
  <2>2. from + a - to \in from .. from + len - 1
    BY <1>1, <1>3
  <2>3. from + a - to \notin to .. to + p - 1
    BY <1>1, <1>3
  <2> QED
    BY <2>1, <2>2, <2>3, <1>2
<1>4. ASSUME NEW a \in Space
      PROVE  (IF a \in to .. to + (p + w) - 1 THEN m[from + a - to] ELSE m[a]) =
             (IF a \in to + p .. to + p + w - 1 THEN m1[from + p + (a - (to + p))] ELSE m1[a])
  <2> HIDE DEF m1
  <2>1. a \in to .. to + (p + w) - 1 <=> a \in to .. to + p - 1 \/ a \in to + p .. to + p + w - 1
    BY <1>1
  <2>2. ~(a \in to .. to + p - 1 /\ a \in to + p .. to + p + w - 1)
    BY <1>1
  <2> QED
    BY <2>1, <2>2, <1>2, <1>3
<1> QED
  BY <1>1, <1>4 DEF Copied, Region, WordCopied

LEMMA FilledGrows ==
  ASSUME NEW m \in [Space -> Bytes], NEW to \in Int, NEW c \in Bytes, NEW p \in Nat, NEW w \in Nat
  PROVE  Filled(m, to, c, p + w) = WordFilled(Filled(m, to, c, p), to, c, p, w)
<1> DEFINE m1 == Filled(m, to, c, p)
<1>1. DOMAIN m1 = Space /\ Space \subseteq Int
  BY SpaceAssumption DEF Filled
<1>2. \A a \in Space : m1[a] = IF a \in to .. to + p - 1 THEN c ELSE m[a]
  BY DEF Filled, Region
<1>3. \A a \in Space : a \in to .. to + (p + w) - 1 <=> a \in to .. to + p - 1 \/ a \in to + p .. to + p + w - 1
  BY <1>1
<1> QED
  BY <1>1, <1>2, <1>3 DEF Filled, Region, WordFilled

LEMMA NothingDone ==
  ASSUME NEW m \in [Space -> Bytes], NEW to \in Int, NEW x \in Int
  PROVE  Copied(m, to, x, 0) = m /\ Filled(m, to, x, 0) = m
<1>1. \A a \in Space : a \notin to .. to + 0 - 1
  BY SpaceAssumption
<1> QED
  BY <1>1 DEF Copied, Filled, Region

-----------------------------------------------------------------------------
(* The initial states, and the start of a job.                             *)

\* A job that has not begun is in place, on the memory it finds.
LEMMA Fresh ==
  ASSUME NEW q \in Seq(JobType), q # <<>>, NEW m \in [Space -> Bytes]
  PROVE  /\ q[1] \in JobType /\ q[1].d \in Int /\ q[1].s \in Int /\ q[1].n \in Nat
         /\ m = Copied(m, q[1].d, q[1].s, q[1].n - q[1].n)
         /\ m = Filled(m, q[1].d, q[1].s % 256, q[1].n - q[1].n)
<1>1. q[1] \in JobType
  OBVIOUS
<1>2. q[1].d \in Int /\ q[1].s \in Int /\ q[1].n \in Nat
  BY <1>1 DEF JobType
<1>3. q[1].n - q[1].n = 0 /\ q[1].s % 256 \in Int
  BY <1>2
<1> QED
  BY <1>1, <1>2, <1>3, NothingDone

\* The first job of todo is about to begin.
Started ==
  /\ todo \in Seq(JobType) /\ mem \in [Space -> Bytes] /\ base = mem /\ AllRead
  /\ level = 1 /\ off = 0 /\ d = First(todo).d /\ s = First(todo).s /\ n = First(todo).n

LEMMA StartInv == Started => Inv
<1> SUFFICES ASSUME Started PROVE Inv
  OBVIOUS
<1> USE DEF Started
<1>1. CASE todo = <<>>
  <2>1. d = 0 /\ s = 0 /\ n = 0
    BY <1>1 DEF First, Job, Null
  <2> QED
    BY <1>1, <2>1 DEF Inv, TypeOK, InPlace, AllRead, PrefixExact, Doing
<1>2. CASE todo # <<>>
  <2>1. d = todo[1].d /\ s = todo[1].s /\ n = todo[1].n
    BY <1>2 DEF First
  <2>2. /\ todo[1] \in JobType /\ todo[1].d \in Int /\ todo[1].s \in Int /\ todo[1].n \in Nat
        /\ mem = Copied(mem, todo[1].d, todo[1].s, todo[1].n - todo[1].n)
        /\ mem = Filled(mem, todo[1].d, todo[1].s % 256, todo[1].n - todo[1].n)
    BY <1>2, Fresh
  <2>3. TypeOK
    BY <2>1, <2>2 DEF TypeOK
  <2>4. InPlace
    BY <2>1, <2>2 DEF InPlace
  <2>5. ~(level > Len(Sizes))
    BY SizesAre
  <2>6. PrefixExact
    BY <2>1, <2>2, <2>5 DEF PrefixExact
  <2> QED
    BY <2>3, <2>4, <2>6 DEF Inv
<1> QED
  BY <1>1, <1>2

LEMMA InitInv == Init => Inv
<1> SUFFICES ASSUME Init PROVE Inv
  OBVIOUS
<1>1. PICK c \in Cases :
        /\ mem = c.mem /\ base = c.mem /\ todo \in {Jobs(c.call), <<>>}
        /\ level = 1 /\ off = 0 /\ d = First(todo).d /\ s = First(todo).s /\ n = First(todo).n
  BY DEF Init
<1>2. c.mem \in [Space -> Bytes] /\ Jobs(c.call) \in Seq(JobType)
      /\ \A i \in DOMAIN Jobs(c.call) : Reads(Jobs(c.call)[i])
  BY CaseAssumption
<1>3. todo \in Seq(JobType) /\ AllRead
  <2>1. CASE todo = <<>>
    BY <2>1 DEF AllRead
  <2>2. CASE todo = Jobs(c.call)
    BY <2>2, <1>2 DEF AllRead
  <2> QED
    BY <1>1, <2>1, <2>2
<1> QED
  BY <1>1, <1>2, <1>3, StartInv DEF Started

\* The next job starts where the last one has ended.
LEMMA FinishInv ==
  ASSUME Inv, todo # <<>>, Finish
  PROVE  Inv'
<1>1. /\ Tail(todo) \in Seq(JobType) /\ Len(Tail(todo)) = Len(todo) - 1
      /\ \A i \in 1 .. Len(todo) - 1 : Tail(todo)[i] = todo[i + 1]
  BY JobLeft DEF Inv
<1>2. todo' \in Seq(JobType) /\ mem' \in [Space -> Bytes] /\ base' = mem'
  BY <1>1 DEF Finish, Inv, TypeOK
<1>3. AllRead'
  <2> SUFFICES ASSUME NEW i \in 1 .. Len(todo') PROVE Reads(todo'[i])
    BY DEF AllRead, Reads
  <2>1. i \in 1 .. Len(todo) - 1 /\ todo'[i] = todo[i + 1] /\ Len(todo) \in Nat
    BY <1>1 DEF Finish, Inv, TypeOK
  <2>2. i + 1 \in 1 .. Len(todo)
    BY <2>1
  <2> QED
    BY <2>1, <2>2 DEF Inv, AllRead
<1>4. level' = 1 /\ off' = 0 /\ d' = First(todo').d /\ s' = First(todo').s /\ n' = First(todo').n
  BY DEF Finish
<1>5. Started'
  BY <1>2, <1>3, <1>4 DEF Started
<1> QED
  BY <1>5, StartInv, PTL

-----------------------------------------------------------------------------
(* The steps.                                                              *)

LEMMA Advance ==
  ASSUME NEW x \in Int, NEW y \in Nat, NEW a \in Int, NEW l \in Nat, NEW m \in Nat, NEW w \in Nat,
         m <= l, x + y = a + (l - m)
  PROVE  m - w <= l /\ x + (y + w) = a + (l - (m - w))
OBVIOUS

LEMMA CopyWordInv ==
  ASSUME Inv, CopyWord
  PROVE  Inv'
<1> DEFINE o == todo[1]
<1> DEFINE to == todo[1].d
<1> DEFINE from == todo[1].s
<1> DEFINE len == todo[1].n
<1> DEFINE w == Width
<1>1. todo # <<>> /\ o.kind = "copy" /\ w \in Nat \ {0} /\ w <= n /\ level <= Len(Sizes) /\ level \in Nat \ {0}
  BY WordWidth DEF CopyWord, Doing, HasWord, Inv, TypeOK
<1>2. o \in JobType /\ to \in Int /\ from \in Int /\ len \in Nat
  BY <1>1, JobLeft DEF Inv
<1>3. n \in Nat /\ off \in Nat /\ n <= len /\ d + off = to + (len - n) /\ s + off = from + (len - n) /\ d \in Int /\ s \in Int
  BY <1>1 DEF Inv, TypeOK, InPlace
<1>4. /\ UNCHANGED <<todo, base, level, d, s>> /\ off' = off + w /\ n' = n - w
      /\ mem' = [a \in DOMAIN mem |-> IF a \in d + off .. d + off + w - 1 THEN mem[s + off + (a - (d + off))] ELSE mem[a]]
  BY DEF CopyWord, Progress, Written, From
<1>5. from .. from + len - 1 \subseteq Space
  <2>1. 1 \in 1 .. Len(todo)
    BY <1>1 DEF Inv, TypeOK
  <2> QED
    BY <1>1, <2>1 DEF Inv, AllRead, Reads
<1> HIDE DEF o, w, to, from, len
<1>6. mem' \in [Space -> Bytes]
  <2>1. mem \in [Space -> Bytes] /\ Space \subseteq Int
    BY SpaceAssumption DEF Inv, TypeOK
  <2>2. ASSUME NEW a \in Space, a \in d + off .. d + off + w - 1
        PROVE  s + off + (a - (d + off)) \in from .. from + len - 1
    BY <1>1, <1>2, <1>3, <2>1, <2>2
  <2> QED
    BY <1>4, <1>5, <2>1, <2>2
<1>7. TypeOK'
  BY <1>1, <1>3, <1>4, <1>6 DEF Inv, TypeOK
<1>8. InPlace'
  <2>1. n' <= len /\ d' + off' = to + (len - n')
    <3>1. d' = d /\ off' = off + w /\ n' = n - w /\ w \in Nat
      BY <1>1, <1>4
    <3>2. n - w <= len /\ d + (off + w) = to + (len - (n - w))
      BY <1>2, <1>3, <3>1, Advance
    <3> QED
      BY <3>1, <3>2
  <2>2. (o.kind = "copy" => s' + off' = from + (len - n')) /\ (o.kind = "fill" => s' = from) /\ o.kind # "back"
    BY <1>1, <1>2, <1>3, <1>4
  <2>3. todo' = todo
    BY <1>4
  <2> QED
    BY <2>1, <2>2, <2>3 DEF InPlace, o, to, from, len
<1>9. AllRead'
  BY <1>4 DEF Inv, AllRead, Reads
<1>10. PrefixExact'
  <2>1. todo' = todo /\ base' = base /\ Sizes' = Sizes /\ level' = level
    BY <1>4 DEF Sizes, Doing
  <2>2. ~(level > Len(Sizes))
    BY <1>1, SizesAre
  <2>3. ASSUME ~Upwards(o)
        PROVE  mem' = Copied(base, to, from, len - n')
    <3>1. mem = Copied(base, to, from, len - n)
      BY <1>1, <2>3 DEF Inv, PrefixExact, Doing, o, to, from, len
    <3>2. len - n \in Nat /\ (len - n) + w <= len /\ len - n' = (len - n) + w
      BY <1>1, <1>2, <1>3, <1>4
    <3>3. base \in [Space -> Bytes] /\ ~(from < to /\ to < from + len)
      BY <2>3 DEF Inv, TypeOK, Upwards, o, to, from, len
    <3> DEFINE p == len - n
    <3>4. mem' = WordCopied(mem, to, from, p, w)
      BY <1>3, <1>4 DEF WordCopied
    <3>5. p \in Nat /\ p + w <= len /\ len - n' = p + w /\ w \in Nat /\ len \in Nat /\ to \in Int /\ from \in Int
      BY <1>1, <1>2, <3>2
    <3> HIDE DEF p
    <3>6. Copied(base, to, from, p + w) = WordCopied(Copied(base, to, from, p), to, from, p, w)
      BY <1>5, <3>3, <3>5, CopiedGrows
    <3>7. mem = Copied(base, to, from, p)
      BY <3>1 DEF p
    <3>8. mem' = Copied(base, to, from, p + w)
      BY ONLY <3>4, <3>6, <3>7
    <3>9. len - n' = p + w
      BY ONLY <3>5
    <3> QED
      BY ONLY <3>8, <3>9
  <2>4. ~Doing("fill")' /\ (todo[1])' = o
    BY <1>1, <2>1 DEF Doing, o
  <2> QED
    BY <2>1, <2>2, <2>3, <2>4 DEF PrefixExact, o, to, from, len
<1> QED
  BY <1>7, <1>8, <1>9, <1>10 DEF Inv

LEMMA FillWordInv ==
  ASSUME Inv, FillWord
  PROVE  Inv'
<1> DEFINE o == todo[1]
<1> DEFINE to == todo[1].d
<1> DEFINE from == todo[1].s
<1> DEFINE len == todo[1].n
<1> DEFINE w == Width
<1> DEFINE c == Byte(s)
<1>1. todo # <<>> /\ o.kind = "fill" /\ w \in Nat \ {0} /\ w <= n /\ level <= Len(Sizes) /\ level \in Nat \ {0}
  BY WordWidth DEF FillWord, Doing, HasWord, Inv, TypeOK
<1>2. o \in JobType /\ to \in Int /\ from \in Int /\ len \in Nat
  BY <1>1, JobLeft DEF Inv
<1>3. n \in Nat /\ off \in Nat /\ n <= len /\ d + off = to + (len - n) /\ s = from /\ d \in Int /\ s \in Int
  BY <1>1 DEF Inv, TypeOK, InPlace
<1>4. /\ UNCHANGED <<todo, base, level, d, s>> /\ off' = off + w /\ n' = n - w
      /\ mem' = [a \in DOMAIN mem |-> IF a \in d + off .. d + off + w - 1 THEN c ELSE mem[a]]
  BY DEF FillWord, Progress, Written
<1>5. c \in Bytes /\ c = from % 256
  BY <1>3, ByteIsByte DEF Byte
<1> HIDE DEF o, w, c, to, from, len
<1>6. mem' \in [Space -> Bytes]
  BY <1>4, <1>5 DEF Inv, TypeOK
<1>7. TypeOK'
  BY <1>1, <1>3, <1>4, <1>6 DEF Inv, TypeOK
<1>8. InPlace'
  <2>1. n' <= len /\ d' + off' = to + (len - n')
    <3>1. d' = d /\ off' = off + w /\ n' = n - w /\ w \in Nat
      BY <1>1, <1>4
    <3>2. n - w <= len /\ d + (off + w) = to + (len - (n - w))
      BY <1>2, <1>3, <3>1, Advance
    <3> QED
      BY <3>1, <3>2
  <2>2. (o.kind = "copy" => s' + off' = from + (len - n')) /\ (o.kind = "fill" => s' = from) /\ o.kind # "back"
    BY <1>1, <1>2, <1>3, <1>4
  <2>3. todo' = todo
    BY <1>4
  <2> QED
    BY <2>1, <2>2, <2>3 DEF InPlace, o, to, from, len
<1>9. AllRead'
  BY <1>4 DEF Inv, AllRead, Reads
<1>10. PrefixExact'
  <2>1. todo' = todo /\ base' = base /\ Sizes' = Sizes /\ level' = level
    BY <1>4 DEF Sizes, Doing
  <2>2. ~(level > Len(Sizes))
    BY <1>1, SizesAre
  <2>3. mem' = Filled(base, to, c, len - n')
    <3>1. mem = Filled(base, to, c, len - n)
      BY <1>1, <1>5 DEF Inv, PrefixExact, Doing, o, to, from, len
    <3>2. len - n \in Nat /\ len - n' = (len - n) + w /\ d + off = to + (len - n) /\ base \in [Space -> Bytes]
      BY <1>1, <1>2, <1>3, <1>4 DEF Inv, TypeOK
    <3> DEFINE p == len - n
    <3>4. mem' = WordFilled(mem, to, c, p, w)
      BY <1>4, <3>2 DEF WordFilled
    <3>5. p \in Nat /\ len - n' = p + w /\ base \in [Space -> Bytes] /\ w \in Nat /\ to \in Int /\ c \in Bytes
      BY <1>1, <1>2, <1>5, <3>2
    <3> HIDE DEF p
    <3>6. Filled(base, to, c, p + w) = WordFilled(Filled(base, to, c, p), to, c, p, w)
      BY <3>5, FilledGrows
    <3>7. mem = Filled(base, to, c, p)
      BY <3>1 DEF p
    <3>8. mem' = Filled(base, to, c, p + w)
      BY ONLY <3>4, <3>6, <3>7
    <3>9. len - n' = p + w
      BY ONLY <3>5
    <3> QED
      BY ONLY <3>8, <3>9
  <2>4. ~Doing("copy")' /\ (todo[1])' = o
    BY <1>1, <2>1 DEF Doing, o
  <2> QED
    BY <1>5, <2>1, <2>2, <2>3, <2>4 DEF PrefixExact, o, to, from, len
<1> QED
  BY <1>7, <1>8, <1>9, <1>10 DEF Inv

LEMMA BackWordInv ==
  ASSUME Inv, BackWord
  PROVE  Inv'
<1> DEFINE o == todo[1]
<1> DEFINE w == Width
<1> DEFINE from == todo[1].s
<1> DEFINE len == todo[1].n
<1>1. todo # <<>> /\ o.kind = "back" /\ w \in Nat \ {0} /\ w <= n /\ level <= Len(Sizes) /\ level \in Nat \ {0}
  BY WordWidth DEF BackWord, Doing, HasWord, Inv, TypeOK
<1>2. from \in Int /\ len \in Nat /\ todo \in Seq(JobType)
  BY <1>1, JobLeft DEF Inv, TypeOK
<1>3. n \in Nat /\ off \in Nat /\ n <= len /\ s - off = from - (len - n) /\ d \in Int /\ s \in Int
  BY <1>1 DEF Inv, TypeOK, InPlace
<1>4. /\ UNCHANGED <<todo, base, level, d, s>> /\ off' = off + w /\ n' = n - w
      /\ mem' = [a \in DOMAIN mem |-> IF a \in d - off .. d - off + w - 1 THEN mem[s - off + (a - (d - off))] ELSE mem[a]]
  BY DEF BackWord, Progress, Written, From
<1>5. from - len + w .. from + w - 1 \subseteq Space
  <2>1. 1 \in 1 .. Len(todo)
    BY <1>1, <1>2
  <2>2. \A x \in Range(Widths) : from - len + x .. from + x - 1 \subseteq Space
    BY <1>1, <2>1 DEF Inv, AllRead, Reads
  <2>3. w = Widths[level] /\ level \in DOMAIN Widths
    BY <1>1, SizesAre DEF Width, Sizes, Doing
  <2>4. w \in Range(Widths)
    BY <2>3 DEF Range
  <2> QED
    BY <2>2, <2>4
<1> HIDE DEF o, w, from, len
<1>6. mem' \in [Space -> Bytes]
  <2>1. mem \in [Space -> Bytes] /\ Space \subseteq Int
    BY SpaceAssumption DEF Inv, TypeOK
  <2>2. ASSUME NEW a \in Space, a \in d - off .. d - off + w - 1
        PROVE  s - off + (a - (d - off)) \in from - len + w .. from + w - 1
    BY <1>1, <1>2, <1>3, <2>1, <2>2
  <2> QED
    BY <1>4, <1>5, <2>1, <2>2
<1>7. TypeOK'
  BY <1>1, <1>3, <1>4, <1>6 DEF Inv, TypeOK
<1>8. InPlace'
  <2>1. n' <= len /\ s' - off' = from - (len - n')
    <3>1. s' = s /\ off' = off + w /\ n' = n - w /\ w \in Nat
      BY <1>1, <1>4
    <3> QED
      BY <1>2, <1>3, <3>1
  <2>2. todo' = todo
    BY <1>4
  <2> QED
    BY <1>1, <2>1, <2>2 DEF InPlace, o, from, len
<1>9. AllRead'
  BY <1>4 DEF Inv, AllRead, Reads
<1>10. PrefixExact'
  BY <1>1, <1>4 DEF PrefixExact, Doing, o
<1> QED
  BY <1>7, <1>8, <1>9, <1>10 DEF Inv

\* Past the last width, whose word is the byte, nothing is left.
LEMMA NarrowInv ==
  ASSUME Inv, Narrow
  PROVE  Inv'
<1> DEFINE k == todo[1].kind
<1> DEFINE to == todo[1].d
<1> DEFINE from == todo[1].s
<1> DEFINE len == todo[1].n
<1> DEFINE way == IF Doing("back") THEN -off ELSE off
<1>1. /\ todo # <<>> /\ level <= Len(Sizes) /\ n < Width /\ level' = level + 1 /\ off' = 0
      /\ UNCHANGED <<mem, todo, base, n>>
      /\ d' = d + way /\ s' = IF Doing("fill") THEN s ELSE s + way
  BY DEF Narrow
<1>2. to \in Int /\ from \in Int /\ len \in Nat
  BY <1>1, JobLeft DEF Inv
<1>3. /\ n \in Nat /\ off \in Nat /\ d \in Int /\ s \in Int /\ level \in Nat \ {0} /\ n <= len
      /\ k \in {"copy", "fill"} => d + off = to + (len - n)
      /\ k = "copy" => s + off = from + (len - n)
      /\ k = "fill" => s = from
      /\ k = "back" => s - off = from - (len - n)
  BY <1>1 DEF Inv, TypeOK, InPlace
<1>4. way \in Int /\ (Doing("back") <=> k = "back") /\ (Doing("fill") <=> k = "fill")
  BY <1>1, <1>3 DEF Doing
<1>5. TypeOK'
  BY <1>1, <1>3, <1>4 DEF Inv, TypeOK
<1>6. InPlace'
  <2> HIDE DEF k, to, from, len
  <2>1. CASE k = "back"
    <3>1. s' = s + (-off) /\ off' = 0 /\ n' = n
      BY <1>1, <1>4, <2>1
    <3>2. s' - off' = from - (len - n')
      BY <1>2, <1>3, <2>1, <3>1
    <3> QED
      BY <1>1, <1>3, <2>1, <3>2 DEF InPlace, k, from, len
  <2>2. CASE k = "fill"
    <3>1. d' = d + off /\ s' = s /\ off' = 0 /\ n' = n
      BY <1>1, <1>4, <2>2
    <3>2. d' + off' = to + (len - n')
      BY <1>2, <1>3, <2>2, <3>1
    <3> QED
      BY <1>1, <1>3, <2>2, <3>1, <3>2 DEF InPlace, k, to, from, len
  <2>3. CASE k = "copy"
    <3>1. d' = d + off /\ s' = s + off /\ off' = 0 /\ n' = n
      BY <1>1, <1>4, <2>3
    <3>2. d' + off' = to + (len - n') /\ s' + off' = from + (len - n')
      BY <1>2, <1>3, <2>3, <3>1
    <3> QED
      BY <1>1, <1>3, <2>3, <3>2 DEF InPlace, k, to, from, len
  <2>4. CASE k \notin {"copy", "fill", "back"}
    BY <1>1, <1>3, <2>4 DEF InPlace, k, len
  <2> QED
    BY <2>1, <2>2, <2>3, <2>4
<1>7. AllRead'
  BY <1>1 DEF Inv, AllRead, Reads
<1>8. PrefixExact'
  <2>1. Sizes' = Sizes
    BY <1>1 DEF Sizes, Doing
  <2>2. level' > Len(Sizes) => n = 0
    <3> SUFFICES ASSUME level' > Len(Sizes) PROVE n = 0
      OBVIOUS
    <3>1. level = Len(Sizes)
      BY <1>1, <1>3, SizesAre
    <3>2. Width = 1
      BY <3>1, SizesAre DEF Width
    <3> QED
      BY <1>1, <1>3, <3>2
  <2> QED
    BY <1>1, <2>1, <2>2 DEF Inv, PrefixExact, Doing
<1> QED
  BY <1>5, <1>6, <1>7, <1>8 DEF Inv

\* A comparison or a search moves on within its job.
LEMMA ReadInv ==
  ASSUME Inv, todo # <<>>, todo[1].kind \notin {"copy", "fill", "back"},
         UNCHANGED <<mem, todo, base>>,
         level' \in Nat \ {0}, off' \in Nat, n' \in Nat, n' <= n, UNCHANGED <<d, s>>
  PROVE  Inv'
<1>1. todo[1].n \in Nat /\ n \in Nat /\ n <= todo[1].n
  BY JobLeft DEF Inv, TypeOK, InPlace
<1>2. TypeOK'
  BY DEF Inv, TypeOK
<1>3. n' <= todo[1].n
  <2> DEFINE len == todo[1].n
  <2>1. len \in Nat /\ n <= len /\ n \in Nat
    BY <1>1
  <2> HIDE DEF len
  <2>2. n' <= len
    BY <2>1
  <2> QED
    BY <2>2 DEF len
<1>4. InPlace' /\ AllRead' /\ PrefixExact'
  BY <1>3 DEF InPlace, Inv, AllRead, Reads, PrefixExact, Doing
<1> QED
  BY <1>2, <1>4 DEF Inv

LEMMA CompareInv ==
  ASSUME Inv, CompareEqual \/ CompareUnequal \/ CompareOverlooks
  PROVE  Inv'
<1>1. todo # <<>> /\ todo[1].kind = "compare" /\ level \in Nat \ {0} /\ off \in Nat /\ n \in Nat
      /\ Width \in Nat \ {0} /\ n >= Width
  BY WordWidth DEF CompareEqual, CompareUnequal, CompareOverlooks, Doing, HasWord, Inv, TypeOK
<1>2. CASE CompareEqual
  <2> DEFINE w == Turn * Width
  <2>1. w \in Nat /\ w <= n
    <3>1. CASE n >= 2 * Width
      BY <1>1, <3>1 DEF Turn
    <3>2. CASE ~(n >= 2 * Width)
      BY <1>1, <3>2 DEF Turn
    <3> QED
      BY <3>1, <3>2
  <2>2. off' = off + w /\ n' = n - w /\ UNCHANGED <<mem, todo, base, level, d, s>>
    BY <1>2 DEF CompareEqual, Progress
  <2> HIDE DEF w
  <2>3. off' \in Nat /\ n' \in Nat /\ n' <= n
    BY <1>1, <2>1, <2>2
  <2> QED
    BY <1>1, <2>2, <2>3, ReadInv
<1>3. CASE CompareUnequal
  BY <1>1, <1>3, FinishInv DEF CompareUnequal
<1>4. CASE CompareOverlooks
  <2>1. level' \in Nat \ {0} /\ off' = 0 /\ UNCHANGED <<mem, todo, base, d, s, n>>
    BY <1>1, <1>4 DEF CompareOverlooks
  <2> QED
    BY <1>1, <2>1, ReadInv
<1> QED
  BY <1>2, <1>3, <1>4

LEMMA LookInv ==
  ASSUME Inv, SsizeBytes \in Nat, Chr \/ Strlen
  PROVE  Inv'
<1>1. todo # <<>> /\ todo[1].kind \in {"chr", "strlen"} /\ level \in Nat \ {0} /\ off \in Nat /\ n \in Nat
  BY DEF Chr, Strlen, Doing, Inv, TypeOK
<1>2. Finish \/ (off' \in {off + 1, off + SsizeBytes} /\ UNCHANGED <<mem, todo, base, level, d, s, n>>)
  BY DEF Chr, Strlen
<1>3. CASE Finish
  BY <1>1, <1>3, FinishInv
<1>4. CASE off' \in {off + 1, off + SsizeBytes} /\ UNCHANGED <<mem, todo, base, level, d, s, n>>
  <2>1. off' \in Nat
    BY <1>1, <1>4
  <2> QED
    BY <1>1, <1>4, <2>1, ReadInv
<1> QED
  BY <1>2, <1>3, <1>4

LEMMA NextInv == Inv /\ [Next]_vars => Inv'
<1> SUFFICES ASSUME Inv, [Next]_vars PROVE Inv'
  OBVIOUS
<1>1. CASE CopyWord
  BY <1>1, CopyWordInv
<1>2. CASE BackWord
  BY <1>2, BackWordInv
<1>3. CASE FillWord
  BY <1>3, FillWordInv
<1>4. CASE Narrow
  BY <1>4, NarrowInv
<1>5. CASE EndJob
  BY <1>5, FinishInv DEF EndJob
<1>6. CASE CompareEqual \/ CompareUnequal \/ CompareOverlooks
  BY <1>6, CompareInv
<1>7. CASE Chr \/ Strlen
  BY <1>7, LookInv, SpaceAssumption
<1>8. CASE UNCHANGED vars
  BY <1>8 DEF vars, job, Inv, TypeOK, InPlace, AllRead, Reads, PrefixExact, Doing, Sizes
<1> QED
  BY <1>1, <1>2, <1>3, <1>4, <1>5, <1>6, <1>7, <1>8 DEF Next

LEMMA Invariance == Spec => []Inv
<1> QED
  BY InitInv, NextInv, PTL DEF Spec

\* The variables keep their types: no copy reads outside the memory its call
\* was given, also where lv_memmove goes past its regions.
THEOREM TypeCorrect == Spec => []TypeOK
<1>1. Inv => TypeOK
  BY DEF Inv
<1> QED
  BY <1>1, Invariance, PTL

\* Every copy that is not made upwards onto itself, and every fill, has done a
\* prefix of its work and nothing else at every moment, whatever the widths of
\* the words; and when the widths are exhausted, so are the bytes.
THEOREM CopiesAreExact == Spec => []PrefixExact
<1>1. Inv => PrefixExact
  BY DEF Inv
<1> QED
  BY <1>1, Invariance, PTL

-----------------------------------------------------------------------------
(* Where a call writes.                                                    *)

\* The call under way is one of the cases.
Given == \E c \in Cases : call = c.call /\ before = c.mem

\* What a job may write. A backward one starts with the word past its end.
Writes(o) ==
  CASE o.kind \in {"copy", "fill"} -> Region(o.d, o.n)
    [] o.kind = "back" -> Region(o.d - o.n + 1, o.n + Overshoot(o.n) - 1)
    [] OTHER -> {}
Within(R) == {o \in JobType : Writes(o) \subseteq R}

BackInPlace == Doing("back") => d - off = todo[1].d - (todo[1].n - n)
AllWithin == \A i \in 1 .. Len(todo) : Writes(todo[i]) \subseteq Reach(call)

CInv == Given /\ BackInPlace /\ AllWithin /\ Contained

\* Overshoot is the widest word that fits.
LEMMA WidestFits ==
  ASSUME NEW len \in Nat, NEW w \in Range(Widths), w <= len
  PROVE  Overshoot(len) \in Nat \ {0} /\ w <= Overshoot(len) /\ Overshoot(len) <= len
<1> DEFINE F == {x \in Range(Widths) : x <= len}
           T == {len - x : x \in F}
<1>1. Range(Widths) \subseteq Nat \ {0}
  BY SizesAre DEF Range
<1>2. T \subseteq Nat /\ T # {}
  BY <1>1
<1>3. PICK t \in T : \A u \in T : t <= u
  BY <1>2, LeastNatural
<1>4. PICK v \in F : t = len - v
  OBVIOUS
<1>5. ASSUME NEW x \in F PROVE x <= v
  <2>1. len - x \in T
    OBVIOUS
  <2>2. len - v <= len - x /\ x \in Nat /\ v \in Nat
    BY <2>1, <1>1, <1>3, <1>4
  <2> QED
    BY <2>2
<1>6. v \in Range(Widths) /\ v <= len /\ \A x \in Range(Widths) : x <= len => x <= v
  BY <1>5
<1>7. LET o == Overshoot(len) IN o \in Range(Widths) /\ o <= len /\ \A x \in Range(Widths) : x <= len => x <= o
  BY <1>6 DEF Overshoot
<1> QED
  BY <1>1, <1>7

LEMMA JobFields ==
  ASSUME NEW kind \in {"copy", "back", "fill", "compare", "chr", "strlen"}, NEW to \in Int, NEW from \in Int, NEW len \in Nat
  PROVE  LET o == Job(kind, to, from, len)
         IN  o \in JobType /\ o.kind = kind /\ o.d = to /\ o.s = from /\ o.n = len
BY DEF Job, JobType

LEMMA JobAlone ==
  ASSUME NEW R, NEW o \in Within(R)
  PROVE  <<o>> \in Seq(Within(R))
OBVIOUS

LEMMA CopyWithin ==
  ASSUME NEW R, NEW to \in Int, NEW from \in Int, NEW len \in Nat, Region(to, len) \subseteq R
  PROVE  Copy(to, from, len) \in Seq(Within(R))
<1> DEFINE o == Job("copy", to, from, len)
<1>1. o \in JobType /\ o.kind = "copy" /\ o.d = to /\ o.n = len
  BY JobFields
<1> HIDE DEF o
<1>2. o \in Within(R)
  BY <1>1 DEF Within, Writes
<1>3. <<o>> \in Seq(Within(R)) /\ <<>> \in Seq(Within(R))
  BY <1>2, JobAlone
<1> QED
  BY <1>3 DEF Copy, o

LEMMA FillWithin ==
  ASSUME NEW R, NEW to \in Int, NEW byte \in Int, NEW len \in Nat, Region(to, len) \subseteq R
  PROVE  Fill(to, byte, len) \in Seq(Within(R))
<1> DEFINE o == Job("fill", to, byte, len)
<1>1. o \in JobType /\ o.kind = "fill" /\ o.d = to /\ o.n = len
  BY JobFields
<1> HIDE DEF o
<1>2. o \in Within(R)
  BY <1>1 DEF Within, Writes
<1>3. <<o>> \in Seq(Within(R)) /\ <<>> \in Seq(Within(R))
  BY <1>2, JobAlone
<1> QED
  BY <1>3 DEF Fill, o

LEMMA LookWithin ==
  ASSUME NEW R, NEW kind \in {"compare", "chr", "strlen"}, NEW to \in Int, NEW from \in Int, NEW len \in Nat
  PROVE  <<Job(kind, to, from, len)>> \in Seq(Within(R))
<1> DEFINE o == Job(kind, to, from, len)
<1>1. o \in JobType /\ o.kind = kind
  BY JobFields
<1> HIDE DEF o
<1>2. o \in Within(R)
  BY <1>1 DEF Within, Writes
<1> QED
  BY <1>2, JobAlone DEF o

\* An upward move writes all but the first byte of its region and up to a word
\* past it, or nothing: then its first byte is all there is.
LEMMA BackWithin ==
  ASSUME NEW R, NEW to \in Int, NEW from \in Int, NEW len \in Nat, Region(to + 1, len + Overshoot(len) - 1) \subseteq R
  PROVE  <<Job("back", to + len, from + len, len)>> \in Seq(Within(R))
<1> DEFINE o == Job("back", to + len, from + len, len)
<1>1. o \in JobType /\ o.kind = "back" /\ o.d = to + len /\ o.n = len
  <2>1. to + len \in Int /\ from + len \in Int
    OBVIOUS
  <2> QED
    BY <2>1, JobFields
<1> HIDE DEF o
<1>2. o.d - o.n + 1 = to + 1
  BY <1>1
<1>3. Writes(o) = Region(to + 1, len + Overshoot(len) - 1)
  BY <1>1, <1>2 DEF Writes
<1>4. o \in Within(R)
  BY <1>1, <1>3 DEF Within
<1> QED
  BY <1>4, JobAlone DEF o

LEMMA BothWithin ==
  ASSUME NEW R, NEW p \in Seq(Within(R)), NEW q \in Seq(Within(R))
  PROVE  p \o q \in Seq(Within(R))
OBVIOUS

LEMMA TimesMonotone ==
  ASSUME NEW a \in Int, NEW b \in Int, NEW k \in Nat, a <= b
  PROVE  a * k <= b * k
OBVIOUS

\* The chunks of a repeat end where the last one that is begun ends.
LEMMA ChunksCover ==
  ASSUME NEW len \in Nat, NEW k \in Nat \ {0}, NEW i \in 1 .. ChunkCount(len, k)
  PROVE  /\ ChunkCount(len, k) \in Nat
         /\ (i - 1) * k \in Nat /\ (i - 1) * k + k <= len + ((0 - len) % k)
<1> DEFINE a == len + k - 1
           q == a \div k
           p == (0 - len) \div k
           r == (0 - len) % k
<1>1. a \in Nat /\ 0 - len \in Int
  OBVIOUS
<1>2. q \in Int /\ q * k <= a /\ a < q * k + k
  BY <1>1
<1>3. p \in Int /\ r \in Int /\ 0 - len = k * p + r /\ 0 <= r /\ r < k
  BY <1>1
<1>4. q = ChunkCount(len, k)
  BY DEF ChunkCount
<1> DEFINE m == 0 - p
<1>5. m \in Int /\ m * k = 0 - k * p
  BY <1>3
<1>6. len + r = m * k
  <2> HIDE DEF a, q, p, r, m
  <2> QED
    BY <1>3, <1>5
<1> HIDE DEF a, q, p, r, m
<1>7. q <= m
  <2> SUFFICES ASSUME m + 1 <= q PROVE FALSE
    BY <1>2, <1>5
  <2>1. (m + 1) * k <= q * k
    BY <1>2, <1>5, TimesMonotone
  <2>2. (m + 1) * k = m * k + k
    BY <1>5
  <2>3. m * k \in Int /\ q * k \in Int
    BY <1>2, <1>5
  <2> QED
    BY <1>2, <1>3, <1>6, <2>1, <2>2, <2>3 DEF a
<1>8. i \in Nat \ {0} /\ i <= m /\ q \in Nat
  <2>1. 0 <= q
    <3> SUFFICES ASSUME q + 1 <= 0 PROVE FALSE
      BY <1>2
    <3>1. (q + 1) * k <= 0 * k
      BY <1>2, TimesMonotone
    <3>2. (q + 1) * k = q * k + k /\ 0 * k = 0 /\ q * k \in Int
      BY <1>2
    <3> QED
      BY <1>1, <1>2, <3>1, <3>2
  <2> QED
    BY <1>2, <1>4, <1>5, <1>7, <2>1
<1>9. i * k <= m * k
  BY <1>5, <1>8, TimesMonotone
<1>10. (i - 1) * k \in Nat /\ (i - 1) * k + k = i * k
  <2>1. i - 1 \in Nat
    BY <1>8
  <2> QED
    BY <1>8, <2>1
<1> QED
  BY <1>4, <1>6, <1>8, <1>9, <1>10 DEF r

LEMMA BroadcastWithin ==
  ASSUME NEW R, NEW to \in Int, NEW from \in Int, NEW len \in Nat, NEW k \in Nat,
         k > 0 => Region(to, len + ((0 - len) % k)) \subseteq R
  PROVE  Broadcast(to, from, len, k) \in Seq(Within(R))
<1> SUFFICES ASSUME k > 0 PROVE Broadcast(to, from, len, k) \in Seq(Within(R))
  BY DEF Broadcast
<1> DEFINE C == ChunkCount(len, k)
           ss == [i \in 1 .. C |-> Copy(to + (i - 1) * k, from, k)]
<1>1. ASSUME NEW i \in 1 .. C PROVE Copy(to + (i - 1) * k, from, k) \in Seq(Within(R))
  <2> DEFINE x == (i - 1) * k
             y == len + ((0 - len) % k)
  <2>1. x \in Nat /\ x + k <= y
    BY ChunksCover
  <2>2. y \in Int /\ Region(to, y) \subseteq R
    <3>1. 0 - len \in Int
      OBVIOUS
    <3>2. (0 - len) % k \in Int
      BY <3>1
    <3> QED
      BY <3>2
  <2> HIDE DEF x, y
  <2>3. to + x \in Int /\ Region(to + x, k) \subseteq R
    BY <2>1, <2>2 DEF Region
  <2> QED
    BY <2>3, CopyWithin DEF x
<1>2. C \in Nat
  <2>1. len + k - 1 \in Nat
    OBVIOUS
  <2>2. (len + k - 1) \div k \in Nat
    BY <2>1
  <2>3. len + k - 1 = (len + k) - 1
    OBVIOUS
  <2> QED
    BY <2>2 DEF ChunkCount
<1>3. ss \in Seq(Seq(Within(R)))
  <2> HIDE DEF C
  <2> QED
    BY <1>1, <1>2
<1>4. FlattenSeq(ss) \in Seq(Within(R))
  <2> HIDE DEF ss
  <2> QED
    BY <1>3, FlattenType
<1> QED
  BY <1>4 DEF Broadcast

\* No job of a call writes outside the call's reach.
LEMMA JobsWithin ==
  ASSUME NEW c \in CallType, c.op = "clone" => c.s + c.n < Spare \/ Spare + c.n <= c.s
  PROVE  Jobs(c) \in Seq(Within(Reach(c)))
<1> DEFINE R == Reach(c)
<1>1. c.d \in Nat /\ c.s \in Nat /\ c.n \in Nat /\ c.k \in Nat
      /\ c.op \in {"copy", "move", "fill", "swap", "take", "broadcast", "clone", "compare", "chr", "strlen"}
  BY DEF CallType
<1>2. Spare \in Int /\ <<>> \in Seq(Within(R))
  BY SpareAssumption
<1>3. \A p \in Int : c.n = 0 => Region(p, c.n) = {}
  BY DEF Region
<1> SUFFICES Jobs(c) \in Seq(Within(R))
  OBVIOUS
<1> HIDE DEF R
<1>a. \A to, from \in Int, len \in Nat : Region(to, len) \subseteq R => Copy(to, from, len) \in Seq(Within(R))
  BY CopyWithin
<1>b. \A to, byte \in Int, len \in Nat : Region(to, len) \subseteq R => Fill(to, byte, len) \in Seq(Within(R))
  BY FillWithin
<1>c. \A kind \in {"compare", "chr", "strlen"}, to, from \in Int, len \in Nat :
        <<Job(kind, to, from, len)>> \in Seq(Within(R))
  BY LookWithin
<1>d. \A p, q \in Seq(Within(R)) : p \o q \in Seq(Within(R))
  BY BothWithin
<1>e. \A to, from \in Int, len, k \in Nat :
        (k > 0 => Region(to, len + ((0 - len) % k)) \subseteq R) => Broadcast(to, from, len, k) \in Seq(Within(R))
  BY BroadcastWithin
<1>4. CASE c.op = "copy"
  <2>1. Region(c.d, c.n) \subseteq R
    BY <1>1, <1>3, <1>4 DEF R, Reach
  <2> QED
    BY <1>1, <1>4, <2>1, <1>a DEF Jobs
<1>5. CASE c.op = "move"
  <2>1. CASE c.n > 0 /\ Upward(c)
    <3>1. Region(c.d + 1, c.n + Overshoot(c.n) - 1) \subseteq R
      BY <1>5, <2>1 DEF R, Reach
    <3>2. <<Job("back", c.d + c.n, c.s + c.n, c.n)>> \in Seq(Within(R))
      BY <1>1, <3>1, BackWithin
    <3>3. Copy(c.d, c.s, c.n) = <<>> \/ ~Pointless(c.d, c.s, c.n)
      BY DEF Copy
    <3>4. Upward(Job("move", c.d, c.s, c.n))
      BY <2>1 DEF Upward, Job
    <3>5. Jobs(c) = IF ~Pointless(c.d, c.s, c.n) THEN <<Job("back", c.d + c.n, c.s + c.n, c.n)>> ELSE <<>>
      BY <1>5, <3>3, <3>4 DEF Jobs, Move, Copy
    <3> QED
      BY <1>2, <3>2, <3>5
  <2>2. CASE ~(c.n > 0 /\ Upward(c))
    <3>1. ~Upward(Job("move", c.d, c.s, c.n))
      BY <1>1, <2>2 DEF Upward, Job
    <3>2. Jobs(c) = Copy(c.d, c.s, c.n)
      BY <1>5, <3>1 DEF Jobs, Move
    <3>3. Region(c.d, c.n) \subseteq R
      BY <1>1, <1>3, <1>5, <2>2 DEF R, Reach
    <3>4. Copy(c.d, c.s, c.n) \in Seq(Within(R))
      BY <1>1, <3>3, <1>a
    <3> QED
      BY <3>2, <3>4
  <2> QED
    BY <2>1, <2>2
<1>6. CASE c.op = "fill"
  <2>1. Region(c.d, c.n) \subseteq R
    BY <1>1, <1>3, <1>6 DEF R, Reach
  <2> QED
    BY <1>1, <1>6, <2>1, <1>b DEF Jobs
<1>7. CASE c.op = "swap"
  <2>1. CASE c.n > 0
    <3>1. Region(c.d, c.n) \subseteq R /\ Region(c.s, c.n) \subseteq R /\ Region(Spare, c.n) \subseteq R
      BY <1>1, <1>7, <2>1 DEF R, Reach
    <3>2. /\ Copy(Spare, c.d, c.n) \in Seq(Within(R)) /\ Copy(c.d, c.s, c.n) \in Seq(Within(R))
          /\ Copy(c.s, Spare, c.n) \in Seq(Within(R))
      <4> DEFINE x == c.d
                 y == c.s
                 l == c.n
      <4>1. x \in Int /\ y \in Int /\ l \in Nat
            /\ Region(x, l) \subseteq R /\ Region(y, l) \subseteq R /\ Region(Spare, l) \subseteq R
        BY <1>1, <3>1
      <4> HIDE DEF x, y, l
      <4>2. Copy(Spare, x, l) \in Seq(Within(R))
        BY <1>2, <4>1, <1>a
      <4>3. Copy(x, y, l) \in Seq(Within(R))
        BY <4>1, <1>a
      <4>4. Copy(y, Spare, l) \in Seq(Within(R))
        BY <1>2, <4>1, <1>a
      <4> QED
        BY <4>2, <4>3, <4>4 DEF x, y, l
    <3>3. (Copy(Spare, c.d, c.n) \o Copy(c.d, c.s, c.n)) \o Copy(c.s, Spare, c.n) \in Seq(Within(R))
      BY <3>2, <1>d
    <3> QED
      BY <1>1, <1>2, <1>7, <2>1, <3>3 DEF Jobs, Swap
  <2> QED
    BY <1>1, <1>2, <1>7, <2>1 DEF Jobs
<1>8. CASE c.op = "take"
  <2>1. CASE c.n > 0
    <3>1. Region(c.d, c.n) \subseteq R /\ Region(c.s, c.n) \subseteq R
      BY <1>1, <1>8, <2>1 DEF R, Reach
    <3>2. Copy(c.d, c.s, c.n) \in Seq(Within(R)) /\ Fill(c.s, 0, c.n) \in Seq(Within(R))
      BY <1>1, <3>1, <1>a, <1>b
    <3>3. Copy(c.d, c.s, c.n) \o Fill(c.s, 0, c.n) \in Seq(Within(R))
      BY <3>2, <1>d
    <3> QED
      BY <1>1, <1>2, <1>8, <2>1, <3>3 DEF Jobs, Take
  <2> QED
    BY <1>1, <1>2, <1>8, <2>1 DEF Jobs
<1>9. CASE c.op = "broadcast"
  <2>1. CASE c.n > 0
    <3>1. c.k > 0 => Region(c.d, c.n + ((0 - c.n) % c.k)) \subseteq R
      <4>1. -c.n = 0 - c.n
        BY <1>1
      <4> QED
        BY <1>9, <2>1, <4>1 DEF R, Reach
    <3>2. Broadcast(c.d, c.s, c.n, c.k) \in Seq(Within(R))
      <4> DEFINE x == c.d
                 y == c.s
                 l == c.n
                 k == c.k
      <4>1. x \in Int /\ y \in Int /\ l \in Nat /\ k \in Nat
            /\ (k > 0 => Region(x, l + ((0 - l) % k)) \subseteq R)
        BY <1>1, <3>1
      <4> HIDE DEF x, y, l, k
      <4>2. Broadcast(x, y, l, k) \in Seq(Within(R))
        BY <4>1, <1>e
      <4> QED
        BY <4>2 DEF x, y, l, k
    <3> QED
      BY <1>1, <1>9, <2>1, <3>2 DEF Jobs
  <2> QED
    BY <1>1, <1>2, <1>9, <2>1 DEF Jobs
<1>10. CASE c.op = "clone"
  <2>1. CASE c.n > 0 /\ c.s # Null
    <3>1. ~Upward(Job("move", Spare, c.s, c.n))
      BY <1>1, <1>2, <1>10 DEF Upward, Job
    <3>2. Jobs(c) = Copy(Spare, c.s, c.n)
      BY <1>1, <1>10, <2>1, <3>1 DEF Jobs, Move
    <3>3. Region(Spare, c.n) \subseteq R
      BY <1>10, <2>1 DEF R, Reach
    <3>4. Copy(Spare, c.s, c.n) \in Seq(Within(R))
      <4> DEFINE y == c.s
                 l == c.n
      <4>1. y \in Int /\ l \in Nat /\ Region(Spare, l) \subseteq R
        BY <1>1, <3>3
      <4> HIDE DEF y, l
      <4>2. Copy(Spare, y, l) \in Seq(Within(R))
        BY <1>2, <4>1, <1>a
      <4> QED
        BY <4>2 DEF y, l
    <3> QED
      BY <3>2, <3>4
  <2> QED
    BY <1>1, <1>2, <1>10, <2>1 DEF Jobs
<1>11. CASE c.op = "compare"
  <2>1. Jobs(c) \in {<<>>, <<Job("compare", c.d, c.s, c.n)>>}
    BY <1>11 DEF Jobs, Compare
  <2>2. <<Job("compare", c.d, c.s, c.n)>> \in Seq(Within(R))
    BY <1>1, <1>c
  <2> QED
    BY <1>2, <2>1, <2>2
<1>12. CASE c.op = "chr"
  <2>1. Jobs(c) = <<Job("chr", c.d, c.k, c.n)>>
    BY <1>12 DEF Jobs
  <2> QED
    BY <1>1, <2>1, <1>c
<1>13. CASE c.op = "strlen"
  <2>1. Jobs(c) \in {<<>>, <<Job("strlen", c.d, 0, 0)>>}
    BY <1>13 DEF Jobs
  <2>2. <<Job("strlen", c.d, 0, 0)>> \in Seq(Within(R))
    BY <1>1, <1>c
  <2> QED
    BY <1>2, <2>1, <2>2
<1> QED
  BY <1>1, <1>4, <1>5, <1>6, <1>7, <1>8, <1>9, <1>10, <1>11, <1>12, <1>13

LEMMA StartCInv == Init => CInv
<1> SUFFICES ASSUME Init PROVE CInv
  OBVIOUS
<1>1. PICK c \in Cases :
        /\ call = c.call /\ before = c.mem /\ mem = c.mem
        /\ todo \in {Jobs(c.call), <<>>}
        /\ d = First(todo).d /\ n = First(todo).n /\ off = 0
  BY DEF Init
<1>2. call \in CallType /\ todo \in Seq(JobType)
  <2>1. c.call \in CallType /\ Jobs(c.call) \in Seq(JobType)
    BY CaseAssumption
  <2>2. <<>> \in Seq(JobType)
    OBVIOUS
  <2>3. call \in CallType
    BY <1>1, <2>1
  <2>4. todo = Jobs(c.call) \/ todo = <<>>
    BY <1>1
  <2> QED
    BY <2>1, <2>2, <2>3, <2>4
<1>3. call.op = "clone" => call.s + call.n < Spare \/ Spare + call.n <= call.s
  BY <1>1, SpareAssumption
<1>4. Jobs(call) \in Seq(Within(Reach(call)))
  BY <1>2, <1>3, JobsWithin
<1>5. AllWithin
  <2>1. todo \in Seq(Within(Reach(call)))
    <3>1. todo = Jobs(call) \/ todo = <<>>
      BY <1>1
    <3>2. <<>> \in Seq(Within(Reach(call)))
      OBVIOUS
    <3> QED
      BY <1>4, <3>1, <3>2
  <2> QED
    BY <2>1 DEF AllWithin, Within
<1>6. BackInPlace
  <2> SUFFICES ASSUME Doing("back") PROVE d - off = todo[1].d - (todo[1].n - n)
    BY DEF BackInPlace
  <2>1. todo # <<>> /\ todo[1] \in JobType
    BY <1>2 DEF Doing
  <2>2. d = todo[1].d /\ n = todo[1].n /\ d \in Int /\ n \in Nat
    BY <1>1, <2>1 DEF First, JobType
  <2> QED
    BY <1>1, <2>2
<1> QED
  BY <1>1, <1>5, <1>6 DEF CInv, Given, Contained

LEMMA FinishCInv ==
  ASSUME Inv, CInv, todo # <<>>, Finish
  PROVE  CInv'
<1>1. /\ Tail(todo) \in Seq(JobType) /\ Len(Tail(todo)) = Len(todo) - 1 /\ Len(todo) \in Nat
      /\ \A i \in 1 .. Len(todo) - 1 : Tail(todo)[i] = todo[i + 1]
  BY JobLeft DEF Inv, TypeOK
<1>2. UNCHANGED <<call, before, mem>> /\ todo' = Tail(todo)
      /\ d' = First(todo').d /\ n' = First(todo').n /\ off' = 0
  BY DEF Finish
<1>3. AllWithin'
  <2> SUFFICES ASSUME NEW i \in 1 .. Len(todo') PROVE Writes(todo'[i]) \subseteq Reach(call)
    BY <1>2 DEF AllWithin, Writes
  <2>1. i + 1 \in 1 .. Len(todo) /\ todo'[i] = todo[i + 1]
    BY <1>1, <1>2
  <2> QED
    BY <2>1 DEF CInv, AllWithin
<1>4. BackInPlace'
  <2> SUFFICES ASSUME Doing("back")' PROVE d' - off' = todo'[1].d - (todo'[1].n - n')
    BY DEF BackInPlace
  <2>1. todo' # <<>> /\ todo'[1] \in JobType
    BY <1>1, <1>2 DEF Doing
  <2> DEFINE to == todo'[1].d
             len == todo'[1].n
  <2>2. d' = to /\ n' = len /\ to \in Int /\ len \in Nat /\ off' = 0
    BY <1>2, <2>1 DEF First, JobType
  <2> HIDE DEF to, len
  <2>3. d' - off' = to - (len - n')
    BY <2>2
  <2> QED
    BY <2>3 DEF to, len
<1> QED
  BY <1>2, <1>3, <1>4 DEF CInv, Given, Contained

\* What a step writes lies in the reach of the call.
LEMMA WriteCInv ==
  ASSUME Inv, CInv, UNCHANGED <<call, before, todo>>,
         NEW A, A \subseteq Reach(call), \A a \in Space \ A : mem'[a] = mem[a]
  PROVE  AllWithin' /\ Contained' /\ Given'
<1>1. AllWithin' /\ Given'
  BY DEF CInv, AllWithin, Given, Writes
<1>2. \A a \in Space \ Reach(call) : mem'[a] = mem[a]
  OBVIOUS
<1> QED
  BY <1>1, <1>2 DEF CInv, Contained

LEMMA ForwardCInv ==
  ASSUME Inv, CInv, CopyWord \/ FillWord
  PROVE  CInv'
<1> DEFINE o == todo[1]
           to == todo[1].d
           len == todo[1].n
           w == Width
           A == d + off .. d + off + w - 1
<1>1. todo # <<>> /\ o.kind \in {"copy", "fill"} /\ w \in Nat \ {0} /\ w <= n /\ level \in Nat \ {0}
  BY WordWidth DEF CopyWord, FillWord, Doing, HasWord, Inv, TypeOK
<1>2. to \in Int /\ len \in Nat /\ 1 \in 1 .. Len(todo)
  BY <1>1, JobLeft DEF Inv, TypeOK
<1>3. n \in Nat /\ off \in Nat /\ n <= len /\ d + off = to + (len - n) /\ d \in Int
  BY <1>1 DEF Inv, TypeOK, InPlace
<1>4. UNCHANGED <<call, before, todo>>
  BY DEF CopyWord, FillWord, Progress
<1>5. Writes(o) = Region(to, len) /\ Writes(o) \subseteq Reach(call)
  BY <1>1, <1>2 DEF CInv, AllWithin, Writes
<1>6. A \subseteq Reach(call)
  <2> HIDE DEF o, to, len, w
  <2>1. A \subseteq Region(to, len)
    BY <1>1, <1>2, <1>3 DEF Region
  <2> QED
    BY <2>1, <1>5
<1>7. AllWithin' /\ Contained' /\ Given'
  <2>1. CASE CopyWord
    <3>1. \A a \in Space \ A : mem'[a] = mem[a]
      BY <2>1 DEF CopyWord, Written, Inv, TypeOK
    <3> HIDE DEF A
    <3> QED
      BY <1>4, <1>6, <3>1, WriteCInv
  <2>2. CASE FillWord
    <3>1. \A a \in Space \ A : mem'[a] = mem[a]
      BY <2>2 DEF FillWord, Written, Inv, TypeOK
    <3> HIDE DEF A
    <3> QED
      BY <1>4, <1>6, <3>1, WriteCInv
  <2> QED
    BY <2>1, <2>2
<1>8. BackInPlace'
  BY <1>1, <1>4 DEF BackInPlace, Doing
<1> QED
  BY <1>7, <1>8 DEF CInv

LEMMA BackwardCInv ==
  ASSUME Inv, CInv, BackWord
  PROVE  CInv'
<1> DEFINE o == todo[1]
           to == todo[1].d
           len == todo[1].n
           w == Width
           A == d - off .. d - off + w - 1
<1>1. todo # <<>> /\ o.kind = "back" /\ w \in Nat \ {0} /\ w <= n /\ level \in Nat \ {0} /\ level <= Len(Sizes)
  BY WordWidth DEF BackWord, Doing, HasWord, Inv, TypeOK
<1>2. to \in Int /\ len \in Nat /\ 1 \in 1 .. Len(todo)
  BY <1>1, JobLeft DEF Inv, TypeOK
<1>3. n \in Nat /\ off \in Nat /\ n <= len /\ d - off = to - (len - n) /\ d \in Int
  BY <1>1 DEF Inv, CInv, TypeOK, InPlace, BackInPlace, Doing
<1>4. UNCHANGED <<call, before, todo, d>> /\ off' = off + w /\ n' = n - w
      /\ \A a \in Space \ A : mem'[a] = mem[a]
  BY DEF BackWord, Progress, Written, Inv, TypeOK
<1>5. Writes(o) = Region(to - len + 1, len + Overshoot(len) - 1) /\ Writes(o) \subseteq Reach(call)
  BY <1>1, <1>2 DEF CInv, AllWithin, Writes
<1>6. Overshoot(len) \in Nat \ {0} /\ w <= Overshoot(len)
  <2>1. w = Widths[level] /\ level \in DOMAIN Widths
    BY <1>1, SizesAre DEF Width, Sizes, Doing
  <2>2. w \in Range(Widths)
    BY <2>1 DEF Range
  <2>3. w <= len
    <3> HIDE DEF w, len
    <3> QED
      BY <1>1, <1>2, <1>3
  <2> HIDE DEF w, len
  <2> QED
    BY <1>2, <2>2, <2>3, WidestFits
<1>7. A \subseteq Reach(call)
  <2> HIDE DEF o, to, len, w
  <2>1. A \subseteq Region(to - len + 1, len + Overshoot(len) - 1)
    BY <1>1, <1>2, <1>3, <1>6 DEF Region
  <2> QED
    BY <2>1, <1>5
<1>8. AllWithin' /\ Contained' /\ Given'
  <2> HIDE DEF A
  <2> QED
    BY <1>4, <1>7, WriteCInv
<1>9. BackInPlace'
  <2>1. d' - off' = to - (len - n')
    <3> HIDE DEF o, to, len, w
    <3>1. d' = d /\ off' = off + w /\ n' = n - w
      BY <1>4
    <3> QED
      BY <1>1, <1>2, <1>3, <3>1
  <2> QED
    BY <1>4, <2>1 DEF BackInPlace
<1> QED
  BY <1>8, <1>9 DEF CInv

LEMMA NarrowCInv ==
  ASSUME Inv, CInv, Narrow
  PROVE  CInv'
<1>1. /\ UNCHANGED <<call, before, todo, mem, n>> /\ off' = 0 /\ todo # <<>>
      /\ Doing("back") => d' = d + (-off)
  BY DEF Narrow
<1>2. AllWithin' /\ Contained' /\ Given'
  BY <1>1 DEF CInv, AllWithin, Contained, Given, Writes
<1>3. BackInPlace'
  <2> SUFFICES ASSUME Doing("back") PROVE d' - off' = todo[1].d - (todo[1].n - n)
    BY <1>1 DEF BackInPlace, Doing
  <2> DEFINE x == todo[1].d - (todo[1].n - n)
  <2>1. d \in Int /\ off \in Nat /\ d - off = x
    BY DEF Inv, CInv, TypeOK, BackInPlace
  <2> HIDE DEF x
  <2>2. d' - off' = x
    BY <1>1, <2>1
  <2> QED
    BY <2>2 DEF x
<1> QED
  BY <1>2, <1>3 DEF CInv

LEMMA NextCInv == Inv /\ CInv /\ [Next]_vars => CInv'
<1> SUFFICES ASSUME Inv, CInv, [Next]_vars PROVE CInv'
  OBVIOUS
<1>1. CASE CopyWord \/ FillWord
  BY <1>1, ForwardCInv
<1>2. CASE BackWord
  BY <1>2, BackwardCInv
<1>3. CASE Narrow
  BY <1>3, NarrowCInv
<1>4. CASE todo # <<>> /\ Finish
  BY <1>4, FinishCInv
<1>5. CASE /\ UNCHANGED <<call, before, mem, todo>>
           /\ ~Doing("back") \/ UNCHANGED <<d, off, n>>
  BY <1>5 DEF CInv, Given, BackInPlace, AllWithin, Contained, Doing, Writes
<1>6. EndJob => todo # <<>> /\ Finish
  BY DEF EndJob
<1>7. CompareUnequal => todo # <<>> /\ Finish
  BY DEF CompareUnequal, Doing
<1>8. CompareEqual \/ CompareOverlooks => UNCHANGED <<call, before, mem, todo>> /\ ~Doing("back")
  BY DEF CompareEqual, CompareOverlooks, Progress, Doing
<1>9. Chr \/ Strlen => (todo # <<>> /\ Finish) \/ (UNCHANGED <<call, before, mem, todo>> /\ ~Doing("back"))
  BY DEF Chr, Strlen, Doing
<1>10. CASE UNCHANGED vars
  BY <1>5, <1>10 DEF vars, job
<1> QED
  BY <1>1, <1>2, <1>3, <1>4, <1>5, <1>6, <1>7, <1>8, <1>9, <1>10 DEF Next

LEMMA CInvariance == Spec => []CInv
<1> QED
  BY StartCInv, NextCInv, Invariance, PTL DEF Spec

\* At no moment of a call is a byte changed outside the regions it is given,
\* but for the word at most that an upward move onto itself reaches past its
\* region and the rest of the last chunk of a repeat (lv_memmove.c:14).
THEOREM WritesAreContained == Spec => []Contained
<1>1. CInv => Contained
  BY DEF CInv
<1> QED
  BY <1>1, CInvariance, PTL

-----------------------------------------------------------------------------
(* What a finished call has done.                                          *)

\* What a whole job does to a memory, when it does not go upwards onto itself.
Done(m, o) == CASE o.kind = "copy" -> Copied(m, o.d, o.s, o.n)
                [] o.kind = "fill" -> Filled(m, o.d, o.s % 256, o.n)
                [] OTHER -> m
\* The memories between the jobs of q, from m on.
Runs(m, q, ms) ==
  /\ ms \in [0 .. Len(q) -> [Space -> Bytes]] /\ ms[0] = m
  /\ \A k \in 1 .. Len(q) : ms[k] = Done(ms[k - 1], q[k])

\* The jobs left are the last of the call's, and the current one has found what
\* those before it have done.
Standing(ms) ==
  LET J == Jobs(call)
      gone == Len(J) - Len(todo)
  IN  /\ gone \in Nat /\ base = ms[gone]
      /\ \A i \in 1 .. Len(todo) : todo[i] = J[gone + i]
StepwiseExact == granted => \E ms : Runs(before, Jobs(call), ms) /\ (Promised(call) => Standing(ms))

\* A job that writes nothing leaves the memory as it was.
Untouched == todo = <<>> \/ todo[1].kind \in {"compare", "chr", "strlen"} => mem = base
Refused == ~granted => todo = <<>> /\ mem = before

DInv == Given /\ StepwiseExact /\ Untouched /\ Refused

LEMMA CopiedType ==
  ASSUME NEW m \in [Space -> Bytes], NEW to \in Int, NEW from \in Int, NEW len \in Nat,
         from .. from + len - 1 \subseteq Space
  PROVE  Copied(m, to, from, len) \in [Space -> Bytes]
<1>1. Space \subseteq Int
  BY SpaceAssumption
<1>2. \A a \in Space : a \in Region(to, len) => from + a - to \in from .. from + len - 1
  BY <1>1 DEF Region
<1> QED
  BY <1>2 DEF Copied

LEMMA FilledType ==
  ASSUME NEW m \in [Space -> Bytes], NEW to \in Int, NEW c \in Bytes, NEW len \in Nat
  PROVE  Filled(m, to, c, len) \in [Space -> Bytes]
BY DEF Filled

LEMMA DoneType ==
  ASSUME NEW m \in [Space -> Bytes], NEW o \in JobType, Reads(o)
  PROVE  Done(m, o) \in [Space -> Bytes]
<1>1. o.d \in Int /\ o.s \in Int /\ o.n \in Nat
  BY DEF JobType
<1>2. CASE o.kind = "copy"
  <2> DEFINE to == o.d
             from == o.s
             len == o.n
  <2>1. from .. from + len - 1 \subseteq Space /\ to \in Int /\ from \in Int /\ len \in Nat
    BY <1>1, <1>2 DEF Reads
  <2> HIDE DEF to, from, len
  <2>2. Copied(m, to, from, len) \in [Space -> Bytes]
    BY <2>1, CopiedType
  <2> QED
    BY <1>2, <2>2 DEF Done, to, from, len
<1>3. CASE o.kind = "fill"
  <2> DEFINE to == o.d
             c == o.s % 256
             len == o.n
  <2>1. to \in Int /\ c \in Bytes /\ len \in Nat
    BY <1>1 DEF Bytes
  <2> HIDE DEF to, c, len
  <2>2. Filled(m, to, c, len) \in [Space -> Bytes]
    BY <2>1, FilledType
  <2> QED
    BY <1>3, <2>2 DEF Done, to, c, len
<1>4. CASE o.kind \notin {"copy", "fill"}
  BY <1>4 DEF Done
<1> QED
  BY <1>2, <1>3, <1>4

LEMMA RunsExist ==
  ASSUME NEW m \in [Space -> Bytes], NEW q \in Seq(JobType), \A i \in 1 .. Len(q) : Reads(q[i])
  PROVE  \E ms : Runs(m, q, ms)
<1> DEFINE M == [Space -> Bytes]
           n0 == Len(q)
           step == [k \in 1 .. n0 |-> [a \in M |-> Done(a, q[k])]]
<1>1. n0 \in Nat /\ m \in M
  OBVIOUS
<1>2. ASSUME NEW k \in 1 .. n0, NEW a \in M PROVE step[k][a] = Done(a, q[k]) /\ step[k][a] \in M
  BY <1>2, DoneType
<1> HIDE DEF M, n0, step
<1>3. \A k \in 1 .. n0 : \A a \in M : step[k][a] \in M
  BY <1>2
<1>4. PICK f \in [0 .. n0 -> M] : Iterates(f, m, step, n0)
  BY ONLY <1>1, <1>3, Iteration
<1>5. f[0] = m /\ \A k \in 1 .. n0 : f[k] = step[k][f[k - 1]]
  BY <1>4 DEF Iterates
<1>6. ASSUME NEW k \in 1 .. n0 PROVE f[k] = Done(f[k - 1], q[k])
  <2>1. k - 1 \in 0 .. n0
    BY <1>1
  <2> QED
    BY <1>2, <1>5, <2>1
<1> QED
  BY <1>5, <1>6 DEF Runs, M, n0

-----------------------------------------------------------------------------
(* Jobs that are exact.                                                    *)

Exact == {o \in JobType : o.kind # "back" /\ (o.kind = "copy" => ~Upwards(o))}

LEMMA CopyExactly ==
  ASSUME NEW to \in Int, NEW from \in Int, NEW len \in Nat, ~(from < to /\ to < from + len)
  PROVE  Copy(to, from, len) \in Seq(Exact)
<1> DEFINE o == Job("copy", to, from, len)
<1>1. o \in JobType /\ o.kind = "copy" /\ o.d = to /\ o.s = from /\ o.n = len
  BY JobFields
<1> HIDE DEF o
<1>2. o \in Exact
  BY <1>1 DEF Exact, Upwards
<1>3. <<o>> \in Seq(Exact) /\ <<>> \in Seq(Exact)
  BY <1>2
<1> QED
  BY <1>3 DEF Copy, o

LEMMA OtherExactly ==
  ASSUME NEW kind \in {"fill", "compare", "chr", "strlen"}, NEW to \in Int, NEW from \in Int, NEW len \in Nat
  PROVE  <<Job(kind, to, from, len)>> \in Seq(Exact)
<1> DEFINE o == Job(kind, to, from, len)
<1>1. o \in JobType /\ o.kind = kind
  BY JobFields
<1> HIDE DEF o
<1>2. o \in Exact
  BY <1>1 DEF Exact
<1>3. <<o>> \in Seq(Exact)
  BY <1>2
<1> QED
  BY <1>3 DEF o

LEMMA CountType ==
  ASSUME NEW len \in Nat, NEW k \in Nat \ {0}
  PROVE  ChunkCount(len, k) \in Nat
<1>1. len + k - 1 \in Nat
  OBVIOUS
<1>2. (len + k - 1) \div k \in Nat
  BY <1>1
<1>3. len + k - 1 = (len + k) - 1
  OBVIOUS
<1> QED
  BY <1>2 DEF ChunkCount

LEMMA Quotient ==
  ASSUME NEW x \in Nat, NEW k \in Nat \ {0}, NEW i \in Nat, NEW r \in 0 .. k - 1, x = i * k + r
  PROVE  x % k = r /\ x \div k = i
<1> DEFINE q == x \div k
           t == x % k
<1>1. q \in Nat /\ t \in 0 .. k - 1 /\ x = k * q + t
  OBVIOUS
<1> HIDE DEF q, t
<1>2. k * q = q * k /\ q * k \in Nat /\ i * k \in Nat
  BY <1>1
<1>3. q <= i
  <2> SUFFICES ASSUME i + 1 <= q PROVE FALSE
    BY <1>1
  <2>1. (i + 1) * k <= q * k
    BY <1>1, TimesMonotone
  <2>2. (i + 1) * k = i * k + k
    OBVIOUS
  <2> QED
    BY <1>1, <1>2, <2>1, <2>2
<1>4. i <= q
  <2> SUFFICES ASSUME q + 1 <= i PROVE FALSE
    BY <1>1
  <2>1. (q + 1) * k <= i * k
    BY <1>1, TimesMonotone
  <2>2. (q + 1) * k = q * k + k
    BY <1>1
  <2> QED
    BY <1>1, <1>2, <2>1, <2>2
<1>5. q = i
  BY <1>1, <1>3, <1>4
<1>6. t = r
  BY <1>1, <1>2, <1>5
<1> QED
  BY <1>5, <1>6 DEF q, t

LEMMA DivisibleBack ==
  ASSUME NEW len \in Nat, NEW k \in Nat \ {0}, len % k = 0
  PROVE  (0 - len) % k = 0 /\ len = (len \div k) * k /\ len \div k \in Nat /\ ChunkCount(len, k) = len \div k
<1> DEFINE q == len \div k
           t == (0 - len) % k
           p == (0 - len) \div k
<1>1. q \in Nat /\ len = k * q
  OBVIOUS
<1>2. 0 - len \in Int
  OBVIOUS
<1>3. t \in 0 .. k - 1 /\ p \in Int /\ 0 - len = k * p + t
  BY <1>2
<1> HIDE DEF q, t, p
<1>4. k * q = q * k /\ k * p = p * k /\ q * k \in Nat /\ p * k \in Int
  BY <1>1, <1>3
<1>5. (p + q) * k = p * k + q * k
  BY <1>1, <1>3
<1> DEFINE z == p + q
<1>6. z \in Int /\ z * k + t = 0
  BY <1>1, <1>3, <1>4, <1>5
<1> HIDE DEF z
<1>7. z = 0
  <2>1. CASE z >= 1
    <3>1. 1 * k <= z * k
      BY <1>6, <2>1, TimesMonotone
    <3> QED
      BY <1>3, <1>6, <3>1
  <2>2. CASE z <= 0 - 1
    <3>1. z * k <= (0 - 1) * k
      BY <1>6, <2>2, TimesMonotone
    <3>2. (0 - 1) * k = 0 - k
      OBVIOUS
    <3>3. z * k \in Int
      BY <1>6
    <3> QED
      BY <1>3, <1>6, <3>1, <3>2, <3>3
  <2> QED
    BY <1>6, <2>1, <2>2
<1>8. t = 0
  BY <1>3, <1>6, <1>7
<1>9. ChunkCount(len, k) = q
  <2> DEFINE x == len + k - 1
  <2>1. x \in Nat /\ x = q * k + (k - 1) /\ k - 1 \in 0 .. k - 1
    BY <1>1, <1>4
  <2> HIDE DEF x
  <2>2. x \div k = q
    BY <1>1, <2>1, Quotient
  <2> QED
    BY <2>2 DEF x, ChunkCount
<1> QED
  BY <1>1, <1>4, <1>8, <1>9 DEF q, t

LEMMA BroadcastExactly ==
  ASSUME NEW to \in Int, NEW from \in Int, NEW len \in Nat, NEW k \in Nat,
         from + k <= to \/ to + len <= from, len % k = 0, k > 0
  PROVE  Broadcast(to, from, len, k) \in Seq(Exact)
<1> DEFINE C == ChunkCount(len, k)
           ss == [i \in 1 .. C |-> Copy(to + (i - 1) * k, from, k)]
<1>1. ASSUME NEW i \in 1 .. C PROVE Copy(to + (i - 1) * k, from, k) \in Seq(Exact)
  <2> DEFINE x == (i - 1) * k
  <2>1. x \in Nat /\ x + k <= len + ((0 - len) % k)
    BY ChunksCover
  <2>2. (0 - len) % k = 0
    BY DivisibleBack
  <2> HIDE DEF x
  <2>3. to + x \in Int /\ ~(from < to + x /\ to + x < from + k)
    BY <2>1, <2>2
  <2> QED
    BY <2>3, CopyExactly DEF x
<1>2. C \in Nat
  BY CountType
<1>3. ss \in Seq(Seq(Exact))
  <2> HIDE DEF C
  <2> QED
    BY <1>1, <1>2
<1>4. FlattenSeq(ss) \in Seq(Exact)
  <2> HIDE DEF ss
  <2> QED
    BY <1>3, FlattenType
<1> QED
  BY <1>4 DEF Broadcast

\* Where the call's own block or buffer lies.
SpareApart(c) ==
  /\ Spare \in Nat \ {0}
  /\ c.op = "swap" => \A p \in {c.d, c.s} : p # Null => p + c.n <= Spare \/ Spare + c.n <= p
  /\ c.op = "clone" => c.s + c.n < Spare \/ Spare + c.n <= c.s

LEMMA CasesApart ==
  ASSUME NEW c \in Cases
  PROVE  SpareApart(c.call)
BY SpareAssumption DEF SpareApart

\* What a call that promises anything does, job by job.
LEMMA CopyJobs ==
  ASSUME NEW c \in CallType, Promised(c), c.op \in {"copy", "move"}
  PROVE  /\ Jobs(c) = <<Job("copy", c.d, c.s, c.n)>>
         /\ ~(c.s < c.d /\ c.d < c.s + c.n)
<1>1. /\ c.d \in Nat /\ c.s \in Nat /\ c.n \in Nat /\ c.n > 0 /\ c.d # Null /\ c.s # Null
      /\ c.op = "copy" => Apart(c)
      /\ c.op = "move" => c.s + c.n < c.d \/ c.d < c.s
  BY DEF Promised, CallType
<1>2. ~Pointless(c.d, c.s, c.n)
  BY <1>1 DEF Pointless, Apart
<1>3. ~(c.s < c.d /\ c.d < c.s + c.n)
  BY <1>1 DEF Apart
<1>4. c.op = "move" => ~Upward(Job("move", c.d, c.s, c.n))
  BY <1>1 DEF Upward, Job
<1>5. Jobs(c) = Copy(c.d, c.s, c.n)
  BY <1>4 DEF Jobs, Move
<1> QED
  BY <1>2, <1>3, <1>5 DEF Copy

LEMMA CloneJobs ==
  ASSUME NEW c \in CallType, Promised(c), c.op = "clone", SpareApart(c)
  PROVE  /\ Jobs(c) = <<Job("copy", Spare, c.s, c.n)>>
         /\ ~(c.s < Spare /\ Spare < c.s + c.n)
<1>1. c.s \in Nat /\ c.n \in Nat /\ c.n > 0 /\ c.s # Null /\ Spare \in Nat \ {0}
      /\ (c.s + c.n < Spare \/ Spare + c.n <= c.s)
  BY DEF Promised, CallType, SpareApart
<1>2. ~Pointless(Spare, c.s, c.n)
  BY <1>1 DEF Pointless, Null
<1>3. ~(c.s < Spare /\ Spare < c.s + c.n)
  BY <1>1
<1>4. ~Upward(Job("move", Spare, c.s, c.n))
  BY <1>1 DEF Upward, Job
<1>5. Jobs(c) = Copy(Spare, c.s, c.n)
  BY <1>1, <1>4 DEF Jobs, Move
<1> QED
  BY <1>2, <1>3, <1>5 DEF Copy

LEMMA FillJobs ==
  ASSUME NEW c \in CallType, Promised(c), c.op = "fill"
  PROVE  Jobs(c) = <<Job("fill", c.d, c.k, c.n)>>
BY DEF Promised, Jobs, Fill

LEMMA TakeJobs ==
  ASSUME NEW c \in CallType, Promised(c), c.op = "take"
  PROVE  /\ Jobs(c) = <<Job("copy", c.d, c.s, c.n)>> \o <<Job("fill", c.s, 0, c.n)>>
         /\ ~(c.s < c.d /\ c.d < c.s + c.n)
<1>1. c.d \in Nat /\ c.s \in Nat /\ c.n \in Nat /\ c.n > 0 /\ c.d # Null /\ c.s # Null /\ Apart(c)
  BY DEF Promised, CallType
<1>2. ~Pointless(c.d, c.s, c.n) /\ ~(c.s < c.d /\ c.d < c.s + c.n)
  BY <1>1 DEF Pointless, Apart
<1>3. Copy(c.d, c.s, c.n) = <<Job("copy", c.d, c.s, c.n)>> /\ Fill(c.s, 0, c.n) = <<Job("fill", c.s, 0, c.n)>>
  BY <1>1, <1>2 DEF Copy, Fill
<1>4. Jobs(c) = Copy(c.d, c.s, c.n) \o Fill(c.s, 0, c.n)
  BY <1>1 DEF Jobs, Take
<1> QED
  BY <1>2, <1>3, <1>4

LEMMA SwapJobs ==
  ASSUME NEW c \in CallType, Promised(c), c.op = "swap", SpareApart(c)
  PROVE  /\ Jobs(c) = (<<Job("copy", Spare, c.d, c.n)>> \o <<Job("copy", c.d, c.s, c.n)>>)
                         \o <<Job("copy", c.s, Spare, c.n)>>
         /\ ~(c.d < Spare /\ Spare < c.d + c.n)
         /\ ~(c.s < c.d /\ c.d < c.s + c.n)
         /\ ~(Spare < c.s /\ c.s < Spare + c.n)
<1>1. c.d \in Nat /\ c.s \in Nat /\ c.n \in Nat /\ c.n > 0 /\ c.d # Null /\ c.s # Null /\ Apart(c)
      /\ Spare \in Nat \ {0}
  BY DEF Promised, CallType, SpareApart
<1>2. (c.d + c.n <= Spare \/ Spare + c.n <= c.d) /\ (c.s + c.n <= Spare \/ Spare + c.n <= c.s)
  BY <1>1 DEF SpareApart
<1>3. /\ ~(c.d < Spare /\ Spare < c.d + c.n)
      /\ ~(c.s < c.d /\ c.d < c.s + c.n)
      /\ ~(Spare < c.s /\ c.s < Spare + c.n)
  BY <1>1, <1>2 DEF Apart
<1>4. ~Pointless(Spare, c.d, c.n) /\ ~Pointless(c.d, c.s, c.n) /\ ~Pointless(c.s, Spare, c.n)
  BY <1>1, <1>2 DEF Pointless, Apart, Null
<1>5. /\ Copy(Spare, c.d, c.n) = <<Job("copy", Spare, c.d, c.n)>>
      /\ Copy(c.d, c.s, c.n) = <<Job("copy", c.d, c.s, c.n)>>
      /\ Copy(c.s, Spare, c.n) = <<Job("copy", c.s, Spare, c.n)>>
  BY <1>4 DEF Copy
<1>6. Jobs(c) = (Copy(Spare, c.d, c.n) \o Copy(c.d, c.s, c.n)) \o Copy(c.s, Spare, c.n)
  BY <1>1 DEF Jobs, Swap
<1> QED
  BY <1>3, <1>5, <1>6

LEMMA OneExact ==
  ASSUME NEW to \in Int, NEW from \in Int, NEW len \in Nat, ~(from < to /\ to < from + len)
  PROVE  <<Job("copy", to, from, len)>> \in Seq(Exact)
<1> DEFINE o == Job("copy", to, from, len)
<1>1. o \in JobType /\ o.kind = "copy" /\ o.d = to /\ o.s = from /\ o.n = len
  BY JobFields
<1> HIDE DEF o
<1>2. o \in Exact
  BY <1>1 DEF Exact, Upwards
<1> QED
  BY <1>2 DEF o

\* No call that promises anything copies upwards onto itself.
LEMMA JobsExact ==
  ASSUME NEW c \in CallType, Promised(c), SpareApart(c)
  PROVE  Jobs(c) \in Seq(Exact)
<1> DEFINE x == c.d
           y == c.s
           l == c.n
           k == c.k
<1>1. x \in Nat /\ y \in Nat /\ l \in Nat /\ k \in Nat /\ l > 0 /\ Spare \in Nat
      /\ c.op \in {"copy", "move", "fill", "swap", "take", "broadcast", "clone", "compare", "chr", "strlen"}
  BY DEF Promised, CallType, SpareApart
<1>a. \A to, from \in Int, len \in Nat : ~(from < to /\ to < from + len) => <<Job("copy", to, from, len)>> \in Seq(Exact)
  BY OneExact
<1>b. \A kind \in {"fill", "compare", "chr", "strlen"}, to, from \in Int, len \in Nat :
        <<Job(kind, to, from, len)>> \in Seq(Exact)
  BY OtherExactly
<1>c. \A p, q \in Seq(Exact) : p \o q \in Seq(Exact)
  OBVIOUS
<1>2. CASE c.op \in {"copy", "move"}
  <2>1. Jobs(c) = <<Job("copy", x, y, l)>> /\ ~(y < x /\ x < y + l)
    BY <1>2, CopyJobs
  <2> HIDE DEF x, y, l, k
  <2> QED
    BY <1>1, <1>a, <2>1
<1>3. CASE c.op = "clone"
  <2>1. Jobs(c) = <<Job("copy", Spare, y, l)>> /\ ~(y < Spare /\ Spare < y + l)
    BY <1>3, CloneJobs
  <2> HIDE DEF x, y, l, k
  <2> QED
    BY <1>1, <1>a, <2>1
<1>4. CASE c.op = "fill"
  <2>1. Jobs(c) = <<Job("fill", x, k, l)>>
    BY <1>4, FillJobs
  <2> HIDE DEF x, y, l, k
  <2> QED
    BY <1>1, <1>b, <2>1
<1>5. CASE c.op = "take"
  <2>1. Jobs(c) = <<Job("copy", x, y, l)>> \o <<Job("fill", y, 0, l)>> /\ ~(y < x /\ x < y + l)
    BY <1>5, TakeJobs
  <2> HIDE DEF x, y, l, k
  <2>2. <<Job("copy", x, y, l)>> \in Seq(Exact)
    BY <1>1, <1>a, <2>1
  <2>3. <<Job("fill", y, 0, l)>> \in Seq(Exact)
    BY <1>1, <1>b
  <2> QED
    BY <1>c, <2>1, <2>2, <2>3
<1>6. CASE c.op = "swap"
  <2>1. /\ Jobs(c) = (<<Job("copy", Spare, x, l)>> \o <<Job("copy", x, y, l)>>) \o <<Job("copy", y, Spare, l)>>
        /\ ~(x < Spare /\ Spare < x + l) /\ ~(y < x /\ x < y + l) /\ ~(Spare < y /\ y < Spare + l)
    BY <1>6, SwapJobs
  <2> HIDE DEF x, y, l, k
  <2>2. <<Job("copy", Spare, x, l)>> \in Seq(Exact)
    BY <1>1, <1>a, <2>1
  <2>3. <<Job("copy", x, y, l)>> \in Seq(Exact)
    BY <1>1, <1>a, <2>1
  <2>4. <<Job("copy", y, Spare, l)>> \in Seq(Exact)
    BY <1>1, <1>a, <2>1
  <2> QED
    BY <1>c, <2>1, <2>2, <2>3, <2>4
<1>7. CASE c.op = "broadcast"
  <2>1. Jobs(c) = Broadcast(x, y, l, k) /\ k > 0 /\ l % k = 0 /\ (y + k <= x \/ x + l <= y)
    BY <1>1, <1>7 DEF Jobs, Promised
  <2> HIDE DEF x, y, l, k
  <2> QED
    BY <1>1, <2>1, BroadcastExactly
<1>8. CASE c.op = "compare"
  <2>1. Jobs(c) \in {<<>>, <<Job("compare", x, y, l)>>}
    BY <1>8 DEF Jobs, Compare
  <2> HIDE DEF x, y, l, k
  <2>2. <<Job("compare", x, y, l)>> \in Seq(Exact) /\ <<>> \in Seq(Exact)
    BY <1>1, <1>b
  <2> QED
    BY <2>1, <2>2
<1>9. CASE c.op = "chr"
  <2>1. Jobs(c) = <<Job("chr", x, k, l)>>
    BY <1>9 DEF Jobs
  <2> HIDE DEF x, y, l, k
  <2> QED
    BY <1>1, <1>b, <2>1
<1>10. CASE c.op = "strlen"
  <2>1. Jobs(c) \in {<<>>, <<Job("strlen", x, 0, 0)>>}
    BY <1>10 DEF Jobs
  <2> HIDE DEF x, y, l, k
  <2>2. <<Job("strlen", x, 0, 0)>> \in Seq(Exact) /\ <<>> \in Seq(Exact)
    BY <1>1, <1>b
  <2> QED
    BY <2>1, <2>2
<1> QED
  BY <1>1, <1>2, <1>3, <1>4, <1>5, <1>6, <1>7, <1>8, <1>9, <1>10

-----------------------------------------------------------------------------
(* The calls, job by job.                                                  *)

LEMMA StartDInv == Init => DInv
<1> SUFFICES ASSUME Init PROVE DInv
  OBVIOUS
<1>1. PICK c \in Cases :
        /\ call = c.call /\ before = c.mem /\ mem = c.mem /\ base = c.mem
        /\ todo = (IF granted THEN Jobs(c.call) ELSE <<>>)
  BY DEF Init
<1>2. /\ c.mem \in [Space -> Bytes] /\ Jobs(c.call) \in Seq(JobType)
      /\ \A i \in DOMAIN Jobs(c.call) : Reads(Jobs(c.call)[i])
  BY CaseAssumption
<1>3. PICK ms : Runs(c.mem, Jobs(c.call), ms)
  BY <1>2, RunsExist
<1>4. ASSUME granted PROVE Standing(ms)
  <2> DEFINE J == Jobs(c.call)
  <2>1. todo = J /\ Jobs(call) = J /\ J \in Seq(JobType) /\ base = ms[0]
    BY <1>1, <1>2, <1>3, <1>4 DEF Runs
  <2> HIDE DEF J
  <2>2. Len(J) - Len(todo) = 0
    BY <2>1
  <2>3. \A i \in 1 .. Len(todo) : todo[i] = J[0 + i]
    BY <2>1
  <2> QED
    BY <2>1, <2>2, <2>3 DEF Standing
<1>5. StepwiseExact
  BY <1>1, <1>3, <1>4 DEF StepwiseExact
<1> QED
  BY <1>1, <1>5 DEF DInv, Given, Untouched, Refused

\* The end of a job, when it has done to memory what it stands for.
LEMMA FinishDInv ==
  ASSUME Inv, DInv, todo # <<>>, Finish, Promised(call) => mem = Done(base, todo[1])
  PROVE  DInv'
<1>1. /\ Tail(todo) \in Seq(JobType) /\ Len(Tail(todo)) = Len(todo) - 1 /\ Len(todo) \in Nat /\ Len(todo) > 0
      /\ \A i \in 1 .. Len(todo) - 1 : Tail(todo)[i] = todo[i + 1]
  BY JobLeft DEF Inv, TypeOK
<1>2. UNCHANGED <<call, granted, before, mem>> /\ todo' = Tail(todo) /\ base' = mem
  BY DEF Finish
<1>3. granted
  BY DEF DInv, Refused
<1>4. PICK ms : Runs(before, Jobs(call), ms) /\ (Promised(call) => Standing(ms))
  BY <1>3 DEF DInv, StepwiseExact
<1>5. Jobs(call) \in Seq(JobType)
  BY CaseAssumption DEF DInv, Given
<1>6. ASSUME Promised(call) PROVE Standing(ms)'
  <2> DEFINE J == Jobs(call)
             g == Len(J) - Len(todo)
  <2>1. g \in Nat /\ base = ms[g] /\ \A i \in 1 .. Len(todo) : todo[i] = J[g + i]
    BY <1>4, <1>6 DEF Standing
  <2>2. J \in Seq(JobType) /\ Len(J) \in Nat /\ g = Len(J) - Len(todo) /\ Runs(before, J, ms) /\ J' = J
    BY <1>2, <1>4, <1>5
  <2> HIDE DEF J, g
  <2>3. g + 1 \in 1 .. Len(J) /\ (g + 1) - 1 = g /\ 1 \in 1 .. Len(todo)
    BY <1>1, <2>1, <2>2
  <2>4. ms[g + 1] = Done(base, todo[1])
    BY <2>1, <2>2, <2>3 DEF Runs
  <2>5. Len(J) - Len(todo') = g + 1
    BY <1>1, <1>2, <2>1, <2>2
  <2>6. base' = ms[g + 1]
    BY <1>2, <1>6, <2>4
  <2>7. ASSUME NEW i \in 1 .. Len(todo') PROVE todo'[i] = J[(g + 1) + i]
    <3>1. i \in 1 .. Len(todo) - 1 /\ i + 1 \in 1 .. Len(todo) /\ g + (i + 1) = (g + 1) + i
      BY <1>1, <1>2, <2>1
    <3>2. todo'[i] = todo[i + 1]
      BY <1>1, <1>2, <3>1
    <3> QED
      BY <2>1, <3>1, <3>2
  <2>8. g + 1 \in Nat
    BY <2>1
  <2> QED
    BY <2>2, <2>5, <2>6, <2>7, <2>8 DEF Standing, J
<1>7. StepwiseExact'
  BY <1>2, <1>4, <1>6 DEF StepwiseExact, Promised
<1> QED
  BY <1>2, <1>3, <1>7 DEF DInv, Given, Untouched, Refused

\* The current job of a call that promises anything is exact.
LEMMA CurrentExact ==
  ASSUME Inv, DInv, todo # <<>>, Promised(call)
  PROVE  todo[1] \in Exact
<1>1. PICK c \in Cases : call = c.call
  BY DEF DInv, Given
<1>2. call \in CallType /\ SpareApart(call)
  BY <1>1, CaseAssumption, CasesApart
<1>3. Jobs(call) \in Seq(Exact)
  BY <1>2, JobsExact
<1>4. granted
  BY DEF DInv, Refused
<1>5. PICK ms : Standing(ms)
  BY <1>4 DEF DInv, StepwiseExact
<1> DEFINE J == Jobs(call)
           g == Len(J) - Len(todo)
<1>6. g \in Nat /\ \A i \in 1 .. Len(todo) : todo[i] = J[g + i]
  BY <1>5 DEF Standing
<1>7. J \in Seq(Exact) /\ g = Len(J) - Len(todo) /\ Len(todo) \in Nat /\ Len(todo) > 0
  BY <1>3 DEF Inv, TypeOK
<1> HIDE DEF J, g
<1>8. 1 \in 1 .. Len(todo) /\ g + 1 \in 1 .. Len(J)
  BY <1>6, <1>7
<1> QED
  BY <1>6, <1>7, <1>8

LEMMA EndJobDInv ==
  ASSUME Inv, DInv, EndJob
  PROVE  DInv'
<1>1. todo # <<>> /\ level > Len(Sizes) /\ Finish
  BY DEF EndJob
<1>2. ASSUME Promised(call) PROVE mem = Done(base, todo[1])
  <2>1. todo[1] \in Exact /\ todo[1] \in JobType
    BY <1>1, <1>2, CurrentExact DEF Exact
  <2>2. todo[1].n \in Nat /\ todo[1].n - 0 = todo[1].n
    BY <2>1 DEF JobType
  <2>3. CASE todo[1].kind = "copy"
    <3>1. ~Upwards(todo[1]) /\ Doing("copy")
      BY <1>1, <2>1, <2>3 DEF Exact, Doing
    <3>2. mem = Copied(base, todo[1].d, todo[1].s, todo[1].n - n) /\ n = 0
      BY <1>1, <3>1 DEF Inv, PrefixExact
    <3> QED
      BY <2>2, <2>3, <3>2 DEF Done
  <2>4. CASE todo[1].kind = "fill"
    <3>1. Doing("fill")
      BY <1>1, <2>4 DEF Doing
    <3>2. mem = Filled(base, todo[1].d, todo[1].s % 256, todo[1].n - n) /\ n = 0
      BY <1>1, <3>1 DEF Inv, PrefixExact
    <3> QED
      BY <2>2, <2>4, <3>2 DEF Done
  <2>5. CASE todo[1].kind \in {"compare", "chr", "strlen"}
    BY <2>5 DEF DInv, Untouched, Done
  <2> QED
    BY <2>1, <2>3, <2>4, <2>5 DEF Exact, JobType
<1> QED
  BY <1>1, <1>2, FinishDInv

\* A step within a job.
LEMMA WithinDInv ==
  ASSUME DInv, UNCHANGED <<call, granted, before, todo, base>>, todo # <<>>,
         todo[1].kind \in {"copy", "fill", "back"} \/ mem' = mem
  PROVE  DInv'
<1>1. Given' /\ Refused' /\ Untouched'
  BY DEF DInv, Given, Refused, Untouched
<1>2. ASSUME NEW ms PROVE Standing(ms)' <=> Standing(ms)
  BY DEF Standing
<1>3. StepwiseExact'
  BY <1>2 DEF DInv, StepwiseExact, Promised
<1> QED
  BY <1>1, <1>3 DEF DInv

LEMMA NextDInv == Inv /\ DInv /\ [Next]_vars => DInv'
<1> SUFFICES ASSUME Inv, DInv, [Next]_vars PROVE DInv'
  OBVIOUS
<1>1. CASE CopyWord \/ FillWord \/ BackWord
  BY <1>1, WithinDInv DEF CopyWord, FillWord, BackWord, Progress, Doing
<1>2. CASE EndJob
  BY <1>2, EndJobDInv
<1>3. CASE Narrow
  BY <1>3, WithinDInv DEF Narrow
<1>4. CASE CompareEqual \/ CompareOverlooks
  BY <1>4, WithinDInv DEF CompareEqual, CompareOverlooks, Progress, Doing
<1>5. CASE todo # <<>> /\ todo[1].kind \in {"compare", "chr", "strlen"} /\ Finish
  <2>1. mem = base /\ Done(base, todo[1]) = base
    BY <1>5 DEF DInv, Untouched, Done
  <2> QED
    BY <1>5, <2>1, FinishDInv
<1>6. CASE CompareUnequal
  BY <1>5, <1>6 DEF CompareUnequal, Doing
<1>7. CASE Chr \/ Strlen
  <2>1. todo # <<>> /\ todo[1].kind \in {"compare", "chr", "strlen"}
    BY <1>7 DEF Chr, Strlen, Doing
  <2>2. Finish \/ UNCHANGED <<call, granted, before, todo, base, mem>>
    BY <1>7 DEF Chr, Strlen
  <2> QED
    BY <1>5, <2>1, <2>2, WithinDInv
<1>8. CASE UNCHANGED vars
  <2>1. UNCHANGED <<call, granted, before, todo, base, mem>>
    BY <1>8 DEF vars
  <2>2. CASE todo = <<>>
    <3>1. Given' /\ Refused' /\ Untouched'
      BY <2>1 DEF DInv, Given, Refused, Untouched
    <3>2. ASSUME NEW ms PROVE Standing(ms)' <=> Standing(ms)
      BY <2>1 DEF Standing
    <3>3. StepwiseExact'
      BY <2>1, <3>2 DEF DInv, StepwiseExact, Promised
    <3> QED
      BY <3>1, <3>3 DEF DInv
  <2> QED
    BY <2>1, <2>2, WithinDInv
<1> QED
  BY <1>1, <1>2, <1>3, <1>4, <1>6, <1>7, <1>8 DEF Next

LEMMA DInvariance == Spec => []DInv
<1> QED
  BY StartDInv, NextDInv, Invariance, PTL DEF Spec

-----------------------------------------------------------------------------
(* What the jobs of a call come to.                                        *)

\* The jobs of q turn m into m2.
Leads(m, q, m2) == \E ms : Runs(m, q, ms) /\ ms[Len(q)] = m2

LEMMA LeadsNowhere ==
  ASSUME NEW m, NEW m2, Leads(m, <<>>, m2)
  PROVE  m2 = m
BY DEF Leads, Runs

LEMMA LeadsOn ==
  ASSUME NEW m, NEW m2, NEW q \in Seq(JobType), NEW o \in JobType, Leads(m, q \o <<o>>, m2)
  PROVE  \E m1 \in [Space -> Bytes] : Leads(m, q, m1) /\ m2 = Done(m1, o)
<1> DEFINE r == q \o <<o>>
           n0 == Len(q)
<1>1. r \in Seq(JobType) /\ Len(r) = n0 + 1 /\ n0 \in Nat /\ r[n0 + 1] = o
      /\ \A k \in 1 .. n0 : r[k] = q[k]
  <2>1. <<o>> \in Seq(JobType) /\ Len(<<o>>) = 1 /\ <<o>>[1] = o
    OBVIOUS
  <2> QED
    BY <2>1, ConcatProperties
<1>2. PICK ms : Runs(m, r, ms) /\ ms[Len(r)] = m2
  BY DEF Leads
<1> HIDE DEF r, n0
<1> DEFINE m0 == [k \in 0 .. n0 |-> ms[k]]
<1>3. ms \in [0 .. n0 + 1 -> [Space -> Bytes]] /\ ms[0] = m /\ \A k \in 1 .. n0 + 1 : ms[k] = Done(ms[k - 1], r[k])
  BY <1>1, <1>2 DEF Runs
<1>4. \A k \in 0 .. n0 : k \in 0 .. n0 + 1 /\ m0[k] = ms[k]
  BY <1>1
<1>5. m0 \in [0 .. n0 -> [Space -> Bytes]]
  BY <1>1, <1>3
<1> HIDE DEF m0
<1>6. ASSUME NEW k \in 1 .. n0 PROVE m0[k] = Done(m0[k - 1], q[k])
  <2>1. k - 1 \in 0 .. n0 /\ k \in 0 .. n0 /\ k \in 1 .. n0 + 1
    BY <1>1
  <2> QED
    BY <1>1, <1>3, <1>4, <2>1
<1>7. m0[0] = m
  BY <1>1, <1>3, <1>4
<1>8. Runs(m, q, m0)
  BY <1>5, <1>6, <1>7 DEF Runs, n0
<1>9. m0[n0] \in [Space -> Bytes] /\ m2 = Done(m0[n0], o)
  <2>1. n0 \in 0 .. n0 /\ n0 + 1 \in 1 .. n0 + 1 /\ (n0 + 1) - 1 = n0
    BY <1>1
  <2>2. ms[n0 + 1] = Done(ms[n0], r[n0 + 1])
    BY <1>3, <2>1
  <2> QED
    BY <1>1, <1>2, <1>4, <1>5, <2>1, <2>2
<1> QED
  BY <1>8, <1>9 DEF Leads, n0

LEMMA LeadsOne ==
  ASSUME NEW m, NEW m2, NEW o \in JobType, Leads(m, <<o>>, m2)
  PROVE  m2 = Done(m, o)
<1> DEFINE r == <<o>>
<1>1. Len(r) = 1 /\ r[1] = o
  OBVIOUS
<1>2. PICK ms : Runs(m, r, ms) /\ ms[Len(r)] = m2
  BY DEF Leads
<1> HIDE DEF r
<1>3. ms[0] = m /\ ms[1] = Done(ms[0], r[1]) /\ ms[1] = m2
  <2>1. 1 \in 1 .. Len(r) /\ 1 - 1 = 0
    BY <1>1
  <2>2. ms[1] = Done(ms[1 - 1], r[1])
    BY <1>2, <2>1 DEF Runs
  <2> QED
    BY <1>1, <1>2, <2>1, <2>2 DEF Runs
<1> QED
  BY ONLY <1>1, <1>3

LEMMA LeadsTwo ==
  ASSUME NEW m, NEW m2, NEW o \in JobType, NEW o2 \in JobType, Leads(m, <<o>> \o <<o2>>, m2)
  PROVE  m2 = Done(Done(m, o), o2)
<1>1. <<o>> \in Seq(JobType)
  OBVIOUS
<1>2. PICK m1 \in [Space -> Bytes] : Leads(m, <<o>>, m1) /\ m2 = Done(m1, o2)
  <2> DEFINE q == <<o>>
  <2>1. q \in Seq(JobType) /\ Leads(m, q \o <<o2>>, m2)
    BY <1>1
  <2> HIDE DEF q
  <2>2. \E m1 \in [Space -> Bytes] : Leads(m, q, m1) /\ m2 = Done(m1, o2)
    BY <2>1, LeadsOn
  <2> QED
    BY <2>2 DEF q
<1> QED
  BY <1>2, LeadsOne

LEMMA LeadsThree ==
  ASSUME NEW m, NEW m2, NEW o \in JobType, NEW o2 \in JobType, NEW o3 \in JobType,
         Leads(m, (<<o>> \o <<o2>>) \o <<o3>>, m2)
  PROVE  m2 = Done(Done(Done(m, o), o2), o3)
<1>1. <<o>> \o <<o2>> \in Seq(JobType)
  OBVIOUS
<1>2. PICK m1 \in [Space -> Bytes] : Leads(m, <<o>> \o <<o2>>, m1) /\ m2 = Done(m1, o3)
  <2> DEFINE q == <<o>> \o <<o2>>
  <2>1. q \in Seq(JobType) /\ Leads(m, q \o <<o3>>, m2)
    BY <1>1
  <2> HIDE DEF q
  <2>2. \E m1 \in [Space -> Bytes] : Leads(m, q, m1) /\ m2 = Done(m1, o3)
    BY <2>1, LeadsOn
  <2> QED
    BY <2>2 DEF q
<1> QED
  BY <1>2, LeadsTwo

LEMMA DoneIs ==
  ASSUME NEW m, NEW to \in Int, NEW from \in Int, NEW len \in Nat
  PROVE  /\ Done(m, Job("copy", to, from, len)) = Copied(m, to, from, len)
         /\ Done(m, Job("fill", to, from, len)) = Filled(m, to, from % 256, len)
BY DEF Done, Job

-----------------------------------------------------------------------------
(* A chunk repeated.                                                       *)

Chunk(to, from, k, i) == Copy(to + (i - 1) * k, from, k)
Chunks(to, from, k, i) == FlattenSeq([j \in 1 .. i |-> Chunk(to, from, k, j)])
Repeated(m, to, from, k, len) ==
  [a \in Space |-> IF a \in Region(to, len) THEN m[from + ((a - to) % k)] ELSE m[a]]

LEMMA ChunkJob ==
  ASSUME NEW to \in Nat, NEW from \in Nat, to # Null, from # Null, NEW k \in Nat \ {0}, NEW i \in Nat \ {0},
         from + k <= to \/ to + i * k <= from
  PROVE  /\ i * k = (i - 1) * k + k /\ (i - 1) * k \in Nat
         /\ to + (i - 1) * k \in Nat
         /\ Chunk(to, from, k, i) = <<Job("copy", to + (i - 1) * k, from, k)>>
<1> DEFINE x == (i - 1) * k
<1>1. x \in Nat /\ i * k = x + k
  <2>1. i - 1 \in Nat
    OBVIOUS
  <2>2. (i - 1) * k \in Nat
    BY <2>1
  <2>3. i * k = ((i - 1) + 1) * k
    OBVIOUS
  <2>4. ((i - 1) + 1) * k = (i - 1) * k + k
    BY <2>1
  <2> QED
    BY <2>2, <2>3, <2>4
<1> HIDE DEF x
<1>2. ~Pointless(to + x, from, k) /\ to + x \in Nat
  BY <1>1 DEF Pointless, Null
<1> QED
  BY <1>1, <1>2 DEF Chunk, Copy, x

LEMMA ChunkType ==
  ASSUME NEW to \in Int, NEW from \in Int, NEW k \in Nat, NEW i \in Int
  PROVE  Chunk(to, from, k, i) \in Seq(JobType)
<1> DEFINE x == to + (i - 1) * k
<1>1. x \in Int
  OBVIOUS
<1> HIDE DEF x
<1>2. Job("copy", x, from, k) \in JobType
  BY <1>1, JobFields
<1>3. <<Job("copy", x, from, k)>> \in Seq(JobType) /\ <<>> \in Seq(JobType)
  BY <1>2
<1> QED
  BY <1>3 DEF Chunk, Copy, x

LEMMA ChunksStep ==
  ASSUME NEW to \in Int, NEW from \in Int, NEW k \in Nat, NEW i \in Nat
  PROVE  /\ Chunks(to, from, k, i) \in Seq(JobType)
         /\ Chunks(to, from, k, i + 1) = Chunks(to, from, k, i) \o Chunk(to, from, k, i + 1)
         /\ Chunks(to, from, k, 0) = <<>>
<1> DEFINE ss == [j \in 1 .. i |-> Chunk(to, from, k, j)]
           tt == [j \in 1 .. i + 1 |-> Chunk(to, from, k, j)]
           x == Chunk(to, from, k, i + 1)
<1>1. \A j \in Nat : Chunk(to, from, k, j) \in Seq(JobType)
  BY ChunkType
<1>2. ss \in Seq(Seq(JobType)) /\ Len(ss) = i
  BY <1>1
<1>3. tt = Append(ss, x)
  <2>1. x \in Seq(JobType)
    BY <1>1
  <2> HIDE DEF x
  <2>2. Append(ss, x) = [j \in 1 .. i + 1 |-> IF j <= i THEN ss[j] ELSE x]
    BY <1>2
  <2>3. \A j \in 1 .. i + 1 : Chunk(to, from, k, j) = (IF j <= i THEN ss[j] ELSE x)
    BY DEF x
  <2> QED
    BY <2>2, <2>3
<1>4. x \in Seq(JobType)
  BY <1>1
<1> HIDE DEF ss, tt, x
<1>5. FlattenSeq(Append(ss, x)) = FlattenSeq(ss) \o x /\ FlattenSeq(ss) \in Seq(JobType)
  BY <1>2, <1>4, FlattenAppend, FlattenType
<1>6. [j \in 1 .. 0 |-> Chunk(to, from, k, j)] = <<>>
  OBVIOUS
<1> QED
  BY <1>3, <1>5, <1>6, FlattenEmpty DEF Chunks, ss, tt, x

\* len bytes from to on can be made copies of the chunk of k bytes at from.
Repeatable(m, to, from, k, len) ==
  /\ m \in [Space -> Bytes] /\ to \in Nat \ {Null} /\ from \in Nat \ {Null} /\ k \in Nat \ {0}
  /\ Region(from, k) \subseteq Space
  /\ from + k <= to \/ to + len <= from

LEMMA RepeatedGrows ==
  ASSUME NEW m, NEW to, NEW from, NEW k, NEW i \in Nat, NEW x \in Nat, x = i * k,
         Repeatable(m, to, from, k, x + k)
  PROVE  Copied(Repeated(m, to, from, k, x), to + x, from, k) = Repeated(m, to, from, k, x + k)
<1> DEFINE m1 == Repeated(m, to, from, k, x)
<1>0. /\ m \in [Space -> Bytes] /\ to \in Nat /\ from \in Nat /\ k \in Nat \ {0}
      /\ Region(from, k) \subseteq Space
      /\ from + k <= to \/ to + (x + k) <= from
  BY DEF Repeatable
<1>1. DOMAIN m1 = Space /\ Space \subseteq Int
  BY SpaceAssumption DEF Repeated
<1>2. \A a \in Space : m1[a] = IF a \in Region(to, x) THEN m[from + ((a - to) % k)] ELSE m[a]
  BY DEF Repeated
<1> HIDE DEF m1
<1>3. ASSUME NEW a \in Space, a \in Region(to + x, k)
      PROVE  m1[from + a - (to + x)] = m[from + ((a - to) % k)]
  <2> DEFINE y == a - to
             t == a - (to + x)
             b == from + a - (to + x)
  <2>1. a \in Int /\ y \in Nat /\ t \in 0 .. k - 1 /\ y = x + t /\ b = from + t
    BY <1>0, <1>1, <1>3 DEF Region
  <2> HIDE DEF y, t, b
  <2>2. y % k = t
    BY <1>0, <2>1, Quotient
  <2>3. b \in Region(from, k) /\ b \notin Region(to, x)
    BY <1>0, <2>1 DEF Region
  <2>4. m1[b] = m[b]
    BY <1>0, <1>2, <2>3
  <2> QED
    BY <2>1, <2>2, <2>4 DEF y, b
<1>4. ASSUME NEW a \in Space
      PROVE  (IF a \in Region(to + x, k) THEN m1[from + a - (to + x)] ELSE m1[a]) =
             (IF a \in Region(to, x + k) THEN m[from + ((a - to) % k)] ELSE m[a])
  <2>1. a \in Int
    BY <1>1
  <2>2. a \in Region(to, x + k) <=> a \in Region(to, x) \/ a \in Region(to + x, k)
    BY <1>0, <2>1 DEF Region
  <2>3. CASE a \in Region(to + x, k)
    BY <1>3, <2>2, <2>3
  <2>4. CASE a \notin Region(to + x, k)
    BY <1>2, <2>2, <2>4
  <2> QED
    BY <2>3, <2>4
<1>5. Copied(m1, to + x, from, k) = [a \in Space |-> IF a \in Region(to + x, k) THEN m1[from + a - (to + x)] ELSE m1[a]]
  BY <1>1 DEF Copied
<1>6. Repeated(m, to, from, k, x + k) = [a \in Space |-> IF a \in Region(to, x + k) THEN m[from + ((a - to) % k)] ELSE m[a]]
  BY DEF Repeated
<1>7. Copied(m1, to + x, from, k) = Repeated(m, to, from, k, x + k)
  BY <1>4, <1>5, <1>6
<1> QED
  BY <1>7 DEF m1

LEMMA RepeatStep ==
  ASSUME NEW m, NEW to, NEW from, NEW k, NEW i \in Nat, Repeatable(m, to, from, k, (i + 1) * k),
         NEW m1, NEW m2, m1 = Repeated(m, to, from, k, i * k), m2 = Done(m1, Job("copy", to + i * k, from, k))
  PROVE  m2 = Repeated(m, to, from, k, (i + 1) * k)
<1> DEFINE x == i * k
<1>1. to \in Nat /\ from \in Nat /\ k \in Nat
  BY DEF Repeatable
<1>2. x = i * k /\ x \in Nat /\ (i + 1) * k = x + k
  BY <1>1
<1>3. m1 = Repeated(m, to, from, k, x) /\ m2 = Done(m1, Job("copy", to + x, from, k))
  OBVIOUS
<1>4. Repeatable(m, to, from, k, x + k)
  BY <1>2
<1> HIDE DEF x
<1>5. m2 = Copied(m1, to + x, from, k)
  <2>1. to + x \in Int /\ from \in Int
    BY <1>1, <1>2
  <2> QED
    BY <1>1, <1>3, <2>1, DoneIs
<1>6. Copied(Repeated(m, to, from, k, x), to + x, from, k) = Repeated(m, to, from, k, x + k)
  BY <1>2, <1>4, RepeatedGrows
<1> QED
  BY <1>2, <1>3, <1>5, <1>6

LEMMA ChunksLead ==
  ASSUME NEW m, NEW to, NEW from, NEW k, NEW i \in Nat, Repeatable(m, to, from, k, (i + 1) * k),
         NEW m2, Leads(m, Chunks(to, from, k, i + 1), m2)
  PROVE  /\ Repeatable(m, to, from, k, i * k)
         /\ \E m1 : Leads(m, Chunks(to, from, k, i), m1) /\ m2 = Done(m1, Job("copy", to + i * k, from, k))
<1> DEFINE j == i + 1
           q == Chunks(to, from, k, i)
           o == Job("copy", to + i * k, from, k)
<1>0. to \in Nat /\ from \in Nat /\ to # Null /\ from # Null /\ k \in Nat \ {0}
  BY DEF Repeatable
<1>1. j \in Nat \ {0} /\ j - 1 = i /\ (from + k <= to \/ to + j * k <= from)
  BY DEF Repeatable
<1>2. q \in Seq(JobType) /\ Chunks(to, from, k, i + 1) = q \o Chunk(to, from, k, i + 1)
  <2>1. to \in Int /\ from \in Int /\ k \in Nat /\ i \in Nat
    BY <1>0
  <2> QED
    BY <2>1, ChunksStep
<1> HIDE DEF j, q
<1>3. /\ j * k = (j - 1) * k + k /\ (j - 1) * k \in Nat /\ to + (j - 1) * k \in Nat
      /\ Chunk(to, from, k, j) = <<Job("copy", to + (j - 1) * k, from, k)>>
  BY ONLY <1>0, <1>1, ChunkJob
<1>4. i * k \in Nat /\ to + i * k \in Int /\ j * k = i * k + k /\ Chunk(to, from, k, i + 1) = <<o>>
  BY <1>0, <1>1, <1>3 DEF j
<1>5. o \in JobType
  BY <1>0, <1>4, JobFields
<1> HIDE DEF o
<1>6. \E m1 \in [Space -> Bytes] : Leads(m, q, m1) /\ m2 = Done(m1, o)
  <2>1. Leads(m, q \o <<o>>, m2)
    BY <1>2, <1>4
  <2> QED
    BY <1>2, <1>5, <2>1, LeadsOn
<1>7. Repeatable(m, to, from, k, i * k)
  <2> DEFINE x == i * k
  <2>1. x \in Nat /\ (from + k <= to \/ to + (x + k) <= from)
    BY <1>1, <1>4
  <2> HIDE DEF x
  <2>2. from + k <= to \/ to + x <= from
    BY <1>0, <2>1
  <2> QED
    BY <2>2 DEF x, Repeatable
<1> QED
  BY <1>6, <1>7 DEF q, o

LEMMA ChunksRepeat ==
  ASSUME NEW m, NEW to, NEW from, NEW k
  PROVE  \A i \in Nat : Repeatable(m, to, from, k, i * k) =>
           \A m2 : Leads(m, Chunks(to, from, k, i), m2) => m2 = Repeated(m, to, from, k, i * k)
<1> DEFINE P(i) == Repeatable(m, to, from, k, i * k) =>
                     \A m2 : Leads(m, Chunks(to, from, k, i), m2) => m2 = Repeated(m, to, from, k, i * k)
           T == {i \in Nat : P(i)}
<1>1. 0 \in T
  <2> SUFFICES ASSUME Repeatable(m, to, from, k, 0 * k), NEW m2, Leads(m, Chunks(to, from, k, 0), m2)
               PROVE  m2 = Repeated(m, to, from, k, 0 * k)
    OBVIOUS
  <2>0. k \in Nat /\ m \in [Space -> Bytes] /\ to \in Int /\ from \in Int
    BY DEF Repeatable
  <2>1. Chunks(to, from, k, 0) = <<>> /\ 0 * k = 0
    BY <2>0, ChunksStep
  <2>2. Repeated(m, to, from, k, 0) = m
    <3>1. Region(to, 0) = {}
      BY <2>0 DEF Region
    <3> QED
      BY <2>0, <3>1 DEF Repeated
  <2>3. m2 = m
    BY <2>1, LeadsNowhere
  <2> QED
    BY <2>1, <2>2, <2>3
<1>2. ASSUME NEW i \in Nat, i \in T PROVE i + 1 \in T
  <2> SUFFICES ASSUME Repeatable(m, to, from, k, (i + 1) * k), NEW m2, Leads(m, Chunks(to, from, k, i + 1), m2)
               PROVE  m2 = Repeated(m, to, from, k, (i + 1) * k)
    OBVIOUS
  <2>1. P(i)
    BY <1>2
  <2>2. /\ Repeatable(m, to, from, k, i * k)
        /\ \E m1 : Leads(m, Chunks(to, from, k, i), m1) /\ m2 = Done(m1, Job("copy", to + i * k, from, k))
    <3> HIDE DEF P, T
    <3> QED
      BY ChunksLead
  <2>3. PICK m1 : Leads(m, Chunks(to, from, k, i), m1) /\ m2 = Done(m1, Job("copy", to + i * k, from, k))
    BY <2>2
  <2>4. m1 = Repeated(m, to, from, k, i * k)
    BY <2>1, <2>2, <2>3
  <2> HIDE DEF P, T
  <2> QED
    BY <2>3, <2>4, RepeatStep
<1>3. Nat \subseteq T
  <2> HIDE DEF T
  <2> QED
    BY <1>1, <1>2, SetInduction
<1> QED
  BY <1>3

-----------------------------------------------------------------------------
(* The whole call.                                                         *)

LEMMA BroadcastLeads ==
  ASSUME NEW to \in Nat, NEW from \in Nat, to # Null, from # Null, NEW len \in Nat, len > 0,
         NEW k \in Nat \ {0}, len % k = 0, from + k <= to \/ to + len <= from,
         NEW m \in [Space -> Bytes], NEW m2, Leads(m, Broadcast(to, from, len, k), m2),
         \A i \in DOMAIN Broadcast(to, from, len, k) : Reads(Broadcast(to, from, len, k)[i])
  PROVE  m2 = Repeated(m, to, from, k, len)
<1> DEFINE C == len \div k
           B == Broadcast(to, from, len, k)
<1>1. C \in Nat /\ len = C * k /\ ChunkCount(len, k) = C
  BY DivisibleBack
<1>2. B = Chunks(to, from, k, C)
  BY <1>1 DEF Broadcast, Chunks, Chunk
<1>3. C # 0
  BY <1>1
<1>a. \A i \in DOMAIN B : Reads(B[i])
  OBVIOUS
<1> HIDE DEF C, B
<1>4. PICK i \in Nat : C = i + 1
  <2>1. C - 1 \in Nat /\ C = (C - 1) + 1
    BY <1>1, <1>3
  <2> QED
    BY <2>1
<1> DEFINE q == Chunks(to, from, k, i)
           x == (C - 1) * k
           o == Job("copy", to + x, from, k)
<1>5. q \in Seq(JobType) /\ B = q \o Chunk(to, from, k, C)
  <2>1. to \in Int /\ from \in Int /\ k \in Nat /\ i \in Nat
    OBVIOUS
  <2>2. Chunks(to, from, k, i + 1) = q \o Chunk(to, from, k, i + 1) /\ q \in Seq(JobType)
    BY ONLY <2>1, ChunksStep
  <2> QED
    BY <1>2, <1>4, <2>2
<1>6. to + x \in Nat /\ Chunk(to, from, k, C) = <<o>>
  <2>1. C \in Nat \ {0} /\ (from + k <= to \/ to + C * k <= from)
    BY <1>1, <1>3
  <2>2. to + (C - 1) * k \in Nat /\ Chunk(to, from, k, C) = <<Job("copy", to + (C - 1) * k, from, k)>>
    BY <2>1, ChunkJob
  <2> QED
    BY <2>2
<1> HIDE DEF x, q
<1>7. o \in JobType /\ o.kind = "copy" /\ o.s = from /\ o.n = k
  <2>1. to + x \in Int /\ from \in Int /\ k \in Nat
    BY <1>6
  <2> QED
    BY ONLY <2>1, JobFields
<1> HIDE DEF o
<1>8. Len(q) + 1 \in DOMAIN B /\ B[Len(q) + 1] = o
  <2>1. <<o>> \in Seq(JobType) /\ Len(<<o>>) = 1 /\ <<o>>[1] = o
    BY <1>7
  <2>2. q \o <<o>> \in Seq(JobType) /\ Len(q \o <<o>>) = Len(q) + 1 /\ (q \o <<o>>)[Len(q) + 1] = o /\ Len(q) \in Nat
    BY <1>5, <2>1, ConcatProperties
  <2>3. B = q \o <<o>>
    BY <1>5, <1>6
  <2> QED
    BY <2>2, <2>3
<1>9. Region(from, k) \subseteq Space
  <2>1. Reads(o)
    BY <1>8, <1>a
  <2> QED
    BY <1>7, <2>1 DEF Reads, Region
<1>10. Repeatable(m, to, from, k, C * k)
  BY <1>1, <1>9 DEF Repeatable
<1>11. m2 = Repeated(m, to, from, k, C * k)
  <2>1. Leads(m, Chunks(to, from, k, C), m2)
    BY <1>2 DEF B
  <2>2. \A j \in Nat : Repeatable(m, to, from, k, j * k) =>
           \A p : Leads(m, Chunks(to, from, k, j), p) => p = Repeated(m, to, from, k, j * k)
    BY ONLY ChunksRepeat
  <2> QED
    BY ONLY <1>1, <1>10, <2>1, <2>2, Zenon
<1> QED
  BY <1>1, <1>11

\* The memory the jobs of a call lead to is the one the call stands for.
LEMMA JobsLeadToImage ==
  ASSUME NEW c \in Cases, call = c.call, before = c.mem, Promised(call),
         NEW m2, Leads(before, Jobs(call), m2)
  PROVE  m2 = Image(call)
<1> DEFINE x == call.d
           y == call.s
           l == call.n
           k == call.k
           m == before
<1>1. call \in CallType /\ m \in [Space -> Bytes] /\ SpareApart(call)
      /\ \A i \in DOMAIN Jobs(call) : Reads(Jobs(call)[i])
  BY CaseAssumption, CasesApart
<1>2. /\ x \in Nat /\ y \in Nat /\ l \in Nat /\ k \in Nat /\ l > 0 /\ Spare \in Nat /\ x # Null /\ y # Null
      /\ call.op \in {"copy", "move", "fill", "swap", "take", "broadcast", "clone", "compare", "chr", "strlen"}
  BY <1>1 DEF Promised, CallType, SpareApart
<1>a. \A to, from \in Int, len \in Nat : Job("copy", to, from, len) \in JobType /\ Job("fill", to, from, len) \in JobType
  BY JobFields
<1>b. \A p : \A to, from \in Int, len \in Nat :
        /\ Done(p, Job("copy", to, from, len)) = Copied(p, to, from, len)
        /\ Done(p, Job("fill", to, from, len)) = Filled(p, to, from % 256, len)
  BY DoneIs
<1>c. \A o \in JobType : Leads(m, <<o>>, m2) => m2 = Done(m, o)
  BY LeadsOne
<1>3. CASE call.op \in {"copy", "move"}
  <2>1. Leads(m, <<Job("copy", x, y, l)>>, m2)
    BY <1>1, <1>3, CopyJobs
  <2>2. Image(call) = Copied(m, x, y, l)
    BY <1>3 DEF Image
  <2> HIDE DEF x, y, l, k, m
  <2>3. m2 = Done(m, Job("copy", x, y, l))
    BY ONLY <1>2, <1>a, <1>c, <2>1
  <2> QED
    BY <1>2, <1>b, <2>2, <2>3
<1>4. CASE call.op = "clone"
  <2>1. Leads(m, <<Job("copy", Spare, y, l)>>, m2)
    BY <1>1, <1>4, CloneJobs
  <2>2. Image(call) = Copied(m, Spare, y, l)
    BY <1>4 DEF Image
  <2> HIDE DEF x, y, l, k, m
  <2>3. m2 = Done(m, Job("copy", Spare, y, l))
    BY ONLY <1>2, <1>a, <1>c, <2>1
  <2> QED
    BY <1>2, <1>b, <2>2, <2>3
<1>5. CASE call.op = "fill"
  <2>1. Leads(m, <<Job("fill", x, k, l)>>, m2)
    BY <1>1, <1>5, FillJobs
  <2>2. Image(call) = Filled(m, x, k % 256, l)
    BY <1>5 DEF Image
  <2> HIDE DEF x, y, l, k, m
  <2>3. m2 = Done(m, Job("fill", x, k, l))
    BY ONLY <1>2, <1>a, <1>c, <2>1
  <2> QED
    BY <1>2, <1>b, <2>2, <2>3
<1>6. CASE call.op = "take"
  <2>1. Leads(m, <<Job("copy", x, y, l)>> \o <<Job("fill", y, 0, l)>>, m2)
    BY <1>1, <1>6, TakeJobs
  <2>2. Image(call) = Filled(Copied(m, x, y, l), y, 0, l)
    BY <1>6 DEF Image
  <2> DEFINE o == Job("copy", x, y, l)
             o2 == Job("fill", y, 0, l)
  <2>3. o \in JobType /\ o2 \in JobType
    BY <1>2, <1>a
  <2>4. Done(m, o) = Copied(m, x, y, l)
    BY <1>2, <1>b
  <2>5. Done(Copied(m, x, y, l), o2) = Filled(Copied(m, x, y, l), y, 0, l)
    <3>1. 0 % 256 = 0
      OBVIOUS
    <3> HIDE DEF x, y, l, k, m
    <3> QED
      BY <1>2, <1>b, <3>1
  <2> HIDE DEF o, o2
  <2>6. Leads(m, <<o>> \o <<o2>>, m2)
    BY <2>1 DEF o, o2
  <2>7. m2 = Done(Done(m, o), o2)
    BY <2>3, <2>6, LeadsTwo
  <2> QED
    BY <2>2, <2>4, <2>5, <2>7
<1>7. CASE call.op = "swap"
  <2>1. Leads(m, (<<Job("copy", Spare, x, l)>> \o <<Job("copy", x, y, l)>>) \o <<Job("copy", y, Spare, l)>>, m2)
    BY <1>1, <1>7, SwapJobs
  <2>2. Image(call) = Copied(Copied(Copied(m, Spare, x, l), x, y, l), y, Spare, l)
    BY <1>7 DEF Image
  <2> DEFINE o == Job("copy", Spare, x, l)
             o2 == Job("copy", x, y, l)
             o3 == Job("copy", y, Spare, l)
             p1 == Copied(m, Spare, x, l)
             p2 == Copied(p1, x, y, l)
  <2>3. o \in JobType /\ o2 \in JobType /\ o3 \in JobType
    BY <1>2, <1>a
  <2>4. Done(m, o) = p1 /\ Done(p1, o2) = p2 /\ Done(p2, o3) = Copied(p2, y, Spare, l)
    <3> HIDE DEF p1, p2
    <3>1. Done(m, o) = Copied(m, Spare, x, l) /\ Done(p1, o2) = Copied(p1, x, y, l) /\ Done(p2, o3) = Copied(p2, y, Spare, l)
      BY <1>2, <1>b
    <3> QED
      BY <3>1 DEF p1, p2
  <2> HIDE DEF o, o2, o3
  <2>6. Leads(m, (<<o>> \o <<o2>>) \o <<o3>>, m2)
    BY <2>1 DEF o, o2, o3
  <2>7. m2 = Done(Done(Done(m, o), o2), o3)
    BY <2>3, <2>6, LeadsThree
  <2> QED
    BY <2>2, <2>4, <2>7
<1>8. CASE call.op = "broadcast"
  <2>1. Jobs(call) = Broadcast(x, y, l, k) /\ k > 0 /\ l % k = 0 /\ (y + k <= x \/ x + l <= y)
    BY <1>2, <1>8 DEF Jobs, Promised
  <2>2. Leads(m, Broadcast(x, y, l, k), m2)
        /\ \A i \in DOMAIN Broadcast(x, y, l, k) : Reads(Broadcast(x, y, l, k)[i])
    BY <1>1, <2>1
  <2>3. Image(call) = Repeated(m, x, y, k, l)
    BY <1>8 DEF Image, Repeated
  <2> HIDE DEF x, y, l, k, m
  <2>4. m2 = Repeated(m, x, y, k, l)
    <3>1. k \in Nat \ {0}
      BY <1>2, <2>1
    <3> QED
      BY ONLY <1>1, <1>2, <2>1, <2>2, <3>1, BroadcastLeads
  <2> QED
    BY <2>3, <2>4
<1>9. CASE call.op \in {"compare", "chr", "strlen"}
  <2>1. \A kind \in {"compare", "chr", "strlen"}, to, from \in Int, len \in Nat :
          Leads(m, <<Job(kind, to, from, len)>>, m2) => m2 = m
    <3> TAKE kind \in {"compare", "chr", "strlen"}, to \in Int, from \in Int, len \in Nat
    <3> DEFINE o == Job(kind, to, from, len)
    <3>1. o \in JobType /\ Done(m, o) = m
      BY JobFields DEF Done, Job
    <3> HIDE DEF o, m
    <3>2. Leads(m, <<o>>, m2) => m2 = m
      BY ONLY <1>c, <3>1
    <3> QED
      BY <3>2 DEF o
  <2>2. \/ Jobs(call) = <<>>
        \/ Jobs(call) = <<Job("compare", x, y, l)>>
        \/ Jobs(call) = <<Job("chr", x, k, l)>>
        \/ Jobs(call) = <<Job("strlen", x, 0, 0)>>
    BY <1>9 DEF Jobs, Compare
  <2>3. Image(call) = m
    BY <1>9 DEF Image
  <2>4. Leads(m, Jobs(call), m2)
    OBVIOUS
  <2> HIDE DEF x, y, l, k, m
  <2>5. CASE Jobs(call) = <<>>
    BY <2>3, <2>4, <2>5, LeadsNowhere
  <2>6. CASE Jobs(call) = <<Job("compare", x, y, l)>>
    BY ONLY <1>2, <2>1, <2>3, <2>4, <2>6
  <2>7. CASE Jobs(call) = <<Job("chr", x, k, l)>>
    BY ONLY <1>2, <2>1, <2>3, <2>4, <2>7
  <2>8. CASE Jobs(call) = <<Job("strlen", x, 0, 0)>>
    BY ONLY <1>2, <2>1, <2>3, <2>4, <2>8
  <2> QED
    BY <2>2, <2>5, <2>6, <2>7, <2>8
<1> QED
  BY <1>2, <1>3, <1>4, <1>5, <1>6, <1>7, <1>8, <1>9

\* When nothing is left to do the memory is the one the jobs lead to.
LEMMA FinishedLeads ==
  ASSUME DInv, granted, todo = <<>>, Promised(call)
  PROVE  Leads(before, Jobs(call), mem)
<1>1. PICK ms : Runs(before, Jobs(call), ms) /\ Standing(ms)
  BY DEF DInv, StepwiseExact
<1>2. mem = base /\ Len(todo) = 0
  BY DEF DInv, Untouched
<1>3. Len(Jobs(call)) \in Nat
  <2>1. Jobs(call) \in Seq(JobType)
    BY CaseAssumption DEF DInv, Given
  <2> QED
    BY <2>1
<1>4. base = ms[Len(Jobs(call))]
  BY <1>1, <1>2, <1>3 DEF Standing
<1> QED
  BY <1>1, <1>2, <1>4 DEF Leads

\* A finished call has left the memory it stands for: a region copied, moved,
\* set, swapped through the buffer or taken, a chunk repeated over whole chunks,
\* and nothing done by a call that got no memory (llv/src/mem/lv_mem*.c).
THEOREM CallsAreExact == Spec => []CallExact
<1>1. DInv => CallExact
  <2> SUFFICES ASSUME DInv, todo = <<>>, granted, Promised(call) PROVE mem = Image(call)
    BY DEF CallExact, DInv, Refused
  <2>1. PICK c \in Cases : call = c.call /\ before = c.mem
    BY DEF DInv, Given
  <2> QED
    BY <2>1, FinishedLeads, JobsLeadToImage
<1> QED
  BY <1>1, DInvariance, PTL

-----------------------------------------------------------------------------
(* A comparison.                                                           *)

Same(len) == \A i \in 0 .. len - 1 : before[call.d + i] = before[call.s + i]

\* Of l bytes, e lie behind the stored pointers. A region shorter than three of
\* the widest words is never started over from pointers that lag behind what has
\* been compared.
AbreastAt(e, l) ==
  /\ e + off + n <= l
  /\ l < 3 * Widths[1] =>
       /\ e + off + n = l
       /\ Same(e + off)
       /\ level = 1 => e = 0 /\ (off = 0 \/ n < Widths[1])
       /\ level > Len(Widths) => n = 0
Abreast ==
  /\ todo = <<Job("compare", call.d, call.s, call.n)>> /\ tells = {}
  /\ \E e \in Nat : d = call.d + e /\ s = call.s + e /\ AbreastAt(e, call.n)

Comparing ==
  call.op = "compare" /\ Null \notin {call.d, call.s} =>
    mem = before /\ (Abreast \/ (todo = <<>> /\ CompareTells))

LEMMA TurnWords ==
  ASSUME Inv, Doing("compare"), HasWord
  PROVE  /\ Width \in Nat \ {0} /\ Turn \in {1, 2} /\ Turn * Width \in Nat /\ Turn * Width <= n
         /\ 1 * Width = Width /\ 0 * Width = 0 /\ 2 * Width = Width + Width
         /\ Turn = 2 <=> n >= 2 * Width
<1>1. Width \in Nat \ {0} /\ n \in Nat /\ n >= Width
  BY WordWidth DEF Doing, HasWord, Inv, TypeOK
<1>2. CASE n >= 2 * Width
  BY <1>1, <1>2 DEF Turn
<1>3. CASE ~(n >= 2 * Width)
  BY <1>1, <1>3 DEF Turn
<1> QED
  BY <1>2, <1>3

\* No word of a turn differs when none is unequal.
LEMMA EqualWords ==
  ASSUME Inv, Doing("compare"), HasWord, Unequal = {}
  PROVE  \A i \in 0 .. Turn * Width - 1 : mem[d + off + i] = mem[s + off + i]
<1> DEFINE w == Width
<1>1. w \in Nat \ {0} /\ Turn \in {1, 2} /\ 1 * w = w /\ 0 * w = 0 /\ d \in Int /\ s \in Int /\ off \in Nat
      /\ 2 * w = w + w
  BY TurnWords DEF Inv, TypeOK
<1>2. \A j \in 0 .. Turn - 1 : Differing(off + j * w) = {}
  BY DEF Unequal
<1>3. \A o : Differing(o) = {} => \A i \in 0 .. w - 1 : mem[d + o + i] = mem[s + o + i]
  BY DEF Differing
<1> HIDE DEF w
<1>4. \A i \in 0 .. w - 1 : mem[d + off + i] = mem[s + off + i]
  <2>1. 0 \in 0 .. Turn - 1 /\ off + 0 * w = off
    BY <1>1
  <2> QED
    BY <1>2, <1>3, <2>1
<1>5. Turn = 2 => \A i \in w .. w + w - 1 : mem[d + off + i] = mem[s + off + i]
  <2> SUFFICES ASSUME Turn = 2, NEW i \in w .. w + w - 1 PROVE mem[d + off + i] = mem[s + off + i]
    OBVIOUS
  <2> DEFINE j == i - w
  <2>1. 1 \in 0 .. Turn - 1 /\ off + 1 * w = off + w
    BY <1>1
  <2>2. Differing(off + w) = {}
    BY <1>2, <2>1
  <2>3. j \in 0 .. w - 1 /\ d + (off + w) + j = d + off + i /\ s + (off + w) + j = s + off + i
    BY <1>1
  <2> HIDE DEF j
  <2>4. mem[d + (off + w) + j] = mem[s + (off + w) + j]
    BY <1>3, <2>2, <2>3
  <2> QED
    BY <2>3, <2>4
<1>6. \A i \in 0 .. Turn * w - 1 : i \in 0 .. w - 1 \/ (Turn = 2 /\ i \in w .. w + w - 1)
  BY <1>1
<1> QED
  BY <1>4, <1>5, <1>6 DEF w

\* What is returned as a difference is one, in a byte of the turn.
LEMMA UnequalWords ==
  ASSUME Inv, Doing("compare"), HasWord, Unequal # {}
  PROVE  /\ FirstDiff # {} /\ FirstDiff \subseteq 0 .. Width - 1
         /\ \E i \in 0 .. Turn * Width - 1 : mem[d + off + i] # mem[s + off + i]
<1> DEFINE w == Width
           z == IF 0 \in Unequal THEN 0 ELSE 1
<1>1. w \in Nat \ {0} /\ Turn \in {1, 2} /\ 1 * w = w /\ 0 * w = 0 /\ d \in Int /\ s \in Int /\ off \in Nat
      /\ 2 * w = w + w
  BY TurnWords DEF Inv, TypeOK
<1>2. z \in Unequal
  <2>1. PICK j \in Unequal : TRUE
    OBVIOUS
  <2>2. j \in {0, 1}
    BY <1>1, <2>1 DEF Unequal
  <2> QED
    BY <2>1, <2>2
<1>3. z \in 0 .. Turn - 1 /\ z \in {0, 1} /\ Differing(off + z * w) # {} /\ FirstDiff = Differing(off + z * w)
  BY <1>2 DEF Unequal, FirstDiff
<1> HIDE DEF z
<1>4. PICK i \in 0 .. w - 1 : mem[d + (off + z * w) + i] # mem[s + (off + z * w) + i]
  BY <1>3 DEF Differing
<1> DEFINE x == z * w
<1>5. x \in Nat /\ x + i \in 0 .. Turn * w - 1
  <2>1. CASE z = 0
    BY <1>1, <2>1
  <2>2. CASE z = 1
    <3>1. Turn = 2
      BY <1>1, <1>3, <2>2
    <3> QED
      BY <1>1, <2>2, <3>1
  <2> QED
    BY <1>3, <2>1, <2>2
<1> HIDE DEF x, w
<1>6. d + (off + x) + i = d + off + (x + i) /\ s + (off + x) + i = s + off + (x + i)
  BY <1>1, <1>5
<1>7. mem[d + off + (x + i)] # mem[s + off + (x + i)]
  BY <1>4, <1>6 DEF x
<1>8. FirstDiff \subseteq 0 .. w - 1
  BY <1>3 DEF Differing, w
<1> QED
  BY <1>3, <1>5, <1>7, <1>8 DEF w

\* Only the widest words can hold a difference that is lost.
LEMMA LostDifference ==
  ASSUME Inv, Doing("compare"), HasWord, Unequal # {}, Returned(FirstDiff) = {}
  PROVE  level = 1 /\ Len(Widths) > 1
<1>1. Sizes = Widths /\ level \in 1 .. Len(Widths) /\ Len(Widths) \in Nat /\ Widths[Len(Widths)] = 1
      /\ SsizeBytes \in Nat \ {0} /\ Width = Widths[level]
  BY WidthAssumption, SpaceAssumption DEF Sizes, Doing, HasWord, Inv, TypeOK, Width
<1>2. Width \in Nat \ {0} /\ ~(Width <= SsizeBytes)
  <2>1. PICK i \in FirstDiff : i \in 0 .. Width - 1
    BY UnequalWords
  <2>2. i \notin 0 .. SsizeBytes - 1
    BY <2>1 DEF Returned
  <2> QED
    BY <1>1, <2>1, <2>2, TurnWords
<1>3. level = 1
  BY <1>1, <1>2, WidthAssumption
<1>4. Len(Widths) # 1
  BY <1>1, <1>2, <1>3
<1>5. Len(Widths) > 1
  <2> DEFINE l == Len(Widths)
  <2>1. l \in Nat /\ 1 \in 1 .. l /\ l # 1
    BY <1>1, <1>3, <1>4
  <2> HIDE DEF l
  <2>2. l > 1
    BY ONLY <2>1
  <2> QED
    BY <2>2 DEF l
<1> QED
  BY <1>3, <1>5

LEMMA SameGrows ==
  ASSUME NEW e \in Nat, call \in CallType, d = call.d + e, s = call.s + e, mem = before, off \in Nat, NEW w \in Nat,
         Same(e + off), \A i \in 0 .. w - 1 : mem[d + off + i] = mem[s + off + i]
  PROVE  Same(e + (off + w))
<1> DEFINE p == call.d
           q == call.s
<1>1. p \in Nat /\ q \in Nat /\ d = p + e /\ s = q + e
  BY DEF CallType
<1>2. \A i \in 0 .. e + off - 1 : before[p + i] = before[q + i]
  BY DEF Same
<1> HIDE DEF p, q
<1>3. ASSUME NEW i \in 0 .. e + (off + w) - 1 PROVE before[p + i] = before[q + i]
  <2>1. CASE i \in 0 .. e + off - 1
    BY <1>2, <2>1
  <2>2. CASE i \notin 0 .. e + off - 1
    <3> DEFINE j == i - (e + off)
    <3>1. j \in 0 .. w - 1 /\ d + off + j = p + i /\ s + off + j = q + i
      BY <1>1, <2>2
    <3> HIDE DEF j
    <3> QED
      BY <3>1
  <2> QED
    BY <2>1, <2>2
<1> QED
  BY <1>3 DEF Same, p, q

LEMMA CompareEqualAbreast ==
  ASSUME Inv, Abreast, call \in CallType, mem = before, CompareEqual
  PROVE  Abreast'
<1>1. Doing("compare") /\ HasWord /\ Unequal = {} /\ off' = off + Turn * Width /\ n' = n - Turn * Width
      /\ UNCHANGED <<call, before, todo, level, d, s, tells>>
  BY DEF CompareEqual, Progress
<1>2. PICK e \in Nat : d = call.d + e /\ s = call.s + e /\ AbreastAt(e, call.n)
  BY DEF Abreast
<1> DEFINE w == Turn * Width
           l == call.n
<1>3. /\ Width \in Nat \ {0} /\ Turn \in {1, 2} /\ w \in Nat /\ w <= n /\ n \in Nat /\ off \in Nat /\ l \in Nat
      /\ level \in Nat \ {0} /\ level <= Len(Widths) /\ Len(Widths) \in Nat
      /\ level = 1 => Width = Widths[1]
      /\ n >= Width + Width => w = Width + Width
      /\ ~(n >= Width + Width) => w = Width
  <2>1. level \in Nat \ {0} /\ Len(Widths) \in Nat /\ Sizes = Widths /\ n \in Nat /\ off \in Nat /\ l \in Nat
    BY <1>1, WidthAssumption, SizesAre DEF Inv, TypeOK, CallType, Doing
  <2>2. level <= Len(Widths) /\ (level = 1 => Width = Widths[1])
    BY <1>1, <2>1 DEF HasWord, Width
  <2>3. /\ Width \in Nat \ {0} /\ Turn \in {1, 2} /\ w \in Nat /\ w <= n
        /\ 1 * Width = Width /\ 0 * Width = 0 /\ 2 * Width = Width + Width
        /\ Turn = 2 <=> n >= 2 * Width
    BY <1>1, TurnWords
  <2>4. (Turn = 2 => w = Width + Width) /\ (Turn = 1 => w = Width)
    BY <2>3
  <2> QED
    BY <2>1, <2>2, <2>3, <2>4
<1>4. \A i \in 0 .. w - 1 : mem[d + off + i] = mem[s + off + i]
  BY <1>1, EqualWords
<1> HIDE DEF w, l
<1>5. AbreastAt(e, l)'
  <2>1. e + off' + n' = e + off + n
    BY <1>1, <1>3 DEF w
  <2>2. e + off' + n' <= l
    BY <1>2, <2>1 DEF AbreastAt, l
  <2>3. l' = l
    BY <1>1 DEF l
  <2> SUFFICES ASSUME l < 3 * Widths[1]
               PROVE  /\ e + off' + n' = l
                      /\ Same(e + off)'
                      /\ level = 1 => e = 0 /\ (off' = 0 \/ n' < Widths[1])
                      /\ level > Len(Widths) => n' = 0
    BY <1>1, <2>2, <2>3 DEF AbreastAt
  <2>4. /\ e + off + n = l /\ Same(e + off)
        /\ level = 1 => e = 0 /\ (off = 0 \/ n < Widths[1])
    BY <1>2 DEF AbreastAt, l
  <2>5. Same(e + off)'
    <3>1. Same(e + (off + w))
      BY <1>2, <1>3, <1>4, <2>4, SameGrows
    <3> QED
      BY <1>1, <3>1 DEF Same, w
  <2>6. level = 1 => e = 0 /\ n' < Widths[1]
    <3> SUFFICES ASSUME level = 1 PROVE n' < Widths[1]
      BY <2>4
    <3>1. off = 0 /\ n = l /\ Width = Widths[1] /\ n >= Width
      BY <1>1, <1>3, <2>4 DEF HasWord
    <3>2. n' = n - w
      BY <1>1 DEF w
    <3> DEFINE x == Width
    <3>3. /\ x \in Nat /\ w \in Nat /\ n \in Nat /\ n < 3 * x /\ n >= x
          /\ n >= x + x => w = x + x
          /\ ~(n >= x + x) => w = x
      BY <1>3, <3>1
    <3> HIDE DEF x
    <3>4. n - w < x
      BY ONLY <3>3
    <3> QED
      BY <3>1, <3>2, <3>4 DEF x
  <2> QED
    BY <1>3, <2>1, <2>4, <2>5, <2>6
<1> QED
  BY <1>1, <1>2, <1>5 DEF Abreast, l

LEMMA NarrowAbreast ==
  ASSUME Inv, Abreast, call \in CallType, Narrow
  PROVE  Abreast'
<1>1. Doing("compare") /\ Sizes = Widths
  <2>1. todo # <<>> /\ todo[1].kind = "compare"
    BY DEF Abreast, Job
  <2> QED
    BY <2>1, SizesAre DEF Doing
<1>2. /\ level <= Len(Widths) /\ n < Width /\ d' = d + off /\ s' = s + off /\ level' = level + 1 /\ off' = 0
      /\ UNCHANGED <<call, before, todo, n, tells>>
  BY <1>1 DEF Narrow, Doing
<1>3. PICK e \in Nat : d = call.d + e /\ s = call.s + e /\ AbreastAt(e, call.n)
  BY DEF Abreast
<1>4. /\ call.d \in Nat /\ call.s \in Nat /\ call.n \in Nat /\ off \in Nat /\ n \in Nat
      /\ level \in Nat \ {0} /\ Len(Widths) \in Nat /\ Width = Widths[level] /\ Widths[Len(Widths)] = 1
  BY <1>1, WidthAssumption DEF Inv, TypeOK, CallType, Width
<1>5. PICK f \in Nat : f = e + off
  BY <1>4
<1>6. d' = call.d' + f /\ s' = call.s' + f
  <2> DEFINE p == call.d
             q == call.s
  <2>1. p \in Nat /\ q \in Nat /\ d = p + e /\ s = q + e /\ d' = d + off /\ s' = s + off
    BY <1>2, <1>3, <1>4
  <2> HIDE DEF p, q
  <2>2. d' = p + f /\ s' = q + f
    BY <1>4, <1>5, <2>1
  <2> QED
    BY <1>2, <2>2 DEF p, q
<1>7. AbreastAt(f, call.n)'
  <2> DEFINE l == call.n
  <2>1. l' = l /\ f + off' = f /\ f + off' + n' = e + off + n
    BY <1>2, <1>4, <1>5
  <2>2. e + off + n <= l
    BY <1>3 DEF AbreastAt
  <2>3. l < 3 * Widths[1] => e + off + n = l /\ Same(f)
    BY <1>3, <1>5 DEF AbreastAt
  <2>4. level' # 1
    BY <1>2, <1>4
  <2>5. level' > Len(Widths) => n = 0
    BY <1>2, <1>4
  <2>6. Same(f)' <=> Same(f)
    BY <1>2 DEF Same
  <2> HIDE DEF l
  <2>7. AbreastAt(f, l)'
    BY <1>2, <2>1, <2>2, <2>3, <2>4, <2>5, <2>6 DEF AbreastAt
  <2> QED
    BY <2>7 DEF l
<1>8. todo' = <<Job("compare", call.d, call.s, call.n)>>' /\ tells' = {}
  BY <1>2 DEF Abreast
<1> QED
  BY <1>6, <1>7, <1>8 DEF Abreast

LEMMA OverlookAbreast ==
  ASSUME Inv, Abreast, call \in CallType, CompareOverlooks
  PROVE  Abreast'
<1>1. Doing("compare") /\ HasWord /\ Unequal # {} /\ Returned(FirstDiff) = {} /\ level' = level + 1 /\ off' = 0
      /\ UNCHANGED <<call, before, todo, d, s, n, tells>>
  BY DEF CompareOverlooks
<1>2. level = 1 /\ Len(Widths) > 1
  BY <1>1, LostDifference
<1>3. PICK e \in Nat : d = call.d + e /\ s = call.s + e /\ AbreastAt(e, call.n)
  BY DEF Abreast
<1> DEFINE l == call.n
<1>4. l \in Nat /\ off \in Nat /\ n \in Nat /\ n >= Widths[1] /\ Widths[1] \in Nat
  BY <1>1, <1>2, TurnWords, SizesAre DEF Inv, TypeOK, CallType, Width, HasWord, Doing
<1>5. AbreastAt(e, l)'
  <2>1. l' = l /\ e + off' + n' = e + n /\ e + off' = e
    BY <1>1, <1>4
  <2>2. e + off + n <= l
    BY <1>3 DEF AbreastAt
  <2>3. ASSUME l < 3 * Widths[1] PROVE e = 0 /\ off = 0 /\ n = l
    <3>1. e + off + n = l /\ e = 0 /\ (off = 0 \/ n < Widths[1])
      BY <1>2, <1>3, <2>3 DEF AbreastAt
    <3> HIDE DEF l
    <3> QED
      BY <1>4, <3>1
  <2>4. level' = 2 /\ ~(level' > Len(Widths))
    BY <1>1, <1>2
  <2> HIDE DEF l
  <2>5. e + n <= l
    BY <1>4, <2>2
  <2>6. ASSUME l < 3 * Widths[1] PROVE e + n = l /\ Same(e)'
    BY <1>4, <2>3, <2>6 DEF Same
  <2> QED
    BY <2>1, <2>4, <2>5, <2>6 DEF AbreastAt
<1> HIDE DEF l
<1>6. todo' = <<Job("compare", call.d, call.s, call.n)>>' /\ tells' = {}
  BY <1>1 DEF Abreast
<1> QED
  BY <1>1, <1>3, <1>5, <1>6 DEF Abreast, l

\* The last job of a call ends.
LEMMA LastEnds ==
  ASSUME NEW o \in JobType, todo = <<o>>, Finish
  PROVE  todo' = <<>> /\ UNCHANGED <<call, before, mem>>
BY DEF Finish

LEMMA AllTold ==
  ASSUME Inv, Abreast, call \in CallType, level > Len(Widths)
  PROVE  call.n < 3 * Widths[1] => Same(call.n)
<1>1. PICK e \in Nat : AbreastAt(e, call.n)
  BY DEF Abreast
<1> SUFFICES ASSUME call.n < 3 * Widths[1] PROVE Same(call.n)
  OBVIOUS
<1>2. e + off + n = call.n /\ Same(e + off) /\ n = 0 /\ off \in Nat
  BY <1>1 DEF AbreastAt, Inv, TypeOK
<1>3. e + off = call.n
  BY <1>2
<1> QED
  BY <1>2, <1>3

LEMMA EndTells ==
  ASSUME Inv, Abreast, call \in CallType, EndJob
  PROVE  todo' = <<>> /\ CompareTells'
<1>1. Doing("compare") /\ Sizes = Widths
  <2>1. todo # <<>> /\ todo[1].kind = "compare"
    BY DEF Abreast, Job
  <2> QED
    BY <2>1, SizesAre DEF Doing
<1>2. level > Len(Widths) /\ Finish /\ tells' = {}
  BY <1>1 DEF EndJob, Abreast
<1>3. todo' = <<>> /\ UNCHANGED <<call, before>>
  BY <1>2 DEF Abreast, Finish
<1>4. call.n < 3 * Widths[1] => Same(call.n)
  BY <1>2, AllTold
<1> QED
  BY <1>2, <1>3, <1>4 DEF CompareTells, Same

LEMMA UnequalTells ==
  ASSUME Inv, Abreast, call \in CallType, mem = before, CompareUnequal
  PROVE  todo' = <<>> /\ CompareTells'
<1>1. Doing("compare") /\ HasWord /\ Unequal # {} /\ tells' # {} /\ Finish
  BY DEF CompareUnequal
<1>2. todo' = <<>> /\ UNCHANGED <<call, before>>
  BY <1>1 DEF Abreast, Finish
<1>3. PICK i \in 0 .. Turn * Width - 1 : mem[d + off + i] # mem[s + off + i]
  BY <1>1, UnequalWords
<1>4. PICK e \in Nat : d = call.d + e /\ s = call.s + e /\ AbreastAt(e, call.n)
  BY DEF Abreast
<1> DEFINE p == call.d
           q == call.s
           l == call.n
           w == Turn * Width
           j == e + off + i
<1>5. /\ p \in Nat /\ q \in Nat /\ l \in Nat /\ d = p + e /\ s = q + e /\ w \in Nat /\ w <= n
      /\ n \in Nat /\ off \in Nat /\ e + off + n <= l /\ i \in 0 .. w - 1
  BY <1>1, <1>4, TurnWords DEF Inv, TypeOK, CallType, AbreastAt
<1> HIDE DEF p, q, l, w
<1>6. j \in 0 .. l - 1 /\ d + off + i = p + j /\ s + off + i = q + j
  BY <1>5
<1> HIDE DEF j
<1>7. before[p + j] # before[q + j]
  BY <1>3, <1>6
<1>8. ~(\A k \in 0 .. call.n - 1 : before[call.d + k] = before[call.s + k])
  BY <1>6, <1>7 DEF p, q, l
<1> QED
  BY <1>1, <1>2, <1>8 DEF CompareTells

LEMMA NextComparing ==
  ASSUME Inv, call \in CallType, Comparing, [Next]_vars
  PROVE  Comparing'
<1>1. UNCHANGED <<call, before>>
  BY DEF Next, vars, CopyWord, BackWord, FillWord, Narrow, EndJob, CompareEqual, CompareUnequal,
         CompareOverlooks, Chr, Strlen, Progress, Finish
<1> SUFFICES ASSUME call.op = "compare", Null \notin {call.d, call.s}
             PROVE  mem' = before /\ (Abreast' \/ (todo' = <<>> /\ CompareTells'))
  BY <1>1 DEF Comparing
<1>2. mem = before /\ (Abreast \/ (todo = <<>> /\ CompareTells))
  BY DEF Comparing
<1>3. CASE UNCHANGED vars
  <2>1. UNCHANGED <<mem, todo, tells, level, d, s, n, off>>
    BY <1>3 DEF vars, job
  <2>2. Abreast => Abreast'
    BY <1>1, <2>1 DEF Abreast, AbreastAt, Same
  <2>3. CompareTells => CompareTells'
    BY <1>1, <2>1 DEF CompareTells
  <2> QED
    BY <1>2, <2>1, <2>2, <2>3
<1>4. CASE Next
  <2>1. todo # <<>>
    BY <1>4 DEF Next, CopyWord, BackWord, FillWord, Narrow, EndJob, CompareEqual, CompareUnequal,
                CompareOverlooks, Chr, Strlen, Doing
  <2>2. Abreast
    BY <1>2, <2>1
  <2>3. todo[1].kind = "compare"
    BY <2>2 DEF Abreast, Job
  <2>4. Narrow \/ EndJob \/ CompareEqual \/ CompareUnequal \/ CompareOverlooks
    BY <1>4, <2>3 DEF Next, CopyWord, BackWord, FillWord, Chr, Strlen, Doing
  <2>5. UNCHANGED mem
    BY <2>4 DEF Narrow, EndJob, CompareEqual, CompareUnequal, CompareOverlooks, Finish
  <2> QED
    BY <1>2, <2>2, <2>4, <2>5, NarrowAbreast, EndTells, CompareEqualAbreast, UnequalTells, OverlookAbreast
<1> QED
  BY <1>3, <1>4

LEMMA StartComparing == Init => Comparing
<1> SUFFICES ASSUME Init, call.op = "compare", Null \notin {call.d, call.s}
             PROVE  mem = before /\ (Abreast \/ (todo = <<>> /\ CompareTells))
  BY DEF Comparing
<1>1. PICK c \in Cases :
        /\ call = c.call /\ before = c.mem /\ mem = c.mem
        /\ granted \in {TRUE, ~Allocates(c.call)}
        /\ todo = (IF granted THEN Jobs(c.call) ELSE <<>>)
        /\ level = 1 /\ d = First(todo).d /\ s = First(todo).s /\ n = First(todo).n /\ off = 0
        /\ tells = (IF OneNull(c.call) THEN {0} ELSE {})
  BY DEF Init
<1>2. call \in CallType
  BY <1>1, CaseAssumption
<1>3. tells = {} /\ todo = Compare(call.d, call.s, call.n)
  <2>1. ~OneNull(call) /\ ~Allocates(call) /\ Jobs(call) = Compare(call.d, call.s, call.n)
    BY DEF OneNull, Allocates, Jobs
  <2> QED
    BY <1>1, <2>1
<1>4. CASE call.d = call.s
  BY <1>1, <1>3, <1>4 DEF Compare, CompareTells
<1>5. CASE call.d # call.s
  <2>1. todo = <<Job("compare", call.d, call.s, call.n)>>
    BY <1>3, <1>5 DEF Compare
  <2>2. d = call.d /\ s = call.s /\ n = call.n /\ off = 0 /\ level = 1
    BY <1>1, <2>1 DEF First, Job
  <2> DEFINE p == call.d
             q == call.s
             l == call.n
  <2>3. p \in Nat /\ q \in Nat /\ l \in Nat /\ d = p /\ s = q /\ n = l
    BY <1>2, <2>2 DEF CallType
  <2>4. ~(level > Len(Widths))
    BY <2>2, WidthAssumption
  <2>5. d = p + 0 /\ s = q + 0 /\ AbreastAt(0, l)
    <3> HIDE DEF p, q, l
    <3> QED
      BY <2>2, <2>3, <2>4 DEF AbreastAt, Same
  <2>6. Abreast
    BY <1>3, <2>1, <2>5 DEF Abreast
  <2> QED
    BY <1>1, <2>6
<1> QED
  BY <1>4, <1>5

-----------------------------------------------------------------------------
(* A search.                                                               *)

\* None of the bytes passed is the one looked for.
Passed(byte) == \A i \in 0 .. off - 1 : before[call.d + i] # byte
ChrAt ==
  /\ todo = <<Job("chr", call.d, call.k, call.n)>> /\ found = Null /\ level = 1
  /\ d = call.d /\ s = call.k /\ n = call.n /\ off <= n /\ Passed(call.k % 256)
StrlenAt ==
  /\ todo = <<Job("strlen", call.d, 0, 0)>> /\ found = Null /\ level = 1
  /\ d = call.d /\ Passed(0)
Searching ==
  call.op \in {"chr", "strlen"} /\ call.d # Null =>
    /\ mem = before
    /\ (call.op = "chr" /\ ChrAt) \/ (call.op = "strlen" /\ StrlenAt) \/ (todo = <<>> /\ FoundFirst)

LEMMA ChrSearches ==
  ASSUME Inv, call \in CallType, call.op = "chr", mem = before, ChrAt, Chr
  PROVE  UNCHANGED <<call, before, mem>> /\ (ChrAt' \/ (todo' = <<>> /\ FoundFirst'))
<1> DEFINE p == call.d
           l == call.n
           b == call.k % 256
<1>1. /\ p \in Nat /\ l \in Nat /\ off \in Nat /\ d = p /\ n = l /\ off <= l /\ Byte(s) = b
      /\ \A i \in 0 .. off - 1 : before[p + i] # b
  BY DEF ChrAt, Passed, Inv, TypeOK, CallType, Byte
<1>2. UNCHANGED <<call, before, mem>>
  BY DEF Chr, Finish
<1>3. CASE /\ off < n /\ mem[d + off] # Byte(s)
           /\ off' = off + 1 /\ UNCHANGED <<call, granted, before, todo, base, level, d, s, n, tells, found, mem>>
  <2> HIDE DEF p, l, b
  <2>1. off' <= l /\ \A i \in 0 .. off' - 1 : before[p + i] # b
    <3>1. off' = off + 1 /\ off < l /\ before[p + off] # b
      BY <1>1, <1>3
    <3>2. off' <= l
      BY <1>1, <3>1
    <3>3. \A i \in 0 .. off' - 1 : i \in 0 .. off - 1 \/ i = off
      BY <1>1, <3>1
    <3> QED
      BY ONLY <1>1, <3>1, <3>2, <3>3
  <2>2. Passed(b)'
    BY <1>2, <2>1 DEF Passed, p, b
  <2> QED
    BY <1>1, <1>3, <2>1, <2>2 DEF ChrAt, l, b
<1>4. CASE off < n /\ mem[d + off] = Byte(s) /\ found' = d + off /\ Finish
  <2>1. todo' = <<>>
    BY <1>4 DEF Finish, ChrAt
  <2> DEFINE H == {a \in Region(p, l) : before[a] = b}
  <2> HIDE DEF p, l, b
  <2>2. found' = p + off /\ found' \in H
    BY <1>1, <1>4 DEF Region
  <2>3. \A a \in H : found' <= a
    <3> SUFFICES ASSUME NEW a \in Region(p, l), before[a] = b PROVE p + off <= a
      BY <2>2
    <3> DEFINE i == a - p
    <3>1. a \in Int /\ i \in Nat /\ p + i = a
      BY <1>1 DEF Region
    <3> HIDE DEF i
    <3>2. ~(i \in 0 .. off - 1)
      BY <1>1, <3>1
    <3> QED
      BY <1>1, <3>1, <3>2
  <2>4. FoundFirst'
    BY <1>2, <2>2, <2>3 DEF FoundFirst, H, p, l, b
  <2> QED
    BY <1>2, <2>1, <2>4
<1>5. CASE off >= n /\ Finish /\ UNCHANGED found
  <2>1. todo' = <<>> /\ found' = Null
    BY <1>5 DEF Finish, ChrAt
  <2> DEFINE H == {a \in Region(p, l) : before[a] = b}
  <2> HIDE DEF p, l, b
  <2>2. H = {}
    <3> SUFFICES ASSUME NEW a \in Region(p, l), before[a] = b PROVE FALSE
      OBVIOUS
    <3> DEFINE i == a - p
    <3>1. off = l
      BY <1>1, <1>5
    <3>2. a \in Int /\ i \in 0 .. off - 1 /\ p + i = a
      BY <1>1, <3>1 DEF Region
    <3> HIDE DEF i
    <3> QED
      BY <1>1, <3>2
  <2>3. FoundFirst'
    BY <1>2, <2>1, <2>2 DEF FoundFirst, H, p, l, b
  <2> QED
    BY <1>2, <2>1, <2>3
<1> QED
  BY <1>2, <1>3, <1>4, <1>5 DEF Chr

-----------------------------------------------------------------------------
(* The word test of lv_strlen.                                             *)

Borrows(p) ==
  CHOOSE f : f = [i \in 0 .. SsizeBytes - 1 |-> IF i = 0 THEN 0 ELSE IF mem[p + i - 1] < 1 + f[i - 1] THEN 1 ELSE 0]

LEMMA FlaggedIs ==
  ASSUME NEW p
  PROVE  Flagged(p) = {i \in 0 .. SsizeBytes - 1 : mem[p + i] < 128 /\ (mem[p + i] - 1 - Borrows(p)[i]) % 256 >= 128}
BY DEF Flagged, Borrows

\* No byte before the first zero is borrowed from.
LEMMA NoBorrow ==
  ASSUME NEW p \in Nat, NEW z \in 0 .. SsizeBytes, \A i \in 0 .. z - 1 : mem[p + i] \in 1 .. 255
  PROVE  \A i \in 0 .. z : i < SsizeBytes => Borrows(p)[i] = 0
<1> DEFINE N == SsizeBytes - 1
           C(k) == mem[p + k - 1]
           step == [k \in 1 .. N |-> [a \in {0, 1} |-> IF C(k) < 1 + a THEN 1 ELSE 0]]
           Solves(g) == g = [i \in 0 .. N |-> IF i = 0 THEN 0 ELSE IF mem[p + i - 1] < 1 + g[i - 1] THEN 1 ELSE 0]
           D == Borrows(p)
<1>0. N \in Nat /\ SsizeBytes = N + 1
  BY SpaceAssumption
<1>1. \A k \in 1 .. N : \A a \in {0, 1} : step[k][a] \in {0, 1} /\ step[k][a] = IF C(k) < 1 + a THEN 1 ELSE 0
  OBVIOUS
<1> HIDE DEF step
<1>2. PICK f \in [0 .. N -> {0, 1}] : Iterates(f, 0, step, N)
  <2>1. 0 \in {0, 1} /\ \A k \in 1 .. N : \A a \in {0, 1} : step[k][a] \in {0, 1}
    BY <1>1
  <2> HIDE DEF N
  <2> QED
    BY <1>0, <2>1, Iteration
<1>3. Solves(f)
  <2>1. \A i \in 0 .. N : f[i] = IF i = 0 THEN 0 ELSE IF mem[p + i - 1] < 1 + f[i - 1] THEN 1 ELSE 0
    <3> SUFFICES ASSUME NEW i \in 0 .. N, i # 0 PROVE f[i] = IF mem[p + i - 1] < 1 + f[i - 1] THEN 1 ELSE 0
      BY <1>2 DEF Iterates
    <3>1. i \in 1 .. N /\ i - 1 \in 0 .. N
      BY <1>0
    <3>2. f[i - 1] \in {0, 1} /\ f[i] = step[i][f[i - 1]]
      BY <1>2, <3>1 DEF Iterates
    <3> QED
      BY <1>1, <3>1, <3>2
  <2> QED
    BY <2>1
<1>4. Solves(D)
  BY <1>3 DEF Borrows
<1> HIDE DEF D, N
<1>5. /\ D[0] = 0
      /\ \A i \in 1 .. N : D[i] = IF mem[p + i - 1] < 1 + D[i - 1] THEN 1 ELSE 0
  <2>1. \A i \in 0 .. N : D[i] = IF i = 0 THEN 0 ELSE IF mem[p + i - 1] < 1 + D[i - 1] THEN 1 ELSE 0
    BY <1>4
  <2> QED
    BY <1>0, <2>1
<1> DEFINE T == {i \in Nat : i <= z /\ i <= N => D[i] = 0}
<1>6. 0 \in T
  BY <1>5
<1>7. ASSUME NEW i \in Nat, i \in T PROVE i + 1 \in T
  <2> SUFFICES ASSUME i + 1 <= z, i + 1 <= N PROVE D[i + 1] = 0
    OBVIOUS
  <2>1. D[i] = 0
    BY <1>0, <1>7
  <2>2. i + 1 \in 1 .. N /\ (i + 1) - 1 = i /\ p + (i + 1) - 1 = p + i /\ i \in 0 .. z - 1
    BY <1>0
  <2>3. mem[p + i] \in 1 .. 255
    BY <2>2
  <2>4. D[i + 1] = IF mem[p + i] < 1 + D[i] THEN 1 ELSE 0
    BY <1>5, <2>2
  <2> DEFINE v == mem[p + i]
             u == D[i]
  <2>5. v \in 1 .. 255 /\ u = 0 /\ D[i + 1] = IF v < 1 + u THEN 1 ELSE 0
    BY <2>1, <2>3, <2>4
  <2> HIDE DEF v, u
  <2> QED
    BY ONLY <2>5
<1>8. Nat \subseteq T
  <2> HIDE DEF T
  <2> QED
    BY <1>6, <1>7, SetInduction
<1> QED
  BY <1>0, <1>8 DEF D

\* Up to and at the first zero of a word, the zero alone is flagged.
LEMMA FlagsTheFirst ==
  ASSUME NEW p \in Nat, NEW z \in 0 .. SsizeBytes, \A i \in 0 .. z - 1 : mem[p + i] \in 1 .. 255,
         z < SsizeBytes => mem[p + z] = 0
  PROVE  \A i \in 0 .. z : i \in Flagged(p) <=> i = z /\ z < SsizeBytes
<1> SUFFICES ASSUME NEW i \in 0 .. z PROVE i \in Flagged(p) <=> i = z /\ z < SsizeBytes
  OBVIOUS
<1>1. SsizeBytes \in Nat \ {0}
  BY SpaceAssumption
<1>2. i < SsizeBytes => Borrows(p)[i] = 0
  BY NoBorrow
<1>3. i \in Flagged(p) <=> i \in 0 .. SsizeBytes - 1 /\ mem[p + i] < 128 /\ (mem[p + i] - 1 - Borrows(p)[i]) % 256 >= 128
  BY FlaggedIs
<1>4. CASE i = z /\ z < SsizeBytes
  <2>1. mem[p + i] = 0 /\ Borrows(p)[i] = 0
    BY <1>2, <1>4
  <2>2. (0 - 1 - 0) % 256 = 255
    <3> DEFINE x == 0 - 1 - 0
               t == x % 256
               q == x \div 256
    <3>1. x \in Int /\ x + 1 = 0
      OBVIOUS
    <3> HIDE DEF x
    <3>2. t \in 0 .. 255 /\ q \in Int /\ x = 256 * q + t
      BY <3>1
    <3> HIDE DEF t, q
    <3>3. t = 255
      BY ONLY <3>1, <3>2
    <3> QED
      BY <3>3 DEF t, x
  <2> QED
    BY <1>1, <1>3, <1>4, <2>1, <2>2
<1>5. CASE i < z
  <2> DEFINE v == mem[p + i]
  <2>1. i < SsizeBytes /\ Borrows(p)[i] = 0 /\ v \in 1 .. 255
    BY <1>1, <1>2, <1>5
  <2> HIDE DEF v
  <2>2. v < 128 => (v - 1 - 0) % 256 = v - 1
    BY <2>1
  <2>3. v < 128 => ~((v - 1 - 0) % 256 >= 128)
    BY <2>1, <2>2
  <2>4. i \notin Flagged(p)
    BY <1>3, <2>1, <2>3 DEF v
  <2> QED
    BY <1>1, <1>5, <2>4
<1>6. CASE i = z /\ ~(z < SsizeBytes)
  BY <1>1, <1>3, <1>6
<1> QED
  BY <1>1, <1>4, <1>5, <1>6

LEMMA WordTest ==
  ASSUME NEW p \in Nat, \A i \in 0 .. SsizeBytes - 1 : mem[p + i] \in Bytes
  PROVE  /\ Flagged(p) = {} => \A i \in 0 .. SsizeBytes - 1 : mem[p + i] # 0
         /\ Flagged(p) # {} => /\ Lookup(p) \in 0 .. SsizeBytes - 1 /\ mem[p + Lookup(p)] = 0
                               /\ \A i \in 0 .. Lookup(p) - 1 : mem[p + i] # 0
<1> DEFINE Z == {i \in 0 .. SsizeBytes - 1 : mem[p + i] = 0}
<1>0. SsizeBytes \in Nat \ {0}
  BY SpaceAssumption
<1>1. CASE Z = {}
  <2>1. \A i \in 0 .. SsizeBytes - 1 : mem[p + i] \in 1 .. 255
    BY <1>1 DEF Bytes
  <2>2. \A i \in 0 .. SsizeBytes : i \in Flagged(p) <=> i = SsizeBytes /\ SsizeBytes < SsizeBytes
    <3>1. SsizeBytes \in 0 .. SsizeBytes /\ ~(SsizeBytes < SsizeBytes)
      BY <1>0
    <3> QED
      BY <2>1, <3>1, FlagsTheFirst
  <2>3. Flagged(p) \subseteq 0 .. SsizeBytes - 1
    BY FlaggedIs
  <2>4. Flagged(p) = {}
    BY <1>0, <2>2, <2>3
  <2> QED
    BY <2>1, <2>4
<1>2. CASE Z # {}
  <2>1. PICK z \in Z : \A i \in Z : z <= i
    <3>1. Z \subseteq Nat
      BY <1>0
    <3> HIDE DEF Z
    <3> QED
      BY <1>2, <3>1, LeastNatural
  <2>2. z \in 0 .. SsizeBytes - 1 /\ mem[p + z] = 0
    BY <2>1
  <2>3. \A i \in 0 .. z - 1 : mem[p + i] # 0
    <3> SUFFICES ASSUME NEW i \in 0 .. z - 1, mem[p + i] = 0 PROVE FALSE
      OBVIOUS
    <3>1. i \in 0 .. SsizeBytes - 1 /\ ~(z <= i)
      BY <1>0, <2>2
    <3>2. i \in Z
      BY <3>1
    <3> QED
      BY <2>1, <3>1, <3>2
  <2>4. \A i \in 0 .. z - 1 : mem[p + i] \in 1 .. 255
    <3> SUFFICES ASSUME NEW i \in 0 .. z - 1 PROVE mem[p + i] \in 1 .. 255
      OBVIOUS
    <3>1. i \in 0 .. SsizeBytes - 1
      BY <1>0, <2>2
    <3> QED
      BY <2>3, <3>1 DEF Bytes
  <2>5. \A i \in 0 .. z : i \in Flagged(p) <=> i = z /\ z < SsizeBytes
    <3>1. z \in 0 .. SsizeBytes
      BY <1>0, <2>2
    <3> HIDE DEF Z
    <3> QED
      BY <2>2, <2>4, <3>1, FlagsTheFirst
  <2>6. Flagged(p) \subseteq 0 .. SsizeBytes - 1
    BY FlaggedIs
  <2>7. z \in Flagged(p) /\ \A j \in Flagged(p) : z <= j
    <3>1. z \in Flagged(p)
      BY <1>0, <2>2, <2>5
    <3>2. ASSUME NEW j \in Flagged(p), ~(z <= j) PROVE FALSE
      <4>1. j \in 0 .. z /\ j # z
        BY <1>0, <2>2, <2>6, <3>2
      <4> QED
        BY <2>5, <4>1, <3>2
    <3> QED
      BY <3>1, <3>2
  <2>8. Lookup(p) = z
    <3>1. \A x \in Flagged(p) : (\A j \in Flagged(p) : x <= j) => x = z
      BY <1>0, <2>2, <2>6, <2>7
    <3>2. Lookup(p) \in Flagged(p) /\ \A j \in Flagged(p) : Lookup(p) <= j
      BY <2>7 DEF Lookup
    <3> QED
      BY <3>1, <3>2
  <2> QED
    BY <2>2, <2>3, <2>7, <2>8
<1> QED
  BY <1>1, <1>2

LEMMA StrlenSearches ==
  ASSUME Inv, call \in CallType, call.op = "strlen", call.k = 0, call.d # Null, Terminated(before, call.d),
         mem = before, StrlenAt, Strlen
  PROVE  UNCHANGED <<call, before, mem>> /\ (StrlenAt' \/ (todo' = <<>> /\ FoundFirst'))
<1> DEFINE q == call.d
           p == d + off
<1>1. /\ q \in Nat /\ off \in Nat /\ d = q /\ p = q + off /\ p \in Nat /\ SsizeBytes \in Nat \ {0}
      /\ \A i \in 0 .. off - 1 : before[q + i] # 0
      /\ Space \subseteq Nat /\ before \in [Space -> Bytes] /\ mem = before
  BY SpaceAssumption DEF StrlenAt, Passed, Inv, TypeOK, CallType
<1>2. UNCHANGED <<call, before, mem>>
  BY DEF Strlen, Finish
<1>3. PICK e \in Space : e >= q /\ before[e] = 0 /\ q .. e + SsizeBytes \subseteq Space
  BY DEF Terminated
<1>a. todo = <<Job("strlen", call.d, 0, 0)>> /\ found = Null /\ level = 1
  BY DEF StrlenAt
<1> HIDE DEF q, p
\* The search has not passed the end of the string.
<1>4. e \in Nat /\ p <= e
  <2>1. e \in Nat
    BY <1>1
  <2> DEFINE i == e - q
  <2>2. i \in Nat /\ q + i = e
    BY <1>1, <1>3, <2>1
  <2> HIDE DEF i
  <2>3. ~(i \in 0 .. off - 1)
    BY <1>1, <1>3, <2>2
  <2> QED
    BY <1>1, <2>1, <2>2, <2>3
<1>5. \A i \in 0 .. SsizeBytes : p + i \in Space
  <2> SUFFICES ASSUME NEW i \in 0 .. SsizeBytes PROVE p + i \in Space
    OBVIOUS
  <2>1. p + i \in q .. e + SsizeBytes
    BY <1>1, <1>4
  <2> QED
    BY <1>3, <2>1
<1>6. \A i \in 0 .. SsizeBytes - 1 : mem[p + i] \in Bytes
  <2> SUFFICES ASSUME NEW i \in 0 .. SsizeBytes - 1 PROVE mem[p + i] \in Bytes
    OBVIOUS
  <2>1. p + i \in Space
    BY <1>1, <1>5
  <2> QED
    BY <1>1, <2>1
<1>7. /\ Flagged(p) = {} => \A i \in 0 .. SsizeBytes - 1 : mem[p + i] # 0
      /\ Flagged(p) # {} => /\ Lookup(p) \in 0 .. SsizeBytes - 1 /\ mem[p + Lookup(p)] = 0
                            /\ \A i \in 0 .. Lookup(p) - 1 : mem[p + i] # 0
  BY <1>1, <1>6, WordTest
\* w more bytes are passed.
<1>8. ASSUME NEW w \in Nat, off' = off + w, \A i \in 0 .. w - 1 : mem[p + i] # 0,
             UNCHANGED <<todo, found, level, d>>
      PROVE  StrlenAt'
  <2>1. \A i \in 0 .. off' - 1 : before[q + i] # 0
    <3> SUFFICES ASSUME NEW i \in 0 .. off' - 1 PROVE before[q + i] # 0
      OBVIOUS
    <3>1. CASE i \in 0 .. off - 1
      BY <1>1, <3>1
    <3>2. CASE i \notin 0 .. off - 1
      <4> DEFINE j == i - off
      <4>1. j \in 0 .. w - 1 /\ p + j = q + i
        BY <1>1, <1>8, <3>2
      <4> HIDE DEF j
      <4> QED
        BY <1>1, <1>8, <4>1
    <3> QED
      BY <3>1, <3>2
  <2>2. Passed(0)'
    BY <1>2, <2>1 DEF Passed, q
  <2>3. d' = call.d'
    BY <1>1, <1>2, <1>8 DEF q
  <2> QED
    BY <1>2, <1>8, <1>a, <2>2, <2>3 DEF StrlenAt
\* The first zero is z bytes ahead.
<1>9. ASSUME NEW z \in 0 .. SsizeBytes - 1, mem[p + z] = 0, \A i \in 0 .. z - 1 : mem[p + i] # 0,
             found' = p + z, Finish
      PROVE  todo' = <<>> /\ FoundFirst'
  <2>1. todo' = <<>>
    BY <1>9, <1>a DEF Finish
  <2> DEFINE H == {a \in {b \in Space : b >= q} : before[a] = 0}
  <2>2. found' \in H
    <3>0. z \in 0 .. SsizeBytes /\ p + z >= q
      BY <1>1
    <3>1. p + z \in Space /\ p + z >= q
      BY <1>5, <3>0
    <3> QED
      BY <1>1, <1>9, <3>1
  <2>3. \A a \in H : found' <= a
    <3> SUFFICES ASSUME NEW a \in Space, a >= q, before[a] = 0, ~(p + z <= a) PROVE FALSE
      BY <1>9
    <3> DEFINE i == a - q
               j == a - p
    <3>1. a \in Nat /\ i \in Nat /\ q + i = a
      BY <1>1
    <3>2. CASE a < p
      <4>1. i \in 0 .. off - 1
        BY <1>1, <3>1, <3>2
      <4> HIDE DEF i
      <4> QED
        BY <1>1, <3>1, <4>1
    <3>3. CASE ~(a < p)
      <4>1. j \in 0 .. z - 1 /\ p + j = a
        BY <1>1, <3>1, <3>3
      <4> HIDE DEF j
      <4> QED
        BY <1>1, <1>9, <4>1
    <3> QED
      BY <3>2, <3>3
  <2>4. call.k % 256 = 0
    OBVIOUS
  <2>5. FoundFirst'
    <3> HIDE DEF H
    <3> DEFINE looked == {a \in Space : a >= call.d}
               hits == {a \in looked : before[a] = call.k % 256}
    <3>1. hits = H
      BY <2>4 DEF H, q
    <3>2. hits' = H
      BY <1>2, <3>1
    <3>3. hits' # {} /\ found' \in hits' /\ \A a \in hits' : found' <= a
      BY <2>2, <2>3, <3>2
    <3> QED
      BY <1>2, <3>3 DEF FoundFirst
  <2> QED
    BY <2>1, <2>5
<1>10. CASE /\ p % SsizeBytes # 0 /\ mem[p] # 0 /\ off' = off + 1
            /\ UNCHANGED <<call, granted, before, todo, base, level, d, s, n, tells, found, mem>>
  <2>1. \A i \in 0 .. 1 - 1 : mem[p + i] # 0
    BY <1>1, <1>10
  <2> QED
    BY <1>2, <1>8, <1>10, <2>1
<1>11. CASE /\ p % SsizeBytes = 0 /\ Flagged(p) = {} /\ off' = off + SsizeBytes
            /\ UNCHANGED <<call, granted, before, todo, base, level, d, s, n, tells, found, mem>>
  BY <1>1, <1>2, <1>7, <1>8, <1>11
<1>12. CASE p % SsizeBytes # 0 /\ mem[p] = 0 /\ found' = p /\ Finish
  <2>1. 0 \in 0 .. SsizeBytes - 1 /\ p + 0 = p /\ \A i \in 0 .. 0 - 1 : mem[p + i] # 0
    BY <1>1
  <2> QED
    BY <1>2, <1>9, <1>12, <2>1
<1>13. CASE p % SsizeBytes = 0 /\ Flagged(p) # {} /\ found' = p + Lookup(p) /\ Finish
  BY <1>2, <1>7, <1>9, <1>13
<1> QED
  BY <1>10, <1>11, <1>12, <1>13 DEF Strlen, p

LEMMA NextSearching ==
  ASSUME Inv, Given, Searching, [Next]_vars
  PROVE  Searching'
<1>1. UNCHANGED <<call, before>>
  BY DEF Next, vars, CopyWord, BackWord, FillWord, Narrow, EndJob, CompareEqual, CompareUnequal,
         CompareOverlooks, Chr, Strlen, Progress, Finish
<1> SUFFICES ASSUME call.op \in {"chr", "strlen"}, call.d # Null
             PROVE  /\ mem' = before
                    /\ (call.op = "chr" /\ ChrAt') \/ (call.op = "strlen" /\ StrlenAt') \/ (todo' = <<>> /\ FoundFirst')
  BY <1>1 DEF Searching
<1>2. /\ call \in CallType
      /\ call.op = "strlen" => call.k = 0 /\ Terminated(before, call.d)
  BY CaseAssumption DEF Given
<1>3. mem = before /\ ((call.op = "chr" /\ ChrAt) \/ (call.op = "strlen" /\ StrlenAt) \/ (todo = <<>> /\ FoundFirst))
  BY DEF Searching
<1>4. CASE UNCHANGED vars
  <2>1. UNCHANGED <<mem, todo, found, level, d, s, n, off>>
    BY <1>4 DEF vars, job
  <2>2. (ChrAt => ChrAt') /\ (StrlenAt => StrlenAt')
    BY <1>1, <2>1 DEF ChrAt, StrlenAt, Passed
  <2>3. FoundFirst => FoundFirst'
    BY <1>1, <2>1 DEF FoundFirst
  <2> QED
    BY <1>3, <2>1, <2>2, <2>3
<1>5. CASE Next
  <2>1. todo # <<>>
    BY <1>5 DEF Next, CopyWord, BackWord, FillWord, Narrow, EndJob, CompareEqual, CompareUnequal,
                CompareOverlooks, Chr, Strlen, Doing
  <2>2. (call.op = "chr" /\ ChrAt) \/ (call.op = "strlen" /\ StrlenAt)
    BY <1>3, <2>1
  <2>3. level = 1 /\ todo[1].kind = call.op
    BY <2>2 DEF ChrAt, StrlenAt, Job
  <2>4. ~(level > Len(Sizes))
    BY <2>3, SizesAre
  <2>5. (call.op = "chr" /\ Chr) \/ (call.op = "strlen" /\ Strlen)
    BY <1>5, <2>3, <2>4 DEF Next, CopyWord, BackWord, FillWord, Narrow, EndJob, CompareEqual, CompareUnequal,
                CompareOverlooks, Chr, Strlen, Doing
  <2>6. CASE call.op = "chr" /\ Chr /\ ChrAt
    BY <1>1, <1>2, <1>3, <2>6, ChrSearches
  <2>7. CASE call.op = "strlen" /\ Strlen /\ StrlenAt
    BY <1>1, <1>2, <1>3, <2>7, StrlenSearches
  <2> QED
    BY <2>2, <2>5, <2>6, <2>7
<1> QED
  BY <1>4, <1>5

LEMMA StartSearching == Init => Searching
<1> SUFFICES ASSUME Init, call.op \in {"chr", "strlen"}, call.d # Null
             PROVE  mem = before /\ ((call.op = "chr" /\ ChrAt) \/ (call.op = "strlen" /\ StrlenAt))
  BY DEF Searching
<1>1. PICK c \in Cases :
        /\ call = c.call /\ before = c.mem /\ mem = c.mem
        /\ granted \in {TRUE, ~Allocates(c.call)}
        /\ todo = (IF granted THEN Jobs(c.call) ELSE <<>>)
        /\ level = 1 /\ d = First(todo).d /\ s = First(todo).s /\ n = First(todo).n /\ off = 0
        /\ found = Null
  BY DEF Init
<1>2. call \in CallType
  BY <1>1, CaseAssumption
<1>3. todo = Jobs(call)
  <2>1. ~Allocates(call)
    BY DEF Allocates
  <2> QED
    BY <1>1, <2>1
<1>4. \A byte : Passed(byte)
  BY <1>1 DEF Passed
<1>a. \A o : todo = <<o>> => First(todo) = o
  BY DEF First
<1>5. CASE call.op = "chr"
  <2>1. todo = <<Job("chr", call.d, call.k, call.n)>>
    BY <1>3, <1>5 DEF Jobs
  <2>2. d = call.d /\ s = call.k /\ n = call.n
    <3>1. First(todo) = Job("chr", call.d, call.k, call.n)
      BY <1>a, <2>1
    <3> QED
      BY <1>1, <3>1 DEF Job
  <2>3. off <= n
    BY <1>1, <1>2, <2>2 DEF CallType
  <2> QED
    BY <1>1, <1>4, <1>5, <2>1, <2>2, <2>3 DEF ChrAt
<1>6. CASE call.op = "strlen"
  <2>1. todo = <<Job("strlen", call.d, 0, 0)>>
    BY <1>3, <1>6 DEF Jobs
  <2>2. d = call.d
    <3>1. First(todo) = Job("strlen", call.d, 0, 0)
      BY <1>a, <2>1
    <3> QED
      BY <1>1, <3>1 DEF Job
  <2> QED
    BY <1>1, <1>4, <1>6, <2>1, <2>2 DEF StrlenAt
<1> QED
  BY <1>5, <1>6

-----------------------------------------------------------------------------
(* The answers.                                                            *)

LEMMA AnswersInvariance == Spec => [](Comparing /\ Searching)
<1>1. Init => Comparing /\ Searching
  BY StartComparing, StartSearching
<1>2. Inv /\ Given /\ Comparing /\ Searching /\ [Next]_vars => Comparing' /\ Searching'
  <2> SUFFICES ASSUME Inv, Given, Comparing, Searching, [Next]_vars PROVE Comparing' /\ Searching'
    OBVIOUS
  <2>1. call \in CallType
    BY CaseAssumption DEF Given
  <2> QED
    BY <2>1, NextComparing, NextSearching
<1>3. DInv => Given
  BY DEF DInv
<1> QED
  BY <1>1, <1>2, <1>3, Invariance, DInvariance, PTL DEF Spec

\* What lv_memcmp, lv_memchr and lv_strlen answer is true: a difference is never
\* made up, and none of a region shorter than three of the widest words is
\* overlooked; the byte found is the first, although the word test of
\* lv_strlen flags bytes behind it that are not zero (lv_memcm_r.c,
\* lv_bitcmp.c:23).
THEOREM AnswersAreTrue == Spec => []AnswersTrue
<1>1. Comparing => CompareTells
  <2> SUFFICES ASSUME Comparing, todo = <<>>, call.op = "compare", Null \notin {call.d, call.s} PROVE CompareTells
    BY DEF CompareTells
  <2>1. ~Abreast
    BY DEF Abreast
  <2> QED
    BY <2>1 DEF Comparing
<1>2. Searching => FoundFirst
  <2> SUFFICES ASSUME Searching, todo = <<>>, call.op \in {"chr", "strlen"}, call.d # Null PROVE FoundFirst
    BY DEF FoundFirst
  <2>1. ~ChrAt /\ ~StrlenAt
    BY DEF ChrAt, StrlenAt
  <2> QED
    BY <2>1 DEF Searching
<1>3. Comparing /\ Searching => AnswersTrue
  BY <1>1, <1>2 DEF AnswersTrue
<1> QED
  BY <1>3, AnswersInvariance, PTL
=============================================================================
