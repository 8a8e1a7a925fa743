------------------------------- MODULE Memory -------------------------------
(***************************************************************************)
(* llv/src/mem: one call of a memory primitive, word by word on a memory   *)
(* of bytes. A call is a list of jobs (lv_memswap is three copies), a job  *)
(* runs through the word widths from the widest to the bytes. The loops    *)
(* are unrolled by two in the code; only a comparison can tell. Words are  *)
(* little-endian, as on the only target of the Makefile.                   *)
(***************************************************************************)
EXTENDS Integers, Sequences, SequencesExt

CONSTANTS
  Widths,         \* bytes of the words that are copied and compared
  FillWidths,     \* bytes of the words lv_memset writes
  SsizeBytes, IntBytes,  \* of a ssize_t and of an int
  Space,          \* the addresses; Null is not one of them
  Spare,          \* address of the block or buffer a call takes for itself
  BufferSize,     \* longest swap that needs no allocation
  Cases           \* the calls, each with the memory it finds

\* The last word is the byte; only the first can be wider than a ssize_t.
ASSUME WidthAssumption ==
  /\ \A ws \in {Widths, FillWidths} :
       /\ ws \in Seq(Nat \ {0}) /\ Len(ws) > 0 /\ ws[Len(ws)] = 1
  /\ \A k \in 2 .. Len(Widths) : Widths[k] <= SsizeBytes
ASSUME SpaceAssumption == Space \subseteq Nat \ {0} /\ {IntBytes, SsizeBytes} \subseteq Nat \ {0}

VARIABLES
  call,           \* the call: op, d, s, n, k (a byte or a chunk size)
  granted,        \* malloc has given the call the block it asks for
  before,         \* the memory it found
  mem,            \* the memory
  todo,           \* the jobs left, the current one first
  base,           \* the memory the current job found
  level,          \* position in the widths
  d, s, n,        \* its pointers, as of the start of this width, and bytes left
  off,            \* bytes done at this width
  tells,          \* what lv_memcmp returns: the bytes of its difference, {} for 0
  found           \* what lv_memchr or lv_strlen has found

job == <<level, d, s, n, off>>
vars == <<call, granted, before, mem, todo, base, job, tells, found>>

Null == 0
Bytes == 0 .. 255
CallType == [op : {"copy", "move", "fill", "swap", "take", "broadcast", "clone", "compare", "chr", "strlen"},
             d : Nat, s : Nat, n : Nat, k : Nat]
Upward(c) == c.s < c.d /\ c.s + c.n >= c.d

-----------------------------------------------------------------------------
(* The jobs of a call.                                                     *)

JobType == [kind : {"copy", "back", "fill", "compare", "chr", "strlen"}, d : Int, s : Int, n : Nat]
Job(kind, to, from, len) == [kind |-> kind, d |-> to, s |-> from, n |-> len]
Pointless(to, from, len) == (to = Null \/ from = Null \/ to = from) /\ len # 0

Copy(to, from, len) == IF Pointless(to, from, len) THEN <<>> ELSE <<Job("copy", to, from, len)>>
Fill(to, byte, len) == IF to = Null /\ len # 0 THEN <<>> ELSE <<Job("fill", to, byte, len)>>

Move(to, from, len) ==
  IF ~Pointless(to, from, len) /\ Upward(Job("move", to, from, len))
  THEN <<Job("back", to + len, from + len, len)>>
  ELSE Copy(to, from, len)

\* Mutant: the first region is overwritten before it is saved.
SwapUnsaved(p, q, len) ==
  IF p = Null \/ q = Null THEN <<>>
  ELSE Copy(p, q, len) \o Copy(Spare, p, len) \o Copy(q, Spare, len)
Swap(p, q, len) ==
  IF p = Null \/ q = Null THEN <<>>
  ELSE Copy(Spare, p, len) \o Copy(p, q, len) \o Copy(q, Spare, len)

Take(to, from, len) ==
  IF to = Null \/ from = Null THEN <<>> ELSE Copy(to, from, len) \o Fill(from, 0, len)

\* Mutant: one chunk too many where they fit exactly.
ChunkCountMore(len, chunk) == len \div chunk + 1
\* Whole chunks until n bytes are covered, or more than covered.
ChunkCount(len, chunk) == (len + chunk - 1) \div chunk
Broadcast(to, from, len, chunk) ==
  IF to = Null \/ from = Null \/ chunk = 0 THEN <<>>
  ELSE FlattenSeq([i \in 1 .. ChunkCount(len, chunk) |-> Copy(to + (i - 1) * chunk, from, chunk)])

Compare(p, q, len) == IF p = Null \/ q = Null \/ p = q THEN <<>> ELSE <<Job("compare", p, q, len)>>

Allocates(c) == c.op = "clone" \/ (c.op = "swap" /\ c.n > BufferSize)
Jobs(c) ==
  CASE c.op = "copy" -> Copy(c.d, c.s, c.n)
    [] c.op = "move" -> Move(c.d, c.s, c.n)
    [] c.op = "fill" -> Fill(c.d, c.k, c.n)
    [] c.op = "swap" -> IF c.n = 0 THEN <<>> ELSE Swap(c.d, c.s, c.n)
    [] c.op = "take" -> IF c.n = 0 THEN <<>> ELSE Take(c.d, c.s, c.n)
    [] c.op = "broadcast" -> IF c.n = 0 THEN <<>> ELSE Broadcast(c.d, c.s, c.n, c.k)
    [] c.op = "clone" -> IF c.s = Null \/ c.n = 0 THEN <<>> ELSE Move(Spare, c.s, c.n)
    [] c.op = "compare" -> Compare(c.d, c.s, c.n)
    [] c.op = "chr" -> <<Job("chr", c.d, c.k, c.n)>>
    [] c.op = "strlen" -> IF c.d = Null THEN <<>> ELSE <<Job("strlen", c.d, 0, 0)>>

OneNull(c) == c.op = "compare" /\ c.n # 0 /\ c.d # c.s /\ Null \in {c.d, c.s}

First(q) == IF q = <<>> THEN Job("none", Null, Null, 0) ELSE q[1]

\* The calls are made on memory that exists, lv_strlen on terminated strings.
Reads(o) ==
  /\ o.kind = "copy" => o.s .. o.s + o.n - 1 \subseteq Space
  /\ o.kind = "back" => \A w \in Range(Widths) : o.s - o.n + w .. o.s + w - 1 \subseteq Space
\* The word with the last byte of the string can be read.
Terminated(m, p) == \E e \in Space : e >= p /\ m[e] = 0 /\ p .. e + SsizeBytes \subseteq Space
ASSUME CaseAssumption ==
  \A c \in Cases :
    /\ c.call \in CallType
    /\ c.mem \in [Space -> Bytes] /\ Jobs(c.call) \in Seq(JobType)
    /\ \A i \in DOMAIN Jobs(c.call) : Reads(Jobs(c.call)[i])
    /\ c.call.op = "strlen" => c.call.k = 0 /\ (c.call.d # Null => Terminated(c.mem, c.call.d))
\* What a call takes for itself lies apart from the regions it is given, and a
\* block of the allocator (lv_alloc.c) after the header it begins with.
ASSUME SpareAssumption ==
  /\ Spare \in Nat \ {0}
  /\ \A c \in Cases : \A p \in {c.call.d, c.call.s} :
       /\ c.call.op = "swap" /\ p # Null => p + c.call.n <= Spare \/ Spare + c.call.n <= p
       /\ c.call.op = "clone" /\ p = c.call.s => p + c.call.n < Spare \/ Spare + c.call.n <= p

Init ==
  \E c \in Cases :
    /\ call = c.call /\ before = c.mem /\ mem = c.mem /\ base = c.mem
    /\ granted \in {TRUE, ~Allocates(c.call)}
    /\ todo = (IF granted THEN Jobs(c.call) ELSE <<>>)
    /\ level = 1 /\ d = First(todo).d /\ s = First(todo).s /\ n = First(todo).n /\ off = 0
    /\ tells = (IF OneNull(c.call) THEN {0} ELSE {}) /\ found = Null

-----------------------------------------------------------------------------
(* The steps of a job.                                                     *)

Doing(kind) == todo # <<>> /\ todo[1].kind = kind
Sizes == IF Doing("fill") THEN FillWidths ELSE Widths
Width == Sizes[level]
HasWord == level <= Len(Sizes) /\ n >= Width

\* The memory with the word of w bytes at p replaced.
Written(p, w, New(_)) == [a \in DOMAIN mem |-> IF a \in p .. p + w - 1 THEN New(a - p) ELSE mem[a]]
Progress(w) == off' = off + w /\ n' = n - w /\ UNCHANGED <<call, granted, before, todo, base, level, d, s, tells, found>>

Byte(c) == c % 256

\* Mutant: the word is read one byte further.
FromNext(p, i) == mem[p + i + 1]
From(p, i) == mem[p + i]

CopyWord ==
  /\ Doing("copy") /\ HasWord
  /\ mem' = Written(d + off, Width, LAMBDA i : From(s + off, i))
  /\ Progress(Width)

\* From the word that starts one past the end of the region.
BackWord ==
  /\ Doing("back") /\ HasWord
  /\ mem' = Written(d - off, Width, LAMBDA i : From(s - off, i))
  /\ Progress(Width)

FillWord ==
  /\ Doing("fill") /\ HasWord
  /\ mem' = Written(d + off, Width, LAMBDA i : Byte(s))
  /\ Progress(Width)

\* The words of this width are done, and the pointers stored.
Narrow ==
  /\ todo # <<>> /\ todo[1].kind \in {"copy", "back", "fill", "compare"}
  /\ level <= Len(Sizes) /\ n < Width
  /\ LET way == IF Doing("back") THEN -off ELSE off
     IN  d' = d + way /\ s' = IF Doing("fill") THEN s ELSE s + way
  /\ level' = level + 1 /\ off' = 0
  /\ UNCHANGED <<call, granted, before, mem, todo, base, n, tells, found>>

Finish ==
  /\ todo' = Tail(todo) /\ base' = mem
  /\ level' = 1 /\ off' = 0
  /\ d' = First(todo').d /\ s' = First(todo').s /\ n' = First(todo').n
  /\ UNCHANGED <<call, granted, before, mem>>

EndJob == todo # <<>> /\ level > Len(Sizes) /\ Finish /\ UNCHANGED <<tells, found>>

-----------------------------------------------------------------------------
(* Comparing. n goes down by pairs of words, and the pointers are stored   *)
(* at the end of a width only. A difference is returned as a ssize_t, so   *)
(* one of wide words that lies beyond its bytes is taken for none: the     *)
(* next width starts over from the stored pointers, with the n left.       *)

Differing(o) == {i \in 0 .. Width - 1 : mem[d + o + i] # mem[s + o + i]}
Turn == IF n >= 2 * Width THEN 2 ELSE 1
Unequal == {j \in 0 .. Turn - 1 : Differing(off + j * Width) # {}}
FirstDiff == Differing(off + (IF 0 \in Unequal THEN 0 ELSE 1) * Width)
Returned(bytes) == bytes \intersect 0 .. SsizeBytes - 1

CompareEqual == Doing("compare") /\ HasWord /\ Unequal = {} /\ Progress(Turn * Width) /\ UNCHANGED mem

CompareUnequal ==
  /\ Doing("compare") /\ HasWord /\ Unequal # {} /\ Returned(FirstDiff) # {}
  /\ tells' = Returned(FirstDiff) /\ Finish /\ UNCHANGED found

CompareOverlooks ==
  /\ Doing("compare") /\ HasWord /\ Unequal # {} /\ Returned(FirstDiff) = {}
  /\ level' = level + 1 /\ off' = 0
  /\ UNCHANGED <<call, granted, before, mem, todo, base, d, s, n, tells, found>>

\* lv_strncmp returns what lv_memcmp does as an int.
PrefixMatches == tells \intersect 0 .. IntBytes - 1 = {}

-----------------------------------------------------------------------------
(* Looking for a byte.                                                     *)

Chr ==
  /\ Doing("chr")
  /\ \/ /\ off < n /\ mem[d + off] # Byte(s)
        /\ off' = off + 1 /\ UNCHANGED <<call, granted, before, mem, todo, base, level, d, s, n, tells, found>>
     \/ /\ off < n /\ mem[d + off] = Byte(s)
        /\ found' = d + off /\ Finish /\ UNCHANGED tells
     \/ /\ off >= n /\ Finish /\ UNCHANGED <<tells, found>>

\* (word - ones) & ~word & highs: which bytes it flags, borrows included.
Flagged(p) ==
  LET borrow[i \in 0 .. SsizeBytes - 1] == IF i = 0 THEN 0 ELSE IF mem[p + i - 1] < 1 + borrow[i - 1] THEN 1 ELSE 0
  IN  {i \in 0 .. SsizeBytes - 1 : mem[p + i] < 128 /\ (mem[p + i] - 1 - borrow[i]) % 256 >= 128}
\* Mutant: the highest flag is taken.
LookupHigh(p) == CHOOSE i \in Flagged(p) : \A j \in Flagged(p) : j <= i
Lookup(p) == CHOOSE i \in Flagged(p) : \A j \in Flagged(p) : i <= j

\* Bytes up to an aligned address, then words.
Strlen ==
  /\ Doing("strlen")
  /\ LET p == d + off
     IN  \/ /\ p % SsizeBytes # 0 /\ mem[p] # 0 /\ off' = off + 1
            /\ UNCHANGED <<call, granted, before, mem, todo, base, level, d, s, n, tells, found>>
         \/ /\ p % SsizeBytes = 0 /\ Flagged(p) = {} /\ off' = off + SsizeBytes
            /\ UNCHANGED <<call, granted, before, mem, todo, base, level, d, s, n, tells, found>>
         \/ /\ p % SsizeBytes # 0 /\ mem[p] = 0
            /\ found' = p /\ Finish /\ UNCHANGED tells
         \/ /\ p % SsizeBytes = 0 /\ Flagged(p) # {}
            /\ found' = p + Lookup(p) /\ Finish /\ UNCHANGED tells

Next ==
  \/ CopyWord \/ BackWord \/ FillWord \/ Narrow \/ EndJob
  \/ CompareEqual \/ CompareUnequal \/ CompareOverlooks
  \/ Chr \/ Strlen

Spec == Init /\ [][Next]_vars

-----------------------------------------------------------------------------
(* Properties.                                                             *)

Region(p, len) == p .. p + len - 1
Upwards(o) == o.s < o.d /\ o.d < o.s + o.n
Apart(c) == c.s + c.n <= c.d \/ c.d + c.n <= c.s

Copied(m, to, from, len) == [a \in DOMAIN m |-> IF a \in Region(to, len) THEN m[from + a - to] ELSE m[a]]
Filled(m, to, byte, len) == [a \in DOMAIN m |-> IF a \in Region(to, len) THEN byte ELSE m[a]]

\* The types of a call under way. Nothing a job reads lies outside the memory
\* it was given, so every byte it writes is one.
TypeOK ==
  /\ mem \in [Space -> Bytes] /\ base \in [Space -> Bytes]
  /\ todo \in Seq(JobType) /\ level \in Nat \ {0}
  /\ n \in Nat /\ off \in Nat /\ d \in Int /\ s \in Int

\* At every moment of a fill, and of a copy that is not made upwards onto
\* itself, the memory is the one the job found with the bytes done so far in
\* place, and no others; after the last width nothing is left to do
\* (mem_helpers/lv_memw_fw.c, lv_memst_w.c).
PrefixExact ==
  /\ Doing("copy") /\ ~Upwards(todo[1]) => mem = Copied(base, todo[1].d, todo[1].s, todo[1].n - n)
  /\ Doing("fill") => mem = Filled(base, todo[1].d, todo[1].s % 256, todo[1].n - n)
  /\ (Doing("copy") \/ Doing("fill")) /\ level > Len(Sizes) => n = 0

\* What a call promises, as one step on the memory it found.
Promised(c) ==
  /\ c.n > 0 /\ Null \notin {c.d, c.s}
  /\ CASE c.op \in {"copy", "swap", "take"} -> Apart(c)
       [] c.op = "move" -> c.s + c.n < c.d \/ c.d < c.s
       [] c.op = "broadcast" -> /\ c.k > 0 /\ c.n % c.k = 0
                                /\ c.s + c.k <= c.d \/ c.d + c.n <= c.s
       [] OTHER -> TRUE
Image(c) ==
  CASE c.op \in {"copy", "move"} -> Copied(before, c.d, c.s, c.n)
    [] c.op = "clone" -> Copied(before, Spare, c.s, c.n)
    [] c.op = "fill" -> Filled(before, c.d, c.k % 256, c.n)
    [] c.op = "take" -> Filled(Copied(before, c.d, c.s, c.n), c.s, 0, c.n)
    [] c.op = "broadcast" ->
         [a \in Space |-> IF a \in Region(c.d, c.n) THEN before[c.s + ((a - c.d) % c.k)] ELSE before[a]]
    [] c.op = "swap" -> Copied(Copied(Copied(before, Spare, c.d, c.n), c.d, c.s, c.n), c.s, Spare, c.n)
    [] OTHER -> before

\* A finished call has done to the memory what it stands for: a swap of two
\* regions through the buffer, a chunk repeated over a whole number of chunks,
\* a move to a lower address; a call that got no memory has done nothing.
CallExact ==
  todo = <<>> =>
    IF ~granted THEN mem = before ELSE Promised(call) => mem = Image(call)

\* Where a call may write. A move upwards onto itself reaches up to one word
\* past the region; a broadcast covers whole chunks.
Overshoot(len) == CHOOSE w \in Range(Widths) : w <= len /\ \A x \in Range(Widths) : x <= len => x <= w
Reach(c) ==
  CASE c.n = 0 -> {}
    [] c.n > 0 /\ c.op = "move" /\ Upward(c) -> Region(c.d + 1, c.n + Overshoot(c.n) - 1)
    [] c.n > 0 /\ c.op \in {"copy", "move", "fill"} /\ ~(c.op = "move" /\ Upward(c)) -> Region(c.d, c.n)
    [] c.n > 0 /\ c.op = "clone" -> Region(Spare, c.n)
    [] c.n > 0 /\ c.op = "take" -> Region(c.d, c.n) \union Region(c.s, c.n)
    [] c.n > 0 /\ c.op = "swap" -> Region(c.d, c.n) \union Region(c.s, c.n) \union Region(Spare, c.n)
    [] c.n > 0 /\ c.op = "broadcast" /\ c.k > 0 -> Region(c.d, c.n + ((-c.n) % c.k))
    [] OTHER -> {}

\* At no moment of a call is a byte changed outside its reach; lv_memmove can
\* leave the region it is given, upward, by up to one word: 16 bytes moved to d
\* are first written to d + 16 .. d + 31 (lv_memmove.c:14-16).
Contained == \A a \in Space \ Reach(call) : mem[a] = before[a]

\* lv_memcmp tells equal regions from different ones, for regions shorter than
\* three of the widest words; of longer ones a difference may be overlooked,
\* but is never made up (lv_memcm_r.c:99).
CompareTells ==
  todo = <<>> /\ call.op = "compare" /\ Null \notin {call.d, call.s} =>
    LET equal == \A i \in 0 .. call.n - 1 : before[call.d + i] = before[call.s + i]
    IN  /\ equal => tells = {}
        /\ tells = {} /\ call.n < 3 * Widths[1] => equal

\* lv_memchr and lv_strlen find the first of the bytes they look for, although
\* the word test of lv_strlen flags others behind it (lv_bitcmp.c:23).
FoundFirst ==
  todo = <<>> /\ call.op \in {"chr", "strlen"} /\ call.d # Null =>
    LET looked == IF call.op = "chr" THEN Region(call.d, call.n) ELSE {a \in Space : a >= call.d}
        hits == {a \in looked : before[a] = call.k % 256}
    IN  IF hits = {} THEN found = Null ELSE found \in hits /\ \A a \in hits : found <= a

\* What a finished comparison or search answers is true.
AnswersTrue == CompareTells /\ FoundFirst

\* main takes an argument for --stacksize=N (README.md:55) only if it starts
\* with those twelve characters (lvbfc.c:106).
PrefixRecognised ==
  todo = <<>> /\ call.op = "compare" =>
    (PrefixMatches <=> \A i \in 0 .. call.n - 1 : before[call.d + i] = before[call.s + i])
=============================================================================
