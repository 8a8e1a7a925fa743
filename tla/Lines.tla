------------------------------- MODULE Lines -------------------------------
(***************************************************************************)
(* llv/src/io/get_next_line.c over lv_fgetc.c: one descriptor read line by *)
(* line, with two static strings that outlive the calls: the store, of     *)
(* what read has given, and out, the line so far. read may give any number *)
(* of bytes up to BUFSIZE, or fail; malloc may refuse.                     *)
(***************************************************************************)
EXTENDS TString

CONSTANTS
  Files,          \* contents of the descriptor
  BUFSIZE,
  MaxCalls,       \* bound on the calls of get_next_line
  MaxErrors       \* bound on the reads that fail

ASSUME BufferAssumption == BUFSIZE \in Nat \ {0}
ASSUME FilesAssumption == Files \subseteq Seq(0 .. 255)

VARIABLES
  file, rest,     \* what the descriptor held, and what is not read of it
  store, offset,  \* the statics of lv_fgetc
  out,            \* the static of get_next_line
  given,          \* the texts of the lines returned
  errors,         \* reads that failed
  upset,          \* a read has failed, or memory was refused to push or clone
  calls, reader   \* "idle", "reading", "ended" (at EOF) or "undefined"

linesVars == <<file, rest, store, offset, out, given, errors, upset, calls, reader>>

NL == 10
Hard == 255         \* as a char it equals EOF
EOF == -1

LinesInit ==
  /\ file \in Files /\ rest = file
  /\ store = NoString /\ offset = 0 /\ out = NoString /\ given = <<>>
  /\ errors = 0 /\ upset = FALSE /\ calls = 0 /\ reader = "idle"

-----------------------------------------------------------------------------
(* lv_fgetc: the outcomes of one call, with the character it returns.      *)

Got(st, at, left, c, failed) == [st |-> st, at |-> at, left |-> left, c |-> c, failed |-> failed]

\* Mutant: the store outlives the end of the file.
FromStoreKeeping(st, at, left) ==
  IF st.len = 0 THEN Got(st, at, left, EOF, FALSE)
  ELSE Got(st, at + 1, left, st.mem[at + 1], FALSE)
\* The next character of the store, or its end.
FromStore(st, at, left) ==
  IF st.len = 0 THEN Got(TstrFree(st), at, left, EOF, FALSE)
  ELSE Got(st, at + 1, left, st.mem[at + 1], FALSE)

\* readbuf given k bytes by read: the store holds those, and its next is returned.
Filled(st, k) ==
  {FromStore(t, 0, SubSeq(rest, k + 1, Len(rest))) : t \in TstrPushslice(st, SubSeq(rest, 1, k))}
Chunks == (IF rest = <<>> THEN 0 ELSE 1) .. Min({BUFSIZE, Len(rest)})

\* Mutant: the store is read over again.
ReadKeeping(st) == UNION {Filled(st, k) : k \in Chunks \union {0}}
\* The store is used up; readbuf fills it. read gives nothing only at the end.
Read(st) ==
  (UNION {Filled(TstrClear(st), k) : k \in Chunks})
  \union (IF errors < MaxErrors THEN {Got(TstrFree(TstrClear(st)), 0, rest, EOF, TRUE)} ELSE {})

Fgetc ==
  UNION {IF t.data = "null" THEN {Got(t, offset, rest, EOF, FALSE)}
         ELSE IF t.len = offset THEN Read(t)
         ELSE {FromStore(t, offset, rest)} :
         t \in (IF store.alloc = 0 THEN TstrNew(store, BUFSIZE) ELSE {store})}

-----------------------------------------------------------------------------
(* get_next_line.                                                          *)

\* A call: out is allocated unless a former call has left it.
Call ==
  /\ reader \in {"idle", "ended"} /\ calls < MaxCalls /\ calls' = calls + 1
  /\ \E o \in (IF out.alloc = 0 THEN TstrNew(out, BUFSIZE) ELSE {out}) :
       /\ out' = o
       /\ reader' = IF out.alloc = 0 /\ o.data = "null" THEN "idle" ELSE "reading"
  /\ UNCHANGED <<file, rest, store, offset, given, errors, upset>>

Took(g) ==
  /\ store' = g.st /\ offset' = g.at /\ rest' = g.left
  /\ errors' = IF g.failed THEN errors + 1 ELSE errors
  /\ UNCHANGED <<file, calls>>

\* Pushing the character c into o.
Pushed(o) == reader' = IF o.defined THEN "reading" ELSE "undefined"

\* One turn of its loop: a character of the line,
TakeChar ==
  \E g \in Fgetc :
    /\ reader = "reading" /\ g.c \notin {EOF, Hard, NL} /\ Took(g)
    /\ \E o \in TstrPush(out, g.c) :
         out' = o /\ Pushed(o) /\ upset' = (upset \/ o.refused > out.refused)
    /\ UNCHANGED given

\* the line feed that ends it: a copy of out is returned, and out is emptied,
TakeLine ==
  \E g \in Fgetc :
    /\ reader = "reading" /\ g.c = NL /\ Took(g)
    /\ \E o \in TstrPush(out, NL) : \E line \in TstrClone(o) :
         /\ out' = TstrClear(o) /\ reader' = IF o.defined THEN "idle" ELSE "undefined"
         /\ upset' = (upset \/ o.refused > out.refused \/ line.refused > 0)
         /\ given' = IF line.data = "live" THEN Append(given, TstrText(line)) ELSE given

\* Mutant: the line so far is kept for the next call.
DroppedKept(o) == o
Dropped(o) == TstrFree(o)
\* Mutant: the loop ends at a line feed only.
TakeEndGoingOn ==
  \E g \in Fgetc :
    /\ reader = "reading" /\ g.c \in {EOF, Hard} /\ Took(g)
    /\ UNCHANGED <<out, reader, upset, given>>
\* or what its loop takes for the end of the file: the line so far is dropped.
TakeEnd ==
  \E g \in Fgetc :
    /\ reader = "reading" /\ g.c \in {EOF, Hard} /\ Took(g)
    /\ out' = Dropped(out) /\ reader' = IF g.c = EOF THEN "ended" ELSE "idle"
    /\ upset' = (upset \/ g.failed) /\ UNCHANGED given

Take == TakeChar \/ TakeLine \/ TakeEnd
LinesNext == Call \/ Take

LinesSpec == LinesInit /\ [][LinesNext]_linesVars /\ WF_linesVars(Take)

-----------------------------------------------------------------------------
(* Properties.                                                             *)

\* The types of the two statics, and the place in the store.
LinesTypeOK ==
  /\ \A s \in {store, out} : s.len \in Nat /\ s.blocks \in Nat /\ s.data \in {"null", "live"}
  /\ offset \in 0 .. BUFSIZE /\ store.len <= BUFSIZE

\* What lv_fgetc has returned, as far as the file goes.
Consumed == SubSeq(file, 1, Len(file) - Len(rest) - (store.len - offset))

\* The lines of a text, each with its line feed; the byte 255 ends a piece that
\* is no line, and so does the end of the text.
Extend(acc, c) ==
  IF c = NL THEN [lines |-> Append(acc.lines, Append(acc.piece, c)), piece |-> <<>>]
  ELSE [acc EXCEPT !.piece = IF c = Hard THEN <<>> ELSE Append(@, c)]
LinesOf(text) ==
  LET acc[n \in 0 .. Len(text)] ==
        IF n = 0 THEN [lines |-> <<>>, piece |-> <<>>] ELSE Extend(acc[n - 1], text[n])
  IN  acc[Len(text)]

\* However read cuts the file up and however often get_next_line is called, its
\* lines are those of the bytes read, in order, none lost, doubled or joined,
\* and the line so far is the one begun; only a failing read, or memory refused
\* to a push or to the copy, loses any (get_next_line.c:17-28, lv_fgetc.c:31).
LinesExact ==
  ~upset =>
    /\ reader # "undefined" /\ given = LinesOf(Consumed).lines
    /\ TstrText(out) = IF store.data = "null" THEN <<>> ELSE LinesOf(Consumed).piece

\* At the end of the file both statics are released, and later calls start
\* anew; a block is lost only to a refused push (get_next_line.c:26, lv_fgetc.c:40).
EndReleases ==
  reader = "ended" =>
    /\ store.data = "null" /\ store.alloc = 0 /\ store.blocks <= store.refused
    /\ out.data = "null" /\ out.alloc = 0 /\ out.blocks <= out.refused

\* Every call returns, unless it meets the dead pointer of a refused push: the
\* loop of get_next_line ends once read says there is no more.
CallsReturn == (reader = "reading") ~> (reader # "reading")
=============================================================================
