------------------------------ MODULE TString ------------------------------
(***************************************************************************)
(* llv/src/tstr over llv/src/alloc: a growable string, under every         *)
(* sequence of calls and with memory refused at any of them. An operation  *)
(* is a set of outcomes. Writes are to the bytes of the block, and to the  *)
(* few that lv_alloc_align asks for and the alignment leaves over.         *)
(***************************************************************************)
EXTENDS Integers, Sequences, SequencesExt

CONSTANTS
  Chars,          \* the characters, without the terminator
  Slack,          \* spare bytes after any block
  MaxText,        \* bound on the length
  MaxAlloc,       \* bound on what is reserved
  MaxRefused      \* bound on the refusals of malloc

ASSUME SlackAssumption == Slack \in Nat \ {0}
ASSUME CharAssumption == Chars \subseteq Nat \ {0}

VARIABLES
  str,            \* the string
  said,           \* the text its calls have asked for
  sure            \* no call has lost it: see Upsets

stringVars == <<str, said, sure>>

NUL == 0
Unset == -1                          \* a byte nothing was stored to
RunOf(byte, n) == [i \in 1 .. n |-> byte]
Texts == BoundedSeq(Chars, 2)

\* t_string; what its data points to, the bytes of the block, the blocks taken
\* for it and not freed, the refusals it met, and no use of a dead pointer.
NoString == [data |-> "null", len |-> 0, alloc |-> 0, mem |-> <<>>,
             blocks |-> 0, refused |-> 0, defined |-> TRUE]
Emptied(s) == [s EXCEPT !.data = "null", !.len = 0, !.alloc = 0, !.mem = <<>>]

TstrText(s) == IF s.data = "live" /\ s.len <= Len(s.mem) THEN SubSeq(s.mem, 1, s.len) ELSE <<>>

TstrStore(s, at, bytes) ==
  IF bytes = <<>> THEN s
  ELSE IF s.data = "live" /\ at + Len(bytes) <= Len(s.mem)
  THEN [s EXCEPT !.mem = SubSeq(@, 1, at) \o bytes \o SubSeq(@, at + Len(bytes) + 1, Len(@))]
  ELSE [s EXCEPT !.defined = FALSE]

-----------------------------------------------------------------------------
(* lv_calloc, lv_alloc and lv_extend_zero for the data of s.               *)

TstrBlock(s, bytes) == [s EXCEPT !.data = "live", !.mem = bytes \o RunOf(Unset, Slack), !.blocks = @ + 1]
TstrRefused(s) == IF s.refused < MaxRefused THEN {[s EXCEPT !.refused = @ + 1]} ELSE {}
TstrFreed(s) ==
  IF s.data = "stale" THEN [s EXCEPT !.defined = FALSE]
  ELSE [s EXCEPT !.data = "null", !.mem = <<>>, !.blocks = IF s.data = "live" THEN @ - 1 ELSE @]

TstrGrown(s, n) ==
  IF s.data = "null" THEN TstrBlock(s, RunOf(NUL, s.alloc + n))
  ELSE IF s.data = "live" THEN TstrBlock(TstrFreed(s), SubSeq(s.mem, 1, s.alloc) \o RunOf(NUL, n))
  ELSE TstrFreed(s)

-----------------------------------------------------------------------------
(* The operations.                                                         *)

TstrNew(s, n) ==
  LET t == Emptied(s)
  IN  {TstrBlock([t EXCEPT !.alloc = n + 1], RunOf(NUL, n + 1))} \union TstrRefused(t)

TstrFromCstr(s, text) ==
  LET t == [Emptied(s) EXCEPT !.len = Len(text), !.alloc = Len(text) + 1]
  IN  {TstrBlock(t, text \o <<NUL>>)} \union TstrRefused(t)

\* The terminator is written after a block of n bytes; no block for none.
TstrFromSlice(s, text) ==
  LET t == [Emptied(s) EXCEPT !.len = Len(text), !.alloc = Len(text) + 1]
  IN  IF text = <<>> THEN {t}
      ELSE {TstrStore(TstrBlock(t, RunOf(Unset, Len(text))), 0, text \o <<NUL>>)} \union TstrRefused(t)

TstrJoin(s, text) == [TstrStore(s, s.len, Append(text, NUL)) EXCEPT !.len = @ + Len(text)]

\* A refusal forgets the block; asked for no bytes, lv_extend_zero frees it.
TstrPush(s, c) ==
  IF s.len + 1 < s.alloc THEN {TstrJoin(s, <<c>>)}
  ELSE IF s.alloc = 0 /\ s.data # "null" THEN {TstrFreed(s)}
  ELSE {TstrJoin([TstrGrown(s, s.alloc) EXCEPT !.alloc = 2 * @], <<c>>)}
         \union TstrRefused([s EXCEPT !.data = "null", !.mem = <<>>, !.alloc = 2 * @])

\* lv_tstr_pushstr too. More is asked for than is recorded.
TstrPushslice(s, text) ==
  LET needed == s.len + Len(text) + 1
  IN  IF needed <= s.alloc THEN {TstrJoin(s, text)}
      ELSE {TstrJoin([TstrGrown(s, 2 * (needed - s.alloc)) EXCEPT !.alloc = needed], text)} \union TstrRefused(s)

TstrRepeat(s, chunk, times) ==
  LET text == FlattenSeq(RunOf(chunk, times))
      needed == s.len + Len(text) + 1
  IN  IF times = 0 THEN {s}
      ELSE IF needed <= s.alloc THEN {TstrJoin(s, text)}
      ELSE {TstrJoin([TstrGrown(s, needed) EXCEPT !.alloc = needed], text)} \union TstrRefused(s)

TstrReserve(s, n) ==
  IF s.data = "null" \/ n = 0 \/ s.alloc >= s.len + n THEN {s}
  ELSE {[TstrGrown(s, n) EXCEPT !.alloc = @ + n]} \union TstrRefused(s)

TstrPop(s) ==
  IF s.data = "null" \/ s.len = 0 THEN s
  ELSE [TstrStore(s, s.len - 1, <<NUL>>) EXCEPT !.len = @ - 1]

TstrClear(s) == IF s.data = "null" THEN s ELSE [TstrStore(s, 0, RunOf(NUL, s.len)) EXCEPT !.len = 0]

\* Mutant: no room for the terminator.
TstrFitShort(s) ==
  IF s.len = s.alloc \/ s.data # "live" THEN {s}
  ELSE {[TstrBlock(TstrFreed(s), SubSeq(s.mem, 1, s.len)) EXCEPT !.alloc = s.len]}
\* lv_realloc frees the old block whether or not there is a new one.
TstrFit(s) ==
  IF s.len + 1 = s.alloc THEN {s}
  ELSE IF s.data = "null"
  THEN {[TstrBlock(s, RunOf(Unset, s.len + 1)) EXCEPT !.alloc = s.len + 1]} \union TstrRefused(s)
  ELSE IF s.data = "stale" THEN {TstrFreed(s)}
  ELSE LET kept == SubSeq(s.mem, 1, Min({s.alloc, s.len + 1})) \o RunOf(Unset, s.len + 1 - s.alloc)
       IN  {[TstrBlock(TstrFreed(s), kept) EXCEPT !.alloc = s.len + 1]}
             \union TstrRefused([TstrFreed(s) EXCEPT !.data = "stale"])

Trimmed(text, set) == LET kept == {i \in 1 .. Len(text) : text[i] \notin set}
                      IN  IF kept = {} THEN <<>> ELSE SubSeq(text, Min(kept), Max(kept))
TstrTrim(s, set) ==
  LET text == Trimmed(TstrText(s), set)
  IN  IF s.data = "null" \/ s.len = 0 THEN s
      ELSE [TstrStore(TstrStore(s, 0, text), Len(text), RunOf(NUL, s.alloc - Len(text)))
              EXCEPT !.len = Len(text)]

TstrFree(s) == Emptied(TstrFreed(s))

\* The copy; lv_tstr_dup_cstr returns its data.
TstrClone(s) ==
  LET t == [NoString EXCEPT !.len = s.len, !.alloc = s.alloc]
  IN  IF s.alloc = 0 THEN {NoString}
      ELSE IF s.data = "null" THEN {t}
      ELSE {TstrBlock(t, SubSeq(s.mem, 1, s.alloc))} \union TstrRefused(t)

-----------------------------------------------------------------------------
(* One string and its calls.                                               *)

StringInit == str = NoString /\ said = <<>> /\ sure = TRUE

Obtained(t) == t.refused = str.refused
Unowned == str.data = "null" /\ str.alloc = 0
WithinBounds(k) == str.len + k <= MaxText /\ Len(said) + k <= MaxText /\ str.alloc <= MaxAlloc

\* str' is t; text is what was asked for, unless memory was refused.
Calls(t, text) ==
  /\ str' = t /\ said' = IF Obtained(t) THEN text ELSE said
  /\ UNCHANGED sure

\* The same for the calls that lose the text when memory is refused, or when
\* they are given a string that was never allocated.
Upsets(t, text, fresh) ==
  /\ str' = t /\ said' = IF Obtained(t) THEN text ELSE said
  /\ sure' = (sure /\ Obtained(t) /\ fresh)

CallNew == Unowned /\ \E n \in 0 .. 2 : \E t \in TstrNew(str, n) : Calls(t, <<>>)
CallFromCstr ==
  Unowned /\ \E x \in Texts : WithinBounds(Len(x)) /\ \E t \in TstrFromCstr(str, x) : Upsets(t, x, TRUE)
CallFromSlice ==
  Unowned /\ \E x \in Texts : WithinBounds(Len(x)) /\ \E t \in TstrFromSlice(str, x) : Upsets(t, x, x # <<>>)
CallPush ==
  \E c \in Chars : WithinBounds(1) /\ \E t \in TstrPush(str, c) : Upsets(t, Append(said, c), str.alloc > 0)
CallPushSlice ==
  \E x \in Texts : WithinBounds(Len(x)) /\ \E t \in TstrPushslice(str, x) : Calls(t, said \o x)
CallRepeat ==
  \E x \in Texts, times \in 0 .. 2 :
    /\ WithinBounds(times * Len(x))
    /\ \E t \in TstrRepeat(str, x, times) : Calls(t, said \o FlattenSeq(RunOf(x, times)))
CallReserve == \E n \in 0 .. 2 : WithinBounds(0) /\ \E t \in TstrReserve(str, n) : Calls(t, said)
CallPop == Calls(TstrPop(str), IF said = <<>> THEN said ELSE Front(said))
CallClear == Calls(TstrClear(str), <<>>)
CallFit == \E t \in TstrFit(str) : Upsets(t, said, str.data # "null" \/ str.alloc = str.len + 1)
CallTrim == \E set \in SUBSET Chars : Calls(TstrTrim(str, set), Trimmed(said, set))
CallFree == Calls(TstrFree(str), <<>>)

StringNext ==
  /\ str.defined
  /\ \/ CallNew \/ CallFromCstr \/ CallFromSlice \/ CallPush \/ CallPushSlice \/ CallRepeat \/ CallReserve
     \/ CallPop \/ CallClear \/ CallFit \/ CallTrim \/ CallFree

StringSpec == StringInit /\ [][StringNext]_stringVars

-----------------------------------------------------------------------------
(* Properties.                                                             *)

\* The types; a length is never negative.
StringTypeOK ==
  /\ str.data \in {"null", "live", "stale"} /\ str.len \in Nat /\ str.alloc \in Nat
  /\ str.mem \in Seq(Chars \union {NUL, Unset}) /\ str.blocks \in Nat
  /\ said \in Seq(Chars) /\ sure \in BOOLEAN

\* After any sequence of calls a string holds exactly the text asked for,
\* terminated, in one block, and no call has written past that block's spare
\* bytes: unless memory was refused to lv_tstr_push, lv_tstr_fit or a
\* constructor, one of the first two met a string without a block, or the
\* string is the slice of nothing; none of these tells its caller
\* (lv_tstr_push.c:13, lv_tstr_fit.c:9, lv_tstr_from_slice.c:18). Whatever
\* happened, a block is lost for a refusal only.
TextKept ==
  /\ sure =>
       /\ str.defined /\ str.data # "stale" /\ TstrText(str) = said
       /\ str.data = "live" => str.blocks = 1 /\ str.mem[str.len + 1] = NUL
       /\ str.data = "null" => str.blocks = 0 /\ said = <<>>
  /\ str.blocks - (IF str.data = "live" THEN 1 ELSE 0) \in 0 .. str.refused

=============================================================================
