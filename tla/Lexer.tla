------------------------------- MODULE Lexer --------------------------------
(***************************************************************************)
(* src/lexer.c: read_file keeps the characters the flags enable, lex folds *)
(* them into run-length tokens held in an llv vector, cancelling opposite  *)
(* neighbours as it goes, then walks the tokens once to match brackets and *)
(* to reject (strict) or warn about (--no-strict) loops without a '-'.     *)
(*                                                                         *)
(* The vector is modelled down to its slots, because lex keeps a raw       *)
(* pointer (prev) into them across pushes, pops and reallocations.         *)
(***************************************************************************)
EXTENDS Tokens

CONSTANTS
  Files,          \* the contents the input file may have
  OptionSets,     \* records [strict, x, can, intr : BOOLEAN, stacksize : Nat]
  InitialCap,     \* slots lv_vec allocates at first (100 in the code)
  MaxWarnings,    \* warnings printed before they are cut off (5 in the code)
  MayFail         \* whether opening, ftell, malloc and growing may fail

ASSUME FilesAssumption == Files \subseteq Seq(STRING)
OptionRecord ==
  [strict : BOOLEAN, x : BOOLEAN, can : BOOLEAN, intr : BOOLEAN, stacksize : Nat]
ASSUME OptionsAssumption == OptionSets \subseteq OptionRecord
ASSUME InitialCapAssumption == InitialCap \in Nat \ {0}
ASSUME MaxWarningsAssumption == MaxWarnings \in Nat \ {0}
ASSUME MayFailAssumption == MayFail \in BOOLEAN

VARIABLES
  file, opts,     \* the input, fixed for a run of the compiler
  fsize,          \* what ftell tells of the file's size, fixed as well
  pc,             \* where the front end is
  fpos,           \* characters of the file read so far
  src, pos,       \* the filtered text and how much of it is consumed
  slots,          \* memory of the current block of the vector `out`
  size,           \* out.size
  block,          \* which allocation the vector owns: grows at each realloc
  prev,           \* the pointer prev: a block and a slot of it
  dropped,        \* whether a push has lost its token
  st, stsize,     \* the tape estimate and the tape size handed to emit
  i, plevel,      \* the checking loop
  wc, log,        \* its warning counter and what it printed
  srcFrees, vec   \* frees of src so far; what became of the vector

vars == <<file, opts, fsize, pc, fpos, src, pos, slots, size, block, prev, dropped, st,
          stsize, i, plevel, wc, log, srcFrees, vec>>
scanVars == <<src, pos, slots, size, block, prev, dropped, st>>
checkVars == <<i, plevel, wc, log>>
endVars == <<stsize, srcFrees, vec>>

Null == [block |-> 0, slot |-> 0]
Exceeded == -1                      \* the "max number warnings" line in log
out == SubSeq(slots, 1, size)

\* ftell is not checked. It may fail (-1: the file is a pipe), and the file
\* may grow between ftell and the end of the loop that reads it.
Told(f) == IF MayFail THEN -1 .. Len(f) ELSE {Len(f)}

Init ==
  /\ file \in Files
  /\ opts \in OptionSets
  /\ fsize \in Told(file)
  /\ pc = "read" /\ fpos = 0
  /\ src = <<>> /\ pos = 0
  /\ slots = [k \in 1 .. InitialCap |-> Garbage]
  /\ size = 0 /\ block = 1 /\ prev = Null /\ dropped = FALSE
  /\ st = 0 /\ stsize = opts.stacksize
  /\ i = 0 /\ plevel = 0 /\ wc = 0 /\ log = <<>>
  /\ srcFrees = 0 /\ vec = "none"

-----------------------------------------------------------------------------
(* read_file: each character of the file is stored once per class it       *)
(* belongs to, in a block of fsize + 1 bytes.                              *)

\* Mutant: the characters of the extensions fall through to the last store.
CopiesTwice(c) ==
  [n \in 1 .. (IF opts.intr /\ c = "$" THEN 1 ELSE 0)
            + (IF c \in CoreOps \union ExtraOps THEN 1 ELSE 0) |-> c]

Copies(c) ==
  [n \in 1 .. (IF opts.intr /\ c = "$" THEN 1 ELSE 0)
            + (IF opts.x /\ c \in {";", "&", "="} THEN 1 ELSE 0)
            + (IF opts.can /\ c = "?" THEN 1 ELSE 0)
            + (IF c \in CoreOps THEN 1 ELSE 0) |-> c]

\* What the next turn stores: a character's copies, or the terminator.
Storing == IF fpos < Len(file) THEN Len(Copies(file[fpos + 1])) ELSE 1
Fits == Len(src) + Storing <= fsize + 1

ReadChar ==
  /\ pc = "read" /\ fpos < Len(file) /\ Fits
  /\ src' = src \o Copies(file[fpos + 1])
  /\ fpos' = fpos + 1
  /\ UNCHANGED <<file, opts, fsize, pc, pos, slots, size, block, prev, dropped, st,
                 checkVars, endVars>>

EndOfFile ==
  /\ pc = "read" /\ fpos = Len(file) /\ Fits
  /\ pc' = "scan"
  /\ vec' = "live"
  /\ UNCHANGED <<file, opts, fsize, fpos, scanVars, checkVars, stsize, srcFrees>>

\* lv_vec had no memory and returned a zeroed vector: no block, no slots, an
\* element size of zero. lex does not look.
NoVector ==
  /\ pc = "read" /\ fpos = Len(file) /\ Fits /\ MayFail
  /\ pc' = "scan"
  /\ vec' = "zeroed" /\ slots' = <<>>
  /\ UNCHANGED <<file, opts, fsize, fpos, src, pos, size, block, prev, dropped, st,
                 checkVars, stsize, srcFrees>>

\* A byte is stored past the block: undefined from here on.
Overrun ==
  /\ pc = "read" /\ ~Fits
  /\ pc' = "overrun"
  /\ UNCHANGED <<file, opts, fsize, fpos, scanVars, checkVars, endVars>>

\* fopen or malloc failed: main returns EXIT_FAILURE at once.
ReadFails ==
  /\ pc = "read" /\ fpos = 0 /\ MayFail
  /\ pc' = "unreadable"
  /\ UNCHANGED <<file, opts, fsize, fpos, scanVars, checkVars, endVars>>

-----------------------------------------------------------------------------
(* llv vector operations on `out`.                                         *)

IsRun(p, n) ==
  /\ n \in 1 .. Len(src) - p
  /\ \A k \in 1 .. n : src[p + k] = src[p + 1]
  /\ p + n < Len(src) => src[p + n + 1] # src[p + 1]


\* prev after `if (out.size > 0) prev = lv_vec_peek_last(&out)`.
Refreshed == IF size > 0 THEN [block |-> block, slot |-> size] ELSE prev

\* What prev points to; only a pointer into the live block has a value.
Pointee(p) == IF p.block = block /\ p.slot \in DOMAIN slots
              THEN slots[p.slot] ELSE Garbage


\* lv_vec_push: a full vector is copied to a zeroed block twice as large; if
\* that block cannot be had the token is not stored and nothing is reported.
Push(x) ==
  IF size + 1 <= Len(slots)
  THEN /\ slots' = [slots EXCEPT ![size + 1] = x]
       /\ size' = size + 1
       /\ UNCHANGED <<block, dropped>>
  ELSE \/ /\ vec = "live"
          /\ slots' = [k \in 1 .. 2 * Len(slots) |->
                         CASE k <= size -> slots[k]
                           [] k = size + 1 -> x
                           [] OTHER -> Zeroed]
          /\ size' = size + 1
          /\ block' = block + 1
          /\ UNCHANGED dropped
       \/ /\ MayFail
          /\ dropped' = TRUE
          /\ UNCHANGED <<slots, size, block>>

\* Mutant: the slot keeps its token.
PopDirty == size' = size - 1 /\ UNCHANGED <<slots, block, dropped>>

\* lv_vec_pop zeroes the slot it gives up.
Pop ==
  /\ slots' = [slots EXCEPT ![size] = Zeroed]
  /\ size' = size - 1
  /\ UNCHANGED <<block, dropped>>

SetPrev(t) ==
  /\ slots' = [slots EXCEPT ![Refreshed.slot] = t]
  /\ UNCHANGED <<size, block, dropped>>

-----------------------------------------------------------------------------
(* One iteration of the scanning loop: x is the next run, p what prev      *)
(* points to. The first disjunct whose condition holds is taken.           *)

Usable(p) == Refreshed # Null /\ p.op # NoOp /\ p.len # 0
Closes(p, x) == Usable(p) /\ x.op = "]" /\ p.op = "["
Opposes(p, x) == Usable(p) /\ <<p.op, x.op>> \in Cancelling \ {<<"[", "]">>}
AnnihilatesNever(p, x) == FALSE    \* mutant: equal additions are merged too
Annihilates(p, x) == Opposes(p, x) /\ x.op \in {"+", "-"} /\ x.len = p.len

\* "[" and "]" runs of equal length cancel.
CancelLoop(p, x) ==
  Closes(p, x) /\ x.len = p.len /\ Pop /\ UNCHANGED st

\* More closing than opening brackets: the rest of x replaces the token.
CloseMore(p, x) ==
  /\ Closes(p, x) /\ x.len > p.len
  /\ slots' = [slots EXCEPT ![size] = Tok("]", x.len - p.len)]
  /\ UNCHANGED <<size, block, dropped, st>>

CloseFewer(p, x) ==
  /\ Closes(p, x) /\ x.len < p.len
  /\ SetPrev(Tok("[", p.len - x.len)) /\ UNCHANGED st

Annihilate(p, x) == Annihilates(p, x) /\ Pop /\ UNCHANGED st

\* Mutant: the token keeps its operation whichever run is longer.
MergeOntoPrev(p, x) ==
  /\ Opposes(p, x) /\ ~Annihilates(p, x)
  /\ SetPrev(Tok(p.op, IF p.len > x.len THEN p.len - x.len ELSE x.len - p.len))
  /\ UNCHANGED st

\* Opposite runs merge into the longer one; equal moves leave a token of
\* length zero behind.
Merge(p, x) ==
  /\ Opposes(p, x) /\ ~Annihilates(p, x)
  /\ SetPrev(IF p.len > x.len THEN Tok(p.op, p.len - x.len)
                              ELSE Tok(x.op, x.len - p.len))
  /\ UNCHANGED st

Keep(p, x) ==
  /\ ~Closes(p, x) /\ ~Opposes(p, x)
  /\ st' = st + (IF x.op = ">" THEN x.len ELSE 0)
  /\ Push(x)

Scan ==
  /\ pc = "scan" /\ pos < Len(src)
  /\ prev' = Refreshed
  /\ \E n \in 1 .. Len(src) - pos :
       LET x == Tok(src[pos + 1], n)
           p == Pointee(Refreshed)
       IN  /\ IsRun(pos, n)
           /\ pos' = pos + n
           /\ \/ CancelLoop(p, x)
              \/ CloseMore(p, x)
              \/ CloseFewer(p, x)
              \/ Annihilate(p, x)
              \/ Merge(p, x)
              \/ Keep(p, x)
  /\ UNCHANGED <<file, opts, fsize, pc, fpos, src, checkVars, endVars>>

\* The first push on a zeroed vector that is granted its block of no bytes
\* copies none and counts a token, which is read back by the next turn or by
\* the checking loop: undefined from here on.
PushUnsized ==
  /\ pc = "scan" /\ pos < Len(src) /\ vec = "zeroed"
  /\ pc' = "astray"
  /\ UNCHANGED <<file, opts, fsize, fpos, scanVars, checkVars, endVars>>

EndScanNever == FALSE               \* mutant: the text has no terminator
EndScan ==
  /\ pc = "scan" /\ pos = Len(src)
  /\ pc' = "check"
  /\ UNCHANGED <<file, opts, fsize, fpos, scanVars, checkVars, endVars>>

-----------------------------------------------------------------------------
(* The checking loop; i counts tokens from 0 as the code does.             *)

cur == slots[i + 1]
\* Mutant: a run of brackets counts as one.
LevelPerToken == CASE cur.op = "[" -> plevel + 1
                   [] cur.op = "]" -> plevel - 1
                   [] OTHER -> plevel
LevelAfter == CASE cur.op = "[" -> plevel + cur.len
                [] cur.op = "]" -> plevel - cur.len
                [] OTHER -> plevel

\* `[`, one other operation, `]`.
TightLoop == /\ i + 2 < size
             /\ slots[i + 2].op # "-" /\ slots[i + 2].len = 1
             /\ slots[i + 3].op = "]"


\* hasm: a '-' occurs before the next ']' token (or the end of the vector).
HasMinus == \E j \in i + 2 .. size :
              /\ slots[j].op = "-"
              /\ \A k \in i + 2 .. j - 1 : slots[k].op # "]"

Suspicious == cur.op = "[" /\ (TightLoop \/ ~HasMinus)

\* Mutant: an error path forgets the vector.
RejectLeaking ==
  /\ pc' = "rejected"
  /\ srcFrees' = srcFrees + 1
  /\ UNCHANGED <<file, opts, fsize, fpos, scanVars, i, wc, log, stsize, vec>>

\* Every error path frees src and the vector, then exits.
Reject ==
  /\ pc' = "rejected"
  /\ srcFrees' = srcFrees + 1
  /\ vec' = "freed"
  /\ UNCHANGED <<file, opts, fsize, fpos, scanVars, i, wc, log, stsize>>

RejectClose ==
  /\ pc = "check" /\ i < size /\ LevelAfter < 0
  /\ plevel' = LevelAfter
  /\ Reject

RejectLoop ==
  /\ pc = "check" /\ i < size /\ LevelAfter >= 0
  /\ opts.strict
  /\ Suspicious
  /\ plevel' = LevelAfter
  /\ Reject

WarnsAlways == ~opts.strict /\ cur.op = "[" /\ ~HasMinus    \* mutant: no limit
Warns == ~opts.strict /\ cur.op = "[" /\ ~HasMinus /\ wc < MaxWarnings

\* The token passes; under --no-strict a loop without '-' is reported until
\* MaxWarnings reports were made, and then once that they are cut off.
Inspect ==
  /\ pc = "check" /\ i < size /\ LevelAfter >= 0
  /\ ~(opts.strict /\ Suspicious)
  /\ LET wc1  == IF Warns THEN wc + 1 ELSE wc
         full == cur.op = "[" /\ wc1 = MaxWarnings
     IN  /\ wc' = IF full THEN wc1 + 1 ELSE wc1
         /\ log' = log \o (IF Warns THEN <<i>> ELSE <<>>)
                       \o (IF full THEN <<Exceeded>> ELSE <<>>)
  /\ plevel' = LevelAfter
  /\ i' = i + 1
  /\ UNCHANGED <<file, opts, fsize, pc, fpos, scanVars, endVars>>

RejectOpen ==
  /\ pc = "check" /\ i = size /\ plevel # 0
  /\ Reject /\ UNCHANGED plevel

\* lex returns the vector; the tape grows to the estimate if that is larger.
Accept ==
  /\ pc = "check" /\ i = size /\ plevel = 0
  /\ pc' = "accepted"
  /\ stsize' = IF st > stsize THEN st ELSE stsize
  /\ srcFrees' = srcFrees + 1
  /\ vec' = "returned"
  /\ UNCHANGED <<file, opts, fsize, fpos, scanVars, checkVars>>

Ended == pc \in {"accepted", "rejected", "unreadable", "overrun", "astray"}
Stop == Ended /\ UNCHANGED vars

Next == \/ ReadChar \/ EndOfFile \/ NoVector \/ Overrun \/ ReadFails
        \/ Scan \/ PushUnsized \/ EndScan
        \/ RejectClose \/ RejectLoop \/ Inspect \/ RejectOpen \/ Accept
        \/ Stop

Spec == Init /\ [][Next]_vars /\ WF_vars(Next)

-----------------------------------------------------------------------------
(* Properties.                                                             *)

\* The type of every variable (lex's locals and the vector's fields).
TypeOK ==
  /\ file \in Seq(STRING) /\ opts \in OptionRecord
  /\ fsize \in Int
  /\ pc \in {"read", "scan", "check", "accepted", "rejected", "unreadable",
             "overrun", "astray"}
  /\ fpos \in 0 .. Len(file)
  /\ src \in Seq(CoreOps \union ExtraOps) /\ pos \in 0 .. Len(src)
  /\ slots \in Seq(Token) /\ size \in 0 .. Len(slots)
  /\ block \in Nat \ {0}
  /\ prev \in [block : 0 .. block, slot : 0 .. Len(slots)]
  /\ dropped \in BOOLEAN
  /\ st \in Nat /\ stsize \in Nat
  /\ i \in 0 .. size /\ plevel \in Int
  /\ wc \in 0 .. MaxWarnings + 1 /\ log \in Seq(Nat \union {Exceeded})
  /\ srcFrees \in 0 .. 1 /\ vec \in {"none", "live", "zeroed", "freed", "returned"}

\* lex dereferences prev without refreshing it when the vector is empty: it
\* must then point into the block the vector still owns, at a slot lv_vec_pop
\* zeroed, never into a freed block or an unwritten slot (lexer.c:63-65).
PrevLive ==
  pc = "scan" /\ size = 0 /\ prev # Null =>
    /\ prev.block = block
    /\ prev.slot \in DOMAIN slots
    /\ slots[prev.slot] = Zeroed

\* Folding only ever deletes cancelling neighbours: the tokens so far and the
\* text consumed so far reduce to the same stream (lexer.c:56-111).
FoldSound ==
  ~dropped => Reduce(UnfoldAll(out)) = Reduce(SubSeq(src, 1, pos))

\* What the later stages are handed: balanced brackets and no empty token
\* other than a cancelled move, whatever pushes were lost, and were the vector
\* never allocated (lexer.c:55, 112-181).
LexedForm ==
  pc = "accepted" =>
    /\ TokBalanced(out)
    /\ \A k \in 1 .. size : out[k].len > 0 \/ out[k].op \in {">", "<"}

\* "[" at p is the start of a loop with no loop inside that ends at q.
Innermost(s, p, q) == /\ s[p] = "[" /\ s[q] = "]"
                      /\ \A k \in p + 1 .. q - 1 : s[k] \notin {"[", "]"}
Barren(s, p) == /\ s[p] = "["
                /\ \A q \in p + 1 .. Len(s) :
                     s[q] = "-" => \E k \in p + 1 .. q - 1 : s[k] = "]"

\* Strict mode admits a program only if every innermost loop can decrease a
\* cell, and refuses a balanced one only for a loop with no '-' before the
\* next ']' (lexer.c:127-161).
StrictVerdict ==
  opts.strict =>
    LET s == UnfoldAll(out)
    IN  /\ pc = "accepted" =>
             \A p, q \in DOMAIN s : p < q /\ Innermost(s, p, q) =>
               \E k \in p + 1 .. q - 1 : s[k] = "-"
        /\ pc = "rejected" /\ TokBalanced(out) => \E p \in DOMAIN s : Barren(s, p)

\* A program is refused for its brackets exactly when its brackets, as
\* written, do not match: cancelling loops never changes the verdict; and in
\* strict mode for its loops exactly as above (lexer.c:112-161).
VerdictMatchesSource ==
  /\ ~dropped => /\ pc = "accepted" => Balanced(src)
                 /\ pc = "rejected" /\ ~opts.strict => ~Balanced(src)
  /\ StrictVerdict

\* --no-strict reports the first MaxWarnings suspicious loops, in order, then
\* says once that it stops, and reports nothing more (lexer.c:162-171).
Doubtful(j) == out[j].op = "[" /\ Barren(UnfoldAll(SubSeq(out, j, size)), out[j].len)
\* The members of S up to n, in order, counted from 0.
Noted(S, k, acc) == IF k \in S THEN Append(acc, k - 1) ELSE acc
Numbered(S, n) ==
  LET seq[k \in 0 .. n] == IF k = 0 THEN <<>> ELSE Noted(S, k, seq[k - 1])
  IN  seq[n]
Suspects == Numbered({j \in 1 .. size : Doubtful(j)}, i)
WarningsInOrder ==
  pc \in {"check", "accepted", "rejected"} =>
    log = IF opts.strict THEN <<>>
          ELSE IF Len(Suspects) < MaxWarnings THEN Suspects
          ELSE Append(SubSeq(Suspects, 1, MaxWarnings), Exceeded)

\* Whatever path lex leaves by, the source text is freed exactly once, and the
\* vector is freed exactly when it is not returned (lexer.c:121-187).
Settled ==
  /\ ~Ended => srcFrees = 0 /\ vec \in {"none", "live", "zeroed"}
  /\ pc = "accepted" => srcFrees = 1 /\ vec = "returned"
  /\ pc = "rejected" => srcFrees = 1 /\ vec = "freed"

\* read_file writes past the fsize + 1 bytes it allocated only if ftell told it
\* less than the file came to hold: that a character passes several independent
\* tests never makes the text longer than the file (lexer.c:14-38).
BufferFits == pc = "overrun" => fsize < Len(file)

\* A scan step rewrites the last token at most: through whatever prev was, no
\* earlier token of the vector changes (lexer.c:63-104).
EarlierTokensStable ==
  [][pc = "scan" => \A k \in 1 .. size - 1 : k <= size' /\ slots'[k] = slots[k]]_vars

\* No loop of lex runs forever: an input is accepted or refused.
Terminates == <>Ended
=============================================================================
