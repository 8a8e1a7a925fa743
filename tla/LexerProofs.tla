---------------------------- MODULE LexerProofs -----------------------------
(***************************************************************************)
(* What holds of read_file and lex for every input, every growth of the    *)
(* vector and every loss of a push.                                        *)
(***************************************************************************)
EXTENDS Lexer, TokensProofs

\* What the loops of lex keep: the types; who owns what; the checking loop has
\* not begun while scanning; an allocated vector has memory; prev is unset while
\* the text is read, then live.
IInv ==
  /\ TypeOK
  /\ Settled
  /\ pc \in {"read", "scan"} => i = 0
  /\ pc = "read" => prev = Null /\ size = 0 /\ vec = "none"
  /\ vec \in {"none", "live"} => slots # <<>>
  /\ PrevLive

USE FilesAssumption, OptionsAssumption, InitialCapAssumption, MaxWarningsAssumption,
    MayFailAssumption

LEMMA TokenType ==
  ASSUME NEW o \in Ops, NEW m \in Nat
  PROVE  Tok(o, m) \in Token
  BY DEF Tok, Token

LEMMA ConstTokens == Zeroed \in Token /\ Garbage \in Token
  BY DEF Zeroed, Garbage, Tok, Token, Ops

LEMMA InitIInv == Init => IInv
<1> SUFFICES ASSUME Init PROVE IInv
  OBVIOUS
<1>1. slots \in Seq(Token) /\ Len(slots) = InitialCap
  BY ConstTokens DEF Init
<1>2. fpos \in 0 .. Len(file) /\ file \in Seq(STRING) /\ opts \in OptionRecord /\ fsize \in Int
  BY DEF Init, Told
<1>3. src \in Seq(CoreOps \union ExtraOps) /\ pos \in 0 .. Len(src)
  BY DEF Init
<1>4. log \in Seq(Nat \union {Exceeded}) /\ wc \in 0 .. MaxWarnings + 1
  BY DEF Init
<1>5. prev \in [block : 0 .. block, slot : 0 .. Len(slots)] /\ block \in Nat \ {0}
  BY <1>1 DEF Init, Null
<1>6. size \in 0 .. Len(slots) /\ i \in 0 .. size /\ plevel \in Int /\ st \in Nat
  BY <1>1 DEF Init
<1>7. stsize \in Nat
  BY <1>2 DEF Init, OptionRecord
<1>8. pc = "read" /\ prev = Null /\ size = 0 /\ srcFrees = 0 /\ vec = "none" /\ dropped = FALSE /\ i = 0
  BY DEF Init
<1>9. /\ pc \in {"read", "scan", "check", "accepted", "rejected", "unreadable"}
      /\ srcFrees \in 0 .. 1 /\ vec \in {"none", "live", "zeroed", "freed", "returned"}
  BY <1>8
<1>10. dropped \in BOOLEAN
  BY <1>8
<1>11. TypeOK
  BY <1>1, <1>2, <1>3, <1>4, <1>5, <1>6, <1>7, <1>9, <1>10 DEF TypeOK
<1> QED
  BY <1>1, <1>8, <1>11 DEF IInv, Settled, Ended, PrevLive

-----------------------------------------------------------------------------
(* One step of the scanning loop.                                          *)

ScanReady == IInv /\ pc = "scan"

LEMMA Live ==
  ASSUME ScanReady, NEW p, p = Pointee(Refreshed)
  PROVE  /\ p \in Token
         /\ Usable(p) => /\ size \in 1 .. Len(slots) /\ Refreshed.slot = size
                         /\ Refreshed = [block |-> block, slot |-> size]
<1>t. slots \in Seq(Token) /\ size \in 0 .. Len(slots) /\ size \in Nat
  BY DEF ScanReady, IInv, TypeOK
<1>1. p \in Token
  <2>1. CASE Refreshed.block = block /\ Refreshed.slot \in DOMAIN slots
    <3>1. slots[Refreshed.slot] \in Token
      BY <2>1, <1>t
    <3> QED
      BY <2>1, <3>1 DEF Pointee
  <2>2. CASE ~(Refreshed.block = block /\ Refreshed.slot \in DOMAIN slots)
    BY <2>2, ConstTokens DEF Pointee
  <2> QED
    BY <2>1, <2>2
<1>2. ASSUME Usable(p), size = 0 PROVE FALSE
  <2>1. Refreshed = prev /\ prev # Null
    BY <1>2 DEF Refreshed, Usable
  <2>2. p = Zeroed
    BY <1>2, <2>1 DEF ScanReady, IInv, PrevLive, Pointee
  <2> QED
    BY <1>2, <2>2 DEF Usable, Zeroed, Tok
<1>3. ASSUME Usable(p) PROVE size \in 1 .. Len(slots)
  BY <1>t, <1>2, <1>3
<1>4. ASSUME Usable(p)
      PROVE  Refreshed.slot = size /\ Refreshed = [block |-> block, slot |-> size]
  BY <1>3, <1>4 DEF Refreshed
<1> QED
  BY <1>1, <1>3, <1>4

\* What a scan step may do to the vector, whichever disjunct it takes.
VecStep ==
  /\ slots' \in Seq(Token) /\ Len(slots') >= Len(slots)
  /\ size' \in 0 .. Len(slots') /\ block' \in Nat \ {0} /\ block' >= block
  /\ dropped' \in BOOLEAN
  /\ \A k \in 1 .. size - 1 : k <= size' /\ slots'[k] = slots[k]
  /\ size' = 0 /\ prev' # Null =>
       /\ prev'.block = block' /\ prev'.slot \in DOMAIN slots' /\ slots'[prev'.slot] = Zeroed

LEMMA PopStep ==
  ASSUME ScanReady, size \in 1 .. Len(slots), Pop,
         prev' = [block |-> block, slot |-> size]
  PROVE  VecStep
<1>t. slots \in Seq(Token) /\ block \in Nat \ {0} /\ dropped \in BOOLEAN
  BY DEF ScanReady, IInv, TypeOK
<1>1. /\ slots' \in Seq(Token) /\ Len(slots') = Len(slots)
      /\ \A k \in 1 .. Len(slots) : slots'[k] = IF k = size THEN Zeroed ELSE slots[k]
  BY <1>t, ConstTokens, ExceptSeq DEF Pop
<1>2. size' = size - 1 /\ block' = block /\ dropped' = dropped
  BY DEF Pop
<1>3. size' \in 0 .. Len(slots')
  BY <1>1, <1>2
<1>4. \A k \in 1 .. size - 1 : k <= size' /\ slots'[k] = slots[k]
  BY <1>1, <1>2
<1>5. prev'.block = block' /\ prev'.slot \in DOMAIN slots' /\ slots'[prev'.slot] = Zeroed
  BY <1>1, <1>2
<1> QED
  BY <1>t, <1>1, <1>2, <1>3, <1>4, <1>5 DEF VecStep

LEMMA ReplaceStep ==
  ASSUME ScanReady, size \in 1 .. Len(slots), NEW t \in Token,
         slots' = [slots EXCEPT ![size] = t], UNCHANGED <<size, block, dropped>>
  PROVE  VecStep
<1>t. slots \in Seq(Token) /\ block \in Nat \ {0} /\ dropped \in BOOLEAN
  BY DEF ScanReady, IInv, TypeOK
<1>1. /\ slots' \in Seq(Token) /\ Len(slots') = Len(slots)
      /\ \A k \in 1 .. Len(slots) : slots'[k] = IF k = size THEN t ELSE slots[k]
  BY <1>t, ExceptSeq
<1>2. \A k \in 1 .. size - 1 : k <= size' /\ slots'[k] = slots[k]
  BY <1>1
<1> QED
  BY <1>t, <1>1, <1>2 DEF VecStep

LEMMA PushStep ==
  ASSUME ScanReady, NEW x \in Token, Push(x), prev' = Refreshed
  PROVE  VecStep
<1>t. /\ slots \in Seq(Token) /\ Len(slots) \in Nat
      /\ vec = "live" => Len(slots) >= 1
      /\ size \in 0 .. Len(slots) /\ block \in Nat \ {0} /\ dropped \in BOOLEAN
  BY DEF ScanReady, IInv, TypeOK
<1>1. CASE size + 1 <= Len(slots)
  <2>1. slots' = [slots EXCEPT ![size + 1] = x] /\ size' = size + 1
        /\ block' = block /\ dropped' = dropped
    BY <1>1 DEF Push
  <2>2. /\ slots' \in Seq(Token) /\ Len(slots') = Len(slots)
        /\ \A k \in 1 .. Len(slots) : slots'[k] = IF k = size + 1 THEN x ELSE slots[k]
    BY <1>t, <1>1, <2>1, ExceptSeq
  <2>3. \A k \in 1 .. size - 1 : k <= size' /\ slots'[k] = slots[k]
    BY <1>t, <2>1, <2>2
  <2> QED
    BY <1>t, <1>1, <2>1, <2>2, <2>3 DEF VecStep
<1>2. CASE ~(size + 1 <= Len(slots)) /\ size' = size + 1
  <2>1. /\ slots' = [k \in 1 .. 2 * Len(slots) |->
                        CASE k <= size -> slots[k] [] k = size + 1 -> x [] OTHER -> Zeroed]
        /\ block' = block + 1 /\ dropped' = dropped /\ vec = "live"
    BY <1>t, <1>2 DEF Push
  <2>2. \A k \in 1 .. 2 * Len(slots) :
          (CASE k <= size -> slots[k] [] k = size + 1 -> x [] OTHER -> Zeroed) \in Token
    BY <1>t, ConstTokens
  <2>3. slots' \in [1 .. 2 * Len(slots) -> Token]
    BY <2>1, <2>2
  <2>4. slots' \in Seq(Token) /\ Len(slots') = 2 * Len(slots)
    BY <2>1, <2>3, <1>t
  <2>5. \A k \in 1 .. size - 1 : k <= size' /\ slots'[k] = slots[k]
    BY <1>t, <1>2, <2>1
  <2> QED
    BY <1>t, <1>2, <2>1, <2>4, <2>5 DEF VecStep
<1>3. CASE ~(size + 1 <= Len(slots)) /\ UNCHANGED <<slots, size, block>> /\ dropped' = TRUE
  <2>1. /\ size' = size
        /\ size = 0 /\ prev' # Null =>
             prev'.block = block' /\ prev'.slot \in DOMAIN slots' /\ slots'[prev'.slot] = Zeroed
    BY <1>t, <1>3 DEF Refreshed, ScanReady, IInv, PrevLive
  <2>2. dropped' \in BOOLEAN
    BY <1>3
  <2> QED
    BY <1>t, <1>3, <2>1, <2>2 DEF VecStep
<1> QED
  BY <1>1, <1>2, <1>3 DEF Push

LEMMA NextRun ==
  ASSUME TypeOK, NEW m, IsRun(pos, m)
  PROVE  /\ m \in Nat /\ pos + m \in 0 .. Len(src)
         /\ src[pos + 1] \in Ops /\ Tok(src[pos + 1], m) \in Token
<1>1. src \in Seq(CoreOps \union ExtraOps) /\ pos \in 0 .. Len(src) /\ m \in 1 .. Len(src) - pos
  BY DEF TypeOK, IsRun
<1>2. src[pos + 1] \in CoreOps \union ExtraOps
  BY <1>1
<1>3. src[pos + 1] \in Ops
  BY <1>2 DEF Ops
<1> QED
  BY <1>1, <1>3, TokenType

LEMMA ScanStep ==
  ASSUME ScanReady, Scan
  PROVE  VecStep /\ pos' \in 0 .. Len(src) /\ st' \in Nat
<1>t. TypeOK /\ st \in Nat
  BY DEF ScanReady, IInv, TypeOK
<1>p. prev' = Refreshed
  BY DEF Scan
<1> DEFINE p == Pointee(Refreshed)
<1>1. PICK m \in 1 .. Len(src) - pos :
        LET x == Tok(src[pos + 1], m)
        IN  /\ IsRun(pos, m)
            /\ pos' = pos + m
            /\ \/ CancelLoop(p, x)
               \/ CloseMore(p, x)
               \/ CloseFewer(p, x)
               \/ Annihilate(p, x)
               \/ Merge(p, x)
               \/ Keep(p, x)
  BY DEF Scan
<1> DEFINE x == Tok(src[pos + 1], m)
<1>2. m \in Nat /\ pos' \in 0 .. Len(src) /\ x \in Token /\ x.len \in Nat /\ x.op \in Ops
  BY <1>1, <1>t, NextRun DEF Token
<1>0. p \in Token /\ p.len \in Nat /\ p.op \in Ops
  BY Live DEF Token
<1>3. Usable(p) => /\ size \in 1 .. Len(slots)
                   /\ Refreshed.slot = size
                   /\ Refreshed = [block |-> block, slot |-> size]
  BY Live DEF Token
<1> HIDE DEF p, x
<1>4. CASE CancelLoop(p, x)
  BY <1>3, <1>4, <1>p, <1>t, <1>2, PopStep DEF CancelLoop, Closes
<1>5. CASE CloseMore(p, x)
  <2>1. Tok("]", x.len - p.len) \in Token
    <3>0. x.len > p.len
      BY <1>5 DEF CloseMore
    <3>1. x.len - p.len \in Nat
      BY <3>0, <1>2, <1>0
    <3>2. "]" \in Ops
      BY DEF Ops, CoreOps
    <3> QED
      BY <3>1, <3>2 DEF Tok, Token
  <2>2. slots' = [slots EXCEPT ![size] = Tok("]", x.len - p.len)]
        /\ UNCHANGED <<size, block, dropped, st>> /\ size \in 1 .. Len(slots)
    BY <1>3, <1>5 DEF CloseMore, Closes
  <2> QED
    BY <2>1, <2>2, <1>2, <1>t, ReplaceStep
<1>6. CASE CloseFewer(p, x)
  <2>1. Tok("[", p.len - x.len) \in Token
    <3>0. x.len < p.len
      BY <1>6 DEF CloseFewer
    <3>1. p.len - x.len \in Nat
      BY <3>0, <1>2, <1>0
    <3>2. "[" \in Ops
      BY DEF Ops, CoreOps
    <3> QED
      BY <3>1, <3>2 DEF Tok, Token
  <2>2. slots' = [slots EXCEPT ![size] = Tok("[", p.len - x.len)]
        /\ UNCHANGED <<size, block, dropped, st>> /\ size \in 1 .. Len(slots)
    <3>1. Usable(p)
      BY <1>6 DEF CloseFewer, Closes
    <3>2. slots' = [slots EXCEPT ![Refreshed.slot] = Tok("[", p.len - x.len)]
          /\ UNCHANGED <<size, block, dropped, st>>
      BY <1>6 DEF CloseFewer, SetPrev
    <3> QED
      BY <3>1, <3>2, <1>3, Zenon
  <2> QED
    BY <2>1, <2>2, <1>2, <1>t, ReplaceStep
<1>7. CASE Annihilate(p, x)
  BY <1>3, <1>7, <1>p, <1>t, <1>2, PopStep DEF Annihilate, Annihilates, Opposes
<1>8. CASE Merge(p, x)
  <2>0. Refreshed.slot = size /\ size \in 1 .. Len(slots)
    <3>1. Usable(p)
      BY <1>8 DEF Merge, Opposes
    <3> QED
      BY <3>1, <1>3
  <2>m. /\ p.len > x.len => slots' = [slots EXCEPT ![Refreshed.slot] = Tok(p.op, p.len - x.len)]
        /\ ~(p.len > x.len) => slots' = [slots EXCEPT ![Refreshed.slot] = Tok(x.op, x.len - p.len)]
    BY <1>8 DEF Merge, SetPrev
  <2>1. PICK t \in Token : slots' = [slots EXCEPT ![size] = t]
    <3>1. CASE p.len > x.len
      <4>1. Tok(p.op, p.len - x.len) \in Token
        BY <3>1, <1>2, <1>0 DEF Tok, Token
      <4> QED
        BY <3>1, <4>1, <2>0, <2>m, Zenon
    <3>2. CASE ~(p.len > x.len)
      <4>1. Tok(x.op, x.len - p.len) \in Token
        BY <3>2, <1>2, <1>0 DEF Tok, Token
      <4> QED
        BY <3>2, <4>1, <2>0, <2>m, Zenon
    <3> QED
      BY <3>1, <3>2
  <2>2. UNCHANGED <<size, block, dropped, st>> /\ size \in 1 .. Len(slots)
    BY <2>0, <1>8 DEF Merge, SetPrev
  <2> QED
    BY <2>1, <2>2, <1>2, <1>t, ReplaceStep
<1>9. CASE Keep(p, x)
  <2>1. st' \in Nat
    BY <1>2, <1>9, <1>t DEF Keep
  <2>2. Push(x)
    BY <1>9 DEF Keep
  <2> QED
    BY <2>1, <2>2, <1>2, <1>p, PushStep
<1> QED
  BY <1>1, <1>4, <1>5, <1>6, <1>7, <1>8, <1>9 DEF x

-----------------------------------------------------------------------------
(* Every step keeps IInv.                                                  *)

LEMMA ReadCharIInv == IInv /\ ReadChar => IInv'
<1> SUFFICES ASSUME IInv, ReadChar PROVE IInv'
  OBVIOUS
<1>t. TypeOK /\ Settled /\ file \in Seq(STRING) /\ fpos \in 0 .. Len(file)
  BY DEF IInv, TypeOK
<1>1. Copies(file[fpos + 1]) \in Seq(CoreOps \union ExtraOps)
  <2> DEFINE c == file[fpos + 1]
             intr == IF opts.intr /\ c = "$" THEN 1 ELSE 0
             xs == IF opts.x /\ c \in {";", "&", "="} THEN 1 ELSE 0
             can == IF opts.can /\ c = "?" THEN 1 ELSE 0
             core == IF c \in CoreOps THEN 1 ELSE 0
             many == intr + xs + can + core
  <2>0. /\ intr \in Nat /\ xs \in Nat /\ can \in Nat /\ core \in Nat
        /\ c \notin CoreOps \union ExtraOps => intr = 0 /\ xs = 0 /\ can = 0 /\ core = 0
    BY DEF ExtraOps
  <2>1. many \in Nat /\ (c \notin CoreOps \union ExtraOps => many = 0)
    <3> HIDE DEF intr, xs, can, core, c
    <3> QED
      BY <2>0
  <2>2. Copies(c) = [k \in 1 .. many |-> c]
    BY DEF Copies
  <2> HIDE DEF many, c
  <2>3. [k \in 1 .. many |-> c] \in Seq(CoreOps \union ExtraOps)
    BY <2>1
  <2> QED
    BY <2>2, <2>3 DEF c
<1>2. /\ src' \in Seq(CoreOps \union ExtraOps)
      /\ Len(src') = Len(src) + Len(Copies(file[fpos + 1]))
  BY <1>1, <1>t, ConcatProperties DEF ReadChar, TypeOK
<1>3. pos' \in 0 .. Len(src') /\ fpos' \in 0 .. Len(file)
  BY <1>1, <1>2, <1>t DEF ReadChar, TypeOK
<1>4. UNCHANGED <<file, opts, fsize, pc, slots, size, block, prev, dropped, st, checkVars, endVars>>
  BY DEF ReadChar
<1>5. TypeOK'
  BY <1>2, <1>3, <1>4, <1>t DEF TypeOK, checkVars, endVars
<1> QED
  BY <1>4, <1>5 DEF IInv, ReadChar, Settled, Ended, PrevLive, checkVars, endVars

LEMMA ScanIInv == IInv /\ Scan => IInv'
<1> SUFFICES ASSUME IInv, Scan PROVE IInv'
  OBVIOUS
<1>1. ScanReady /\ pc = "scan" /\ pc' = pc /\ prev' = Refreshed
      /\ UNCHANGED <<file, opts, fsize, fpos, src, checkVars, endVars>>
  BY DEF ScanReady, Scan
<1>2. VecStep /\ pos' \in 0 .. Len(src) /\ st' \in Nat
  BY <1>1, ScanStep
<1>t. TypeOK /\ Settled /\ i = 0
  BY <1>1 DEF IInv
<1>3. prev' \in [block : 0 .. block', slot : 0 .. Len(slots')]
  <2>1. /\ size \in 0 .. Len(slots) /\ block \in Nat \ {0} /\ Len(slots) \in Nat
        /\ prev \in [block : 0 .. block, slot : 0 .. Len(slots)]
        /\ Len(slots') >= Len(slots) /\ block' >= block /\ block' \in Nat /\ Len(slots') \in Nat
    BY <1>2, <1>t DEF TypeOK, VecStep
  <2>2. Refreshed \in [block : 0 .. block, slot : 0 .. Len(slots)]
    BY <2>1 DEF Refreshed
  <2> QED
    BY <2>1, <2>2, <1>1
<1>4. i' = 0 /\ i' \in 0 .. size'
  BY <1>1, <1>2, <1>t DEF checkVars, VecStep
<1>5. TypeOK'
  BY <1>1, <1>2, <1>3, <1>4, <1>t DEF TypeOK, VecStep, checkVars, endVars
<1>6. Settled'
  BY <1>1, <1>t DEF Settled, Ended, endVars
<1>7. vec' \in {"none", "live"} => slots' # <<>>
  <2>1. vec' = vec /\ slots \in Seq(Token) /\ slots' \in Seq(Token) /\ Len(slots') >= Len(slots)
    BY <1>1, <1>2, <1>t DEF VecStep, TypeOK, endVars
  <2>2. vec \in {"none", "live"} => slots # <<>>
    BY DEF IInv
  <2> QED
    BY <2>1, <2>2
<1>8. PrevLive'
  BY <1>2 DEF PrevLive, VecStep
<1> QED
  BY <1>1, <1>4, <1>5, <1>6, <1>7, <1>8 DEF IInv

LEMMA LevelType ==
  ASSUME IInv, i < size
  PROVE  LevelAfter \in Int
<1>1. plevel \in Int /\ i + 1 \in 1 .. Len(slots) /\ slots \in Seq(Token)
  BY DEF IInv, TypeOK
<1>2. cur.len \in Nat
  <2>1. slots[i + 1] \in Token
    BY <1>1
  <2> QED
    BY <2>1 DEF cur, Token
<1> QED
  BY <1>1, <1>2 DEF LevelAfter

LEMMA RejectIInv ==
  ASSUME IInv, pc = "check", Reject, plevel' \in Int
  PROVE  IInv'
<1>1. srcFrees = 0 /\ srcFrees' = 1 /\ vec' = "freed" /\ pc' = "rejected"
  BY DEF IInv, Settled, Ended, Reject
<1>2. UNCHANGED <<file, opts, fsize, fpos, scanVars, i, wc, log, stsize>>
  BY DEF Reject
<1>3. TypeOK'
  BY <1>1, <1>2 DEF IInv, TypeOK, scanVars
<1> QED
  BY <1>1, <1>2, <1>3 DEF IInv, Settled, Ended, PrevLive, scanVars

LEMMA InspectIInv == IInv /\ Inspect => IInv'
<1> SUFFICES ASSUME IInv, Inspect PROVE IInv'
  OBVIOUS
<1>1. pc = "check" /\ i < size /\ i' = i + 1 /\ plevel' = LevelAfter
      /\ UNCHANGED <<file, opts, fsize, pc, fpos, scanVars, endVars>>
  BY DEF Inspect
<1>t. TypeOK /\ Settled /\ wc \in 0 .. MaxWarnings + 1 /\ log \in Seq(Nat \union {Exceeded})
  BY DEF IInv, TypeOK
<1>2. wc' \in 0 .. MaxWarnings + 1
  <2>1. CASE Warns
    <3>1. wc < MaxWarnings /\ wc' \in {wc + 1, wc + 2}
          /\ (wc' = wc + 2 => wc + 1 = MaxWarnings)
      BY <2>1, <1>t DEF Inspect, Warns
    <3> QED
      BY <3>1, <1>t
  <2>2. CASE ~Warns
    <3>1. wc' = wc \/ (wc' = wc + 1 /\ wc = MaxWarnings)
      BY <2>2, <1>t DEF Inspect
    <3> QED
      BY <3>1, <1>t
  <2> QED
    BY <2>1, <2>2
<1>3. log' \in Seq(Nat \union {Exceeded})
  <2>1. PICK a \in {<<i>>, <<>>}, b \in {<<Exceeded>>, <<>>} : log' = log \o a \o b
    BY DEF Inspect
  <2>2. i \in Nat
    BY DEF IInv, TypeOK
  <2>3. <<i>> \in Seq(Nat \union {Exceeded}) /\ <<Exceeded>> \in Seq(Nat \union {Exceeded})
        /\ <<>> \in Seq(Nat \union {Exceeded})
    BY <2>2
  <2>4. a \in Seq(Nat \union {Exceeded}) /\ b \in Seq(Nat \union {Exceeded})
    BY <2>1, <2>3
  <2> QED
    BY <2>1, <2>4, <1>t, ConcatProperties
<1>4. i' \in 0 .. size' /\ plevel' \in Int
  BY <1>1, <1>t, LevelType DEF TypeOK, scanVars
<1>5. TypeOK'
  BY <1>1, <1>2, <1>3, <1>4, <1>t DEF TypeOK, scanVars, endVars
<1> QED
  BY <1>1, <1>5, <1>t DEF IInv, Settled, Ended, PrevLive, scanVars, endVars

LEMMA StepIInv == IInv /\ [Next]_vars => IInv'
<1> SUFFICES ASSUME IInv, [Next]_vars PROVE IInv'
  OBVIOUS
<1>1. CASE ReadChar
  BY <1>1, ReadCharIInv
<1>2. CASE EndOfFile
  <2>1. TypeOK'
    BY <1>2 DEF EndOfFile, IInv, TypeOK, scanVars, checkVars
  <2>2. size = 0 /\ prev # Null =>
          prev.block = block /\ prev.slot \in DOMAIN slots /\ slots[prev.slot] = Zeroed
    BY <1>2 DEF IInv, EndOfFile, Null
  <2> QED
    BY <1>2, <2>1, <2>2 DEF EndOfFile, IInv, Settled, Ended, PrevLive, scanVars, checkVars
<1>12. CASE NoVector
  <2>1. UNCHANGED <<file, opts, fsize, fpos, src, pos, size, block, prev, dropped, st, checkVars,
                    stsize, srcFrees>> /\ pc' = "scan" /\ vec' = "zeroed" /\ slots' = <<>>
    BY <1>12 DEF NoVector
  <2>2. prev = Null /\ size = 0 /\ i = 0
    BY <1>12 DEF NoVector, IInv, Settled, Ended, TypeOK
  <2>3. slots' \in Seq(Token) /\ Len(slots') = 0
    BY <2>1
  <2>4. TypeOK'
    BY <2>1, <2>2, <2>3 DEF IInv, TypeOK, checkVars, Null
  <2> QED
    BY <2>1, <2>2, <2>4, <1>12 DEF NoVector, IInv, Settled, Ended, PrevLive, checkVars
<1>13. CASE Overrun
  <2>1. TypeOK'
    BY <1>13 DEF Overrun, IInv, TypeOK, scanVars, checkVars, endVars
  <2> QED
    BY <1>13, <2>1 DEF Overrun, IInv, Settled, Ended, PrevLive, scanVars, checkVars, endVars
<1>14. CASE PushUnsized
  <2>1. TypeOK'
    BY <1>14 DEF PushUnsized, IInv, TypeOK, scanVars, checkVars, endVars
  <2> QED
    BY <1>14, <2>1 DEF PushUnsized, IInv, Settled, Ended, PrevLive, scanVars, checkVars, endVars
<1>3. CASE ReadFails
  <2>1. TypeOK'
    BY <1>3 DEF ReadFails, IInv, TypeOK, scanVars, checkVars, endVars
  <2> QED
    BY <1>3, <2>1 DEF ReadFails, IInv, Settled, Ended, PrevLive, scanVars, checkVars, endVars
<1>4. CASE Scan
  BY <1>4, ScanIInv
<1>5. CASE EndScan
  <2>1. TypeOK'
    BY <1>5 DEF EndScan, IInv, TypeOK, scanVars, checkVars, endVars
  <2> QED
    BY <1>5, <2>1 DEF EndScan, IInv, Settled, Ended, PrevLive, scanVars, checkVars, endVars
<1>6. CASE RejectClose
  BY <1>6, LevelType, RejectIInv DEF RejectClose
<1>7. CASE RejectLoop
  BY <1>7, LevelType, RejectIInv DEF RejectLoop
<1>8. CASE Inspect
  BY <1>8, InspectIInv
<1>9. CASE RejectOpen
  BY <1>9, RejectIInv DEF RejectOpen, IInv, TypeOK
<1>10. CASE Accept
  <2>1. srcFrees = 0 /\ srcFrees' = 1 /\ pc' = "accepted" /\ vec' = "returned"
    BY <1>10 DEF Accept, IInv, Settled, Ended
  <2>2. stsize' \in Nat
    BY <1>10 DEF Accept, IInv, TypeOK
  <2>3. TypeOK'
    BY <1>10, <2>1, <2>2 DEF Accept, IInv, TypeOK, scanVars, checkVars
  <2> QED
    BY <1>10, <2>1, <2>3 DEF Accept, IInv, Settled, Ended, PrevLive, scanVars, checkVars
<1>11. CASE UNCHANGED vars
  <2>1. TypeOK'
    BY <1>11 DEF vars, IInv, TypeOK
  <2> QED
    BY <1>11, <2>1 DEF vars, IInv, Settled, Ended, PrevLive
<1> QED
  BY <1>1, <1>2, <1>3, <1>4, <1>5, <1>6, <1>7, <1>8, <1>9, <1>10, <1>11, <1>12, <1>13,
     <1>14 DEF Next, Stop

-----------------------------------------------------------------------------
LEMMA Invariance == Spec => []IInv
<1> QED
  BY InitIInv, StepIInv, PTL DEF Spec

\* lex keeps its types: the vector never shrinks below zero, the estimate and
\* the counters stay in range.
THEOREM TypeCorrect == Spec => []TypeOK
<1> QED
  BY Invariance, PTL DEF IInv

\* The pointer prev, used without a refresh when the vector is empty, points
\* into the block the vector owns, to a zeroed token, for every input and
\* every growth or loss of a push.
THEOREM PrevAlwaysLive == Spec => []PrevLive
<1> QED
  BY Invariance, PTL DEF IInv

\* The source text and the vector are released exactly once on every path.
THEOREM AllSettled == Spec => []Settled
<1> QED
  BY Invariance, PTL DEF IInv

\* No scan step rewrites or drops a token before the last one.
THEOREM EarlierTokensKept == Spec => EarlierTokensStable
<1>1. IInv /\ [Next]_vars =>
        [pc = "scan" => \A k \in 1 .. size - 1 : k <= size' /\ slots'[k] = slots[k]]_vars
  <2> SUFFICES ASSUME IInv, [Next]_vars, pc = "scan"
               PROVE  \A k \in 1 .. size - 1 : k <= size' /\ slots'[k] = slots[k]
    OBVIOUS
  <2>1. CASE Scan
    BY <2>1, ScanStep DEF ScanReady, VecStep
  <2>2. CASE PushUnsized \/ EndScan \/ UNCHANGED vars
    BY <2>2 DEF PushUnsized, EndScan, scanVars, vars, IInv, TypeOK
  <2> QED
    BY <2>1, <2>2 DEF Next, Stop, Ended, ReadChar, EndOfFile, NoVector, Overrun, ReadFails, RejectClose, RejectLoop,
       Inspect, RejectOpen, Accept
<1> QED
  BY <1>1, Invariance, PTL DEF Spec, EarlierTokensStable

-----------------------------------------------------------------------------
(* read_file keeps to its buffer: it stores no more than it has read.      *)

\* A character belongs to one class of operators at most.
LEMMA CopiesOnce ==
  ASSUME NEW c
  PROVE  Copies(c) \in Seq({c}) /\ Len(Copies(c)) <= 1
<1> DEFINE intr == IF opts.intr /\ c = "$" THEN 1 ELSE 0
           xs == IF opts.x /\ c \in {";", "&", "="} THEN 1 ELSE 0
           can == IF opts.can /\ c = "?" THEN 1 ELSE 0
           core == IF c \in CoreOps THEN 1 ELSE 0
           many == intr + xs + can + core
<1>1. many \in 0 .. 1
  <2>1. intr \in 0 .. 1 /\ xs \in 0 .. 1 /\ can \in 0 .. 1 /\ core \in 0 .. 1
    OBVIOUS
  <2>2. /\ c # "$" => intr = 0
        /\ c \notin {";", "&", "="} => xs = 0
        /\ c # "?" => can = 0
        /\ c \notin CoreOps => core = 0
    OBVIOUS
  <2> HIDE DEF intr, xs, can, core
  <2>3. CASE c = "$"
    <3>1. c \notin {";", "&", "="} /\ c # "?" /\ c \notin CoreOps
      BY <2>3 DEF CoreOps
    <3>2. xs = 0 /\ can = 0 /\ core = 0
      BY <2>2, <3>1
    <3> QED
      BY <2>1, <3>2
  <2>4. CASE c \in {";", "&", "="}
    <3>1. c # "$" /\ c # "?" /\ c \notin CoreOps
      BY <2>4 DEF CoreOps
    <3>2. intr = 0 /\ can = 0 /\ core = 0
      BY <2>2, <3>1
    <3> QED
      BY <2>1, <3>2
  <2>5. CASE c = "?"
    <3>1. c # "$" /\ c \notin {";", "&", "="} /\ c \notin CoreOps
      BY <2>5 DEF CoreOps
    <3>2. intr = 0 /\ xs = 0 /\ core = 0
      BY <2>2, <3>1
    <3> QED
      BY <2>1, <3>2
  <2>6. CASE c # "$" /\ c \notin {";", "&", "="} /\ c # "?"
    <3>1. intr = 0 /\ xs = 0 /\ can = 0
      BY <2>2, <2>6
    <3> QED
      BY <2>1, <3>1
  <2> QED
    BY <2>3, <2>4, <2>5, <2>6
<1>2. Copies(c) = [k \in 1 .. many |-> c]
  BY DEF Copies
<1> HIDE DEF many
<1>3. [k \in 1 .. many |-> c] \in Seq({c}) /\ Len([k \in 1 .. many |-> c]) = many
  BY <1>1
<1> QED
  BY <1>1, <1>2, <1>3

Filling == IInv /\ Len(src) <= fpos /\ BufferFits

LEMMA StepFilling == Filling /\ [Next]_vars => Filling'
<1> SUFFICES ASSUME Filling, [Next]_vars PROVE Filling'
  OBVIOUS
<1>1. IInv /\ IInv'
  BY StepIInv DEF Filling
<1>t. /\ src \in Seq(CoreOps \union ExtraOps) /\ fpos \in 0 .. Len(file) /\ file \in Seq(STRING)
      /\ Len(src) <= fpos /\ fsize \in Int
  BY <1>1 DEF Filling, IInv, TypeOK
<1>n. Len(src) \in Nat /\ Len(file) \in Nat
  BY <1>t
<1> DEFINE add == Copies(file[fpos + 1])
<1>c. add \in Seq({file[fpos + 1]}) /\ Len(add) <= 1 /\ Len(add) \in Nat
  BY CopiesOnce
<1>2. CASE ReadChar
  <2>1. src' = src \o add /\ fpos' = fpos + 1 /\ pc' = "read"
    BY <1>2 DEF ReadChar
  <2>2. src \in Seq((CoreOps \union ExtraOps) \union {file[fpos + 1]})
        /\ add \in Seq((CoreOps \union ExtraOps) \union {file[fpos + 1]})
    BY <1>t, <1>n, <1>c
  <2> HIDE DEF add
  <2>3. Len(src \o add) = Len(src) + Len(add)
    BY <2>2, ConcatProperties
  <2> QED
    BY <1>1, <1>t, <1>n, <1>c, <2>1, <2>3 DEF Filling, BufferFits
<1>3. CASE Overrun
  <2>1. UNCHANGED <<file, fsize, src, fpos>> /\ Len(src) + Storing > fsize + 1
    <3> HIDE DEF add
    <3>1. Storing = IF fpos < Len(file) THEN Len(add) ELSE 1
      BY DEF Storing, add
    <3>2. Storing \in Nat
      BY <1>c, <3>1
    <3> QED
      BY <1>3, <1>t, <1>n, <3>2 DEF Overrun, Fits, scanVars
  <2>2. fsize < Len(file)
    <3> HIDE DEF add
    <3>1. Storing = IF fpos < Len(file) THEN Len(add) ELSE 1
      BY DEF Storing, add
    <3>2. Storing <= 1 /\ Storing \in Nat
      BY <1>c, <3>1
    <3> QED
      BY <1>t, <1>n, <2>1, <3>1, <3>2, <1>c
  <2> QED
    BY <1>1, <1>t, <1>n, <2>1, <2>2 DEF Filling, BufferFits
<1>4. CASE ~ReadChar /\ ~Overrun
  <2>1. UNCHANGED <<file, fsize, src, fpos>> /\ (pc' = "overrun" => pc = "overrun")
    BY <1>4 DEF Next, EndOfFile, NoVector, ReadFails, Scan, PushUnsized, EndScan, RejectClose,
       RejectLoop, Reject, Inspect, RejectOpen, Accept, Stop, scanVars, vars
  <2> QED
    BY <1>1, <1>t, <1>n, <2>1 DEF Filling, BufferFits
<1> QED
  BY <1>2, <1>3, <1>4

\* read_file stores at most one character per character it reads, for every
\* file and every choice of flags, although it tests four classes one by one:
\* it leaves its block only if ftell told it less than the file came to hold.
THEOREM BufferNeverOverruns == Spec => []BufferFits
<1>1. Init => Filling
  <2> SUFFICES ASSUME Init PROVE Filling
    OBVIOUS
  <2>1. IInv /\ Len(src) = 0 /\ fpos = 0 /\ pc = "read"
    BY InitIInv DEF Init
  <2> QED
    BY <2>1 DEF Filling, BufferFits
<1>2. Filling => BufferFits
  BY DEF Filling
<1> QED
  BY <1>1, StepFilling, <1>2, PTL DEF Spec

-----------------------------------------------------------------------------
(* What a scan step does to the tokens.                                    *)

\* The run x meets the tokens: it is lost, added, or taken up by the last one.
FoldStep(x) ==
  \/ dropped' = TRUE /\ out' = out
  \/ dropped' = dropped /\ out' = Append(out, x)
  \/ /\ dropped' = dropped
     /\ \E o \in Seq(Token), p \in Token :
          /\ out = Append(o, p) /\ <<p.op, x.op>> \in Cancelling
          /\ \/ p.len = x.len /\ out' = o
             \/ p.len > x.len /\ out' = Append(o, Tok(p.op, p.len - x.len))
             \/ /\ x.len >= p.len /\ (x.len = p.len => x.op \in {">", "<"})
                /\ out' = Append(o, Tok(x.op, x.len - p.len))

LEMMA LastToken ==
  ASSUME ScanReady, size \in 1 .. Len(slots)
  PROVE  /\ SubSeq(slots, 1, size - 1) \in Seq(Token) /\ slots[size] \in Token
         /\ out = Append(SubSeq(slots, 1, size - 1), slots[size])
<1>1. slots \in Seq(Token) /\ size - 1 \in Nat /\ (size - 1) + 1 = size /\ size - 1 \in 0 .. Len(slots)
  BY DEF ScanReady, IInv, TypeOK
<1>2. out = Append(SubSeq(slots, 1, size - 1), slots[size])
  BY <1>1, TakeNext DEF out
<1> QED
  BY <1>1, <1>2, Prefix

LEMMA PopOut ==
  ASSUME ScanReady, size \in 1 .. Len(slots), Pop
  PROVE  out' = SubSeq(slots, 1, size - 1) /\ dropped' = dropped
<1>1. slots \in Seq(Token) /\ size - 1 \in 0 .. Len(slots)
  BY DEF ScanReady, IInv, TypeOK
<1>2. /\ slots' \in Seq(Token) /\ Len(slots') = Len(slots)
      /\ \A k \in 1 .. Len(slots) : slots'[k] = IF k = size THEN Zeroed ELSE slots[k]
  BY <1>1, ConstTokens, ExceptSeq DEF Pop
<1>3. size' = size - 1 /\ dropped' = dropped
  BY DEF Pop
<1>4. SubSeq(slots, 1, size - 1) = SubSeq(slots', 1, size - 1)
  <2> DEFINE n == size - 1
             s == slots
             t == slots'
  <2>1. \A k \in 1 .. n : s[k] = t[k]
    BY <1>1, <1>2
  <2>2. s \in Seq(Token) /\ t \in Seq(Token) /\ n \in 0 .. Len(s) /\ n <= Len(t)
    BY <1>1, <1>2
  <2> HIDE DEF n, s, t
  <2>3. SubSeq(s, 1, n) = SubSeq(t, 1, n)
    BY ONLY <2>1, <2>2, TakeSame
  <2> QED
    BY <2>3 DEF n, s, t
<1> QED
  BY <1>3, <1>4 DEF out

LEMMA ReplaceOut ==
  ASSUME ScanReady, size \in 1 .. Len(slots), NEW t \in Token,
         slots' = [slots EXCEPT ![size] = t], size' = size
  PROVE  out' = Append(SubSeq(slots, 1, size - 1), t)
<1>1. slots \in Seq(Token) /\ size - 1 \in 0 .. Len(slots)
  BY DEF ScanReady, IInv, TypeOK
<1>2. /\ slots' \in Seq(Token) /\ Len(slots') = Len(slots)
      /\ \A k \in 1 .. Len(slots) : slots'[k] = IF k = size THEN t ELSE slots[k]
  BY <1>1, ExceptSeq
<1>4. SubSeq(slots, 1, size - 1) = SubSeq(slots', 1, size - 1)
  <2> DEFINE n == size - 1
             s == slots
             r == slots'
  <2>1. \A k \in 1 .. n : s[k] = r[k]
    BY <1>1, <1>2
  <2>2. s \in Seq(Token) /\ r \in Seq(Token) /\ n \in 0 .. Len(s) /\ n <= Len(r)
    BY <1>1, <1>2
  <2> HIDE DEF n, s, r
  <2>3. SubSeq(s, 1, n) = SubSeq(r, 1, n)
    BY ONLY <2>1, <2>2, TakeSame
  <2> QED
    BY <2>3 DEF n, s, r
<1>5. SubSeq(slots', 1, size) = Append(SubSeq(slots', 1, size - 1), slots'[size])
  <2>1. size - 1 \in Nat /\ (size - 1) + 1 = size /\ size <= Len(slots')
    BY <1>1, <1>2
  <2> QED
    BY <1>2, <2>1, TakeNext
<1>6. slots'[size] = t
  BY <1>2
<1> QED
  BY <1>4, <1>5, <1>6 DEF out

LEMMA PushOut ==
  ASSUME ScanReady, NEW x \in Token, Push(x)
  PROVE  \/ dropped' = TRUE /\ out' = out
         \/ dropped' = dropped /\ out' = Append(out, x)
<1>t. /\ slots \in Seq(Token) /\ Len(slots) \in Nat
      /\ vec = "live" => Len(slots) >= 1
      /\ size \in 0 .. Len(slots) /\ size \in Nat /\ dropped \in BOOLEAN
  BY DEF ScanReady, IInv, TypeOK
<1>0. ASSUME NEW s \in Seq(Token), size + 1 <= Len(s), s[size + 1] = x,
             \A k \in 1 .. size : s[k] = slots[k]
      PROVE  SubSeq(s, 1, size + 1) = Append(out, x)
  <2>1. SubSeq(s, 1, size + 1) = Append(SubSeq(s, 1, size), x)
    BY <1>t, <1>0, TakeNext
  <2>2. SubSeq(slots, 1, size) = SubSeq(s, 1, size)
    <3> DEFINE r == slots
    <3>1. size \in 0 .. Len(r) /\ size <= Len(s) /\ r \in Seq(Token)
          /\ \A k \in 1 .. size : r[k] = s[k]
      BY <1>t, <1>0
    <3> HIDE DEF r
    <3>2. SubSeq(r, 1, size) = SubSeq(s, 1, size)
      BY <3>1, TakeSame
    <3> QED
      BY <3>2 DEF r
  <2> QED
    BY <2>1, <2>2 DEF out
<1>1. CASE size + 1 <= Len(slots)
  <2>1. slots' = [slots EXCEPT ![size + 1] = x] /\ size' = size + 1 /\ dropped' = dropped
    BY <1>1 DEF Push
  <2>2. /\ slots' \in Seq(Token) /\ Len(slots') = Len(slots)
        /\ \A k \in 1 .. Len(slots) : slots'[k] = IF k = size + 1 THEN x ELSE slots[k]
    BY <1>t, <1>1, <2>1, ExceptSeq
  <2>3. slots'[size + 1] = x /\ \A k \in 1 .. size : slots'[k] = slots[k]
    BY <1>t, <1>1, <2>2
  <2>4. SubSeq(slots', 1, size + 1) = Append(out, x)
    BY <1>0, <1>1, <2>2, <2>3
  <2> QED
    BY <2>1, <2>4 DEF out
<1>2. CASE ~(size + 1 <= Len(slots)) /\ size' = size + 1
  <2>1. /\ slots' = [k \in 1 .. 2 * Len(slots) |->
                        CASE k <= size -> slots[k] [] k = size + 1 -> x [] OTHER -> Zeroed]
        /\ dropped' = dropped /\ vec = "live"
    BY <1>t, <1>2 DEF Push
  <2>2. \A k \in 1 .. 2 * Len(slots) :
          (CASE k <= size -> slots[k] [] k = size + 1 -> x [] OTHER -> Zeroed) \in Token
    BY <1>t, ConstTokens
  <2>3. slots' \in [1 .. 2 * Len(slots) -> Token]
    BY <2>1, <2>2
  <2>4. slots' \in Seq(Token) /\ Len(slots') = 2 * Len(slots)
    BY <2>1, <2>3, <1>t
  <2>5. slots'[size + 1] = x /\ \A k \in 1 .. size : slots'[k] = slots[k]
    BY <1>t, <1>2, <2>1
  <2>6. SubSeq(slots', 1, size + 1) = Append(out, x)
    <3>1. size + 1 <= Len(slots')
      BY <1>t, <2>1, <2>4
    <3> QED
      BY <1>0, <3>1, <2>4, <2>5
  <2> QED
    BY <1>2, <2>1, <2>6 DEF out
<1>3. CASE ~(size + 1 <= Len(slots)) /\ UNCHANGED <<slots, size, block>> /\ dropped' = TRUE
  BY <1>3 DEF out
<1> QED
  BY <1>1, <1>2, <1>3 DEF Push

LEMMA ScanFolds ==
  ASSUME ScanReady, Scan
  PROVE  \E m \in 1 .. Len(src) - pos :
           /\ IsRun(pos, m) /\ pos' = pos + m
           /\ FoldStep(Tok(src[pos + 1], m))
<1>t. TypeOK /\ dropped \in BOOLEAN
  BY DEF ScanReady, IInv, TypeOK
<1> DEFINE p == Pointee(Refreshed)
           o == SubSeq(slots, 1, size - 1)
<1>1. PICK m \in 1 .. Len(src) - pos :
        LET x == Tok(src[pos + 1], m)
        IN  /\ IsRun(pos, m)
            /\ pos' = pos + m
            /\ \/ CancelLoop(p, x)
               \/ CloseMore(p, x)
               \/ CloseFewer(p, x)
               \/ Annihilate(p, x)
               \/ Merge(p, x)
               \/ Keep(p, x)
  BY DEF Scan
<1> DEFINE x == Tok(src[pos + 1], m)
<1>2. m \in Nat /\ x \in Token /\ x.len \in Nat /\ x.op \in Ops
  BY <1>1, <1>t, NextRun DEF Token
<1>0. p \in Token /\ p.len \in Nat /\ p.op \in Ops
  BY Live DEF Token
<1>3. Usable(p) => /\ size \in 1 .. Len(slots) /\ Refreshed.slot = size
                   /\ slots[size] = p
                   /\ o \in Seq(Token) /\ out = Append(o, p)
  <2> SUFFICES ASSUME Usable(p)
               PROVE  /\ size \in 1 .. Len(slots) /\ Refreshed.slot = size
                      /\ slots[size] = p
                      /\ o \in Seq(Token) /\ out = Append(o, p)
    OBVIOUS
  <2>1. size \in 1 .. Len(slots) /\ Refreshed.slot = size
        /\ Refreshed = [block |-> block, slot |-> size]
    BY Live
  <2>2. slots[size] = p
    <3>1. slots \in Seq(Token)
      BY <1>t DEF TypeOK
    <3> QED
      BY <2>1, <3>1 DEF Pointee
  <2> QED
    BY <2>1, <2>2, LastToken
<1> HIDE DEF p, x, o
<1>c. Closes(p, x) => Usable(p) /\ p.op = "[" /\ x.op = "]" /\ <<p.op, x.op>> \in Cancelling
  BY DEF Closes, Cancelling
<1>o. Opposes(p, x) => /\ Usable(p) /\ <<p.op, x.op>> \in Cancelling
                       /\ x.op \in {"+", "-", ">", "<"}
  BY DEF Opposes, Cancelling
<1>g. ASSUME NEW t, out' = t, dropped' = dropped, Usable(p), <<p.op, x.op>> \in Cancelling,
             \/ p.len = x.len /\ t = o
             \/ p.len > x.len /\ t = Append(o, Tok(p.op, p.len - x.len))
             \/ /\ x.len >= p.len /\ (x.len = p.len => x.op \in {">", "<"})
                /\ t = Append(o, Tok(x.op, x.len - p.len))
      PROVE  FoldStep(x)
  BY <1>0, <1>3, <1>g DEF FoldStep
<1>f. FoldStep(x)
  <2>4. CASE CancelLoop(p, x)
    <3>1. Usable(p) /\ <<p.op, x.op>> \in Cancelling /\ x.len = p.len /\ Pop
      BY <2>4, <1>c DEF CancelLoop
    <3>2. out' = o /\ dropped' = dropped
      BY <1>3, <3>1, PopOut DEF o
    <3> QED
      BY <1>0, <1>3, <3>1, <3>2 DEF FoldStep
  <2>5. CASE CloseMore(p, x)
    <3>1. Usable(p) /\ <<p.op, x.op>> \in Cancelling /\ x.len > p.len /\ x.op = "]"
      BY <2>5, <1>c DEF CloseMore
    <3>2. slots' = [slots EXCEPT ![size] = Tok(x.op, x.len - p.len)] /\ size' = size
          /\ dropped' = dropped
      BY <2>5, <3>1 DEF CloseMore
    <3>3. Tok(x.op, x.len - p.len) \in Token
      BY <1>0, <1>2, <3>1 DEF Tok, Token
    <3>4. out' = Append(o, Tok(x.op, x.len - p.len))
      BY <1>3, <3>1, <3>2, <3>3, ReplaceOut DEF o
    <3>5. x.len >= p.len /\ x.len # p.len
      BY <1>0, <1>2, <3>1
    <3> QED
      BY <1>0, <1>3, <3>1, <3>2, <3>4, <3>5 DEF FoldStep
  <2>6. CASE CloseFewer(p, x)
    <3>1. Usable(p) /\ <<p.op, x.op>> \in Cancelling /\ x.len < p.len /\ p.op = "["
      BY <2>6, <1>c DEF CloseFewer
    <3>2. slots' = [slots EXCEPT ![size] = Tok(p.op, p.len - x.len)] /\ size' = size
          /\ dropped' = dropped
      BY <1>3, <2>6, <3>1 DEF CloseFewer, SetPrev
    <3>3. Tok(p.op, p.len - x.len) \in Token /\ p.len > x.len
      BY <1>0, <1>2, <3>1 DEF Tok, Token
    <3>4. out' = Append(o, Tok(p.op, p.len - x.len))
      BY <1>3, <3>1, <3>2, <3>3, ReplaceOut DEF o
    <3> QED
      BY <1>0, <1>3, <3>1, <3>2, <3>3, <3>4 DEF FoldStep
  <2>7. CASE Annihilate(p, x)
    <3>1. Usable(p) /\ <<p.op, x.op>> \in Cancelling /\ x.len = p.len /\ Pop
      BY <2>7, <1>o DEF Annihilate, Annihilates
    <3>2. out' = o /\ dropped' = dropped
      BY <1>3, <3>1, PopOut DEF o
    <3> QED
      BY <1>0, <1>3, <3>1, <3>2 DEF FoldStep
  <2>8. CASE Merge(p, x)
    <3>1. Usable(p) /\ <<p.op, x.op>> \in Cancelling
      BY <2>8, <1>o DEF Merge
    <3>2. size' = size /\ dropped' = dropped
      BY <2>8 DEF Merge, SetPrev
    <3>3. CASE p.len > x.len
      <4>1. slots' = [slots EXCEPT ![size] = Tok(p.op, p.len - x.len)]
        BY <1>3, <2>8, <3>1, <3>3 DEF Merge, SetPrev
      <4>2. Tok(p.op, p.len - x.len) \in Token
        BY <1>0, <1>2, <3>3 DEF Tok, Token
      <4>3. out' = Append(o, Tok(p.op, p.len - x.len))
        BY <1>3, <3>1, <3>2, <4>1, <4>2, ReplaceOut DEF o
      <4> QED
        BY <1>0, <1>3, <3>1, <3>2, <3>3, <4>3 DEF FoldStep
    <3>4. CASE ~(p.len > x.len)
      <4>0. x.len >= p.len
        BY <1>0, <1>2, <3>4
      <4>1. slots' = [slots EXCEPT ![size] = Tok(x.op, x.len - p.len)]
        BY <1>3, <2>8, <3>1, <3>4 DEF Merge, SetPrev
      <4>2. Tok(x.op, x.len - p.len) \in Token
        BY <1>0, <1>2, <4>0 DEF Tok, Token
      <4>3. out' = Append(o, Tok(x.op, x.len - p.len))
        BY <1>3, <3>1, <3>2, <4>1, <4>2, ReplaceOut DEF o
      <4>4. x.len = p.len => x.op \in {">", "<"}
        BY <2>8, <1>o DEF Merge, Annihilates
      <4> QED
        BY <1>0, <1>3, <3>1, <3>2, <4>0, <4>3, <4>4 DEF FoldStep
    <3> QED
      BY <3>3, <3>4
  <2>9. CASE Keep(p, x)
    <3>1. Push(x)
      BY <2>9 DEF Keep
    <3> QED
      BY <1>2, <3>1, PushOut DEF FoldStep
  <2> QED
    BY <1>1, <2>4, <2>5, <2>6, <2>7, <2>8, <2>9 DEF x
<1> QED
  BY <1>1, <1>f DEF x

-----------------------------------------------------------------------------
(* Folding is sound: what the tokens stand for reduces to what the text    *)
(* consumed so far reduces to.                                             *)

\* The m characters of s after the first p are all c.
Repeats(s, p, m, c) == \A k \in 1 .. m : s[p + k] = c
LEMMA TextTake ==
  ASSUME NEW C, NEW s \in Seq(C), NEW p \in Nat, NEW m \in Nat, p + m <= Len(s),
         NEW c \in C, Repeats(s, p, m, c)
  PROVE  /\ SubSeq(s, 1, p) \in Seq(C)
         /\ SubSeq(s, 1, p + m) = SubSeq(s, 1, p) \o Run(c, m)
<1> DEFINE a == SubSeq(s, 1, p)
           b == SubSeq(s, 1, p + m)
           r == Run(c, m)
<1>1. \A n \in 0 .. Len(s) : /\ SubSeq(s, 1, n) \in Seq(C) /\ Len(SubSeq(s, 1, n)) = n
                             /\ \A k \in 1 .. n : SubSeq(s, 1, n)[k] = s[k]
  BY Prefix
<1>2. a \in Seq(C) /\ Len(a) = p /\ \A k \in 1 .. p : a[k] = s[k]
  BY <1>1
<1>3. b \in Seq(C) /\ Len(b) = p + m /\ \A k \in 1 .. p + m : b[k] = s[k]
  BY <1>1
<1>4. r \in Seq(C) /\ Len(r) = m /\ \A k \in 1 .. m : r[k] = c
  BY RunType
<1> HIDE DEF a, b, r
<1>5. /\ a \o r \in Seq(C) /\ Len(a \o r) = p + m
      /\ \A k \in 1 .. p + m : (a \o r)[k] = IF k <= p THEN a[k] ELSE r[k - p]
  BY <1>2, <1>4, ConcatProperties
<1>6. ASSUME NEW k \in 1 .. p + m PROVE b[k] = (a \o r)[k]
  <2>1. CASE k <= p
    <3>1. k \in 1 .. p
      BY <2>1
    <3> QED
      BY <2>1, <3>1, <1>2, <1>3, <1>5
  <2>2. CASE k > p
    <3>1. k - p \in 1 .. m /\ p + (k - p) = k /\ ~(k <= p)
      BY <2>2
    <3>2. s[k] = c
      BY <3>1 DEF Repeats
    <3>3. (a \o r)[k] = r[k - p]
      BY <3>1, <1>5
    <3> QED
      BY <3>1, <3>2, <3>3, <1>3, <1>4
  <2>3. k <= p \/ k > p
    OBVIOUS
  <2> QED
    BY <2>1, <2>2, <2>3
<1>7. b = a \o r
  BY <1>3, <1>5, <1>6, SeqEqual
<1> QED
  BY <1>2, <1>7 DEF a, b, r

LEMMA FoldStepSound ==
  ASSUME out \in Seq(Token), NEW s \in Seq(Ops), NEW x \in Token, FoldStep(x), ~dropped',
         Reduce(UnfoldAll(out)) = Reduce(s)
  PROVE  Reduce(UnfoldAll(out')) = Reduce(s \o Run(x.op, x.len))
<1> DEFINE u == UnfoldAll(out)
           y == Run(x.op, x.len)
<1>1. u \in Seq(Ops) /\ y \in Seq(Ops) /\ x.op \in Ops /\ x.len \in Nat /\ Unfold(x) = y
  BY UnfoldAllType, UnfoldIsRun
<1>2. Reduce(u \o y) = Reduce(s \o y)
  BY <1>1, ReduceCongruent
<1>3. CASE out' = Append(out, x)
  BY <1>1, <1>2, <1>3, UnfoldAllAppend
<1>4. ASSUME NEW o \in Seq(Token), NEW p \in Token, out = Append(o, p),
             <<p.op, x.op>> \in Cancelling,
             \/ p.len = x.len /\ out' = o
             \/ p.len > x.len /\ out' = Append(o, Tok(p.op, p.len - x.len))
             \/ /\ x.len >= p.len
                /\ out' = Append(o, Tok(x.op, x.len - p.len))
      PROVE  Reduce(UnfoldAll(out')) = Reduce(u \o y)
  <2> DEFINE v == UnfoldAll(o)
  <2>1. v \in Seq(Ops) /\ p.op \in Ops /\ p.len \in Nat /\ u = v \o Run(p.op, p.len)
    BY <1>4, UnfoldAllType, UnfoldIsRun, UnfoldAllAppend
  <2> HIDE DEF v, u, y
  <2>2. /\ p.len >= x.len => Reduce((v \o Run(p.op, p.len)) \o Run(x.op, x.len))
                               = Reduce(v \o Run(p.op, p.len - x.len))
        /\ x.len >= p.len => Reduce((v \o Run(p.op, p.len)) \o Run(x.op, x.len))
                               = Reduce(v \o Run(x.op, x.len - p.len))
    <3> DEFINE d == p.op
               c == x.op
               m == p.len
               n == x.len
    <3>1. v \in Seq(Ops) /\ d \in Ops /\ c \in Ops /\ m \in Nat /\ n \in Nat
          /\ <<d, c>> \in Cancelling
      BY <1>1, <1>4, <2>1
    <3> HIDE DEF d, c, m, n
    <3>2. /\ m >= n => Reduce((v \o Run(d, m)) \o Run(c, n)) = Reduce(v \o Run(d, m - n))
          /\ n >= m => Reduce((v \o Run(d, m)) \o Run(c, n)) = Reduce(v \o Run(c, n - m))
      BY ONLY <3>1, RunsCancel
    <3> QED
      BY <3>2 DEF d, c, m, n
  <2>3. Reduce(u \o y) = Reduce((v \o Run(p.op, p.len)) \o Run(x.op, x.len))
    BY <2>1 DEF y
  <2>4. ASSUME NEW c \in Ops, NEW n \in Nat, out' = Append(o, Tok(c, n))
        PROVE  UnfoldAll(out') = v \o Run(c, n)
    <3>1. Tok(c, n) \in Token /\ Tok(c, n).op = c /\ Tok(c, n).len = n
      BY TokenType DEF Tok
    <3> QED
      BY <2>4, <3>1, UnfoldAllAppend, UnfoldIsRun DEF v
  <2>5. CASE p.len = x.len /\ out' = o
    <3>1. p.len >= x.len /\ p.len - x.len = 0
      BY <1>1, <2>1, <2>5
    <3>2. Run(p.op, 0) = <<>> /\ v \o <<>> = v
      BY <2>1, RunUnit, ConcatEmptySeq
    <3> QED
      BY <2>2, <2>3, <2>5, <3>1, <3>2 DEF v
  <2>6. CASE p.len > x.len /\ out' = Append(o, Tok(p.op, p.len - x.len))
    <3>1. p.len - x.len \in Nat /\ p.len >= x.len
      BY <1>1, <2>1, <2>6
    <3> QED
      BY <2>1, <2>2, <2>3, <2>4, <2>6, <3>1
  <2>7. CASE x.len >= p.len /\ out' = Append(o, Tok(x.op, x.len - p.len))
    <3>1. x.len - p.len \in Nat
      BY <1>1, <2>1, <2>7
    <3> QED
      BY <1>1, <2>2, <2>3, <2>4, <2>7, <3>1
  <2> QED
    BY <1>4, <2>5, <2>6, <2>7
<1> QED
  BY <1>2, <1>3, <1>4 DEF FoldStep

\* A token lex keeps stands for something, but for two equal moves that met.
Solid(ts) == \A k \in 1 .. Len(ts) : ts[k].len > 0 \/ ts[k].op \in {">", "<"}

LEMMA SolidAppend ==
  ASSUME NEW ts \in Seq(Token), NEW t \in Token
  PROVE  Solid(Append(ts, t)) <=> Solid(ts) /\ (t.len > 0 \/ t.op \in {">", "<"})
<1> DEFINE us == Append(ts, t)
           n == Len(ts)
           P(e) == e.len > 0 \/ e.op \in {">", "<"}
<1>1. us \in Seq(Token) /\ Len(us) = n + 1 /\ us[n + 1] = t /\ \A k \in 1 .. n : us[k] = ts[k]
  BY AppendProperties
<1> HIDE DEF us
<1>2. (\A k \in 1 .. n + 1 : P(us[k])) <=> (\A k \in 1 .. n : P(ts[k])) /\ P(t)
  <2>1. n \in Nat
    OBVIOUS
  <2> HIDE DEF n, P
  <2>2. n + 1 \in 1 .. n + 1 /\ \A k \in 1 .. n : k \in 1 .. n + 1
    BY <2>1
  <2>3. \A k \in 1 .. n + 1 : k \in 1 .. n \/ k = n + 1
    BY <2>1
  <2> QED
    BY ONLY <1>1, <2>2, <2>3
<1> QED
  BY <1>1, <1>2 DEF Solid, us

LEMMA FoldStepSolid ==
  ASSUME out \in Seq(Token), NEW x \in Token, x.len > 0, FoldStep(x), Solid(out)
  PROVE  Solid(out')
<1>1. x.op \in Ops /\ x.len \in Nat
  BY DEF Token
<1>2. CASE out' = out
  BY <1>2
<1>3. CASE out' = Append(out, x)
  BY <1>3, SolidAppend
<1>4. ASSUME NEW o \in Seq(Token), NEW p \in Token, out = Append(o, p),
             \/ p.len = x.len /\ out' = o
             \/ p.len > x.len /\ out' = Append(o, Tok(p.op, p.len - x.len))
             \/ /\ x.len >= p.len /\ (x.len = p.len => x.op \in {">", "<"})
                /\ out' = Append(o, Tok(x.op, x.len - p.len))
      PROVE  Solid(out')
  <2>1. Solid(o) /\ p.len \in Nat /\ p.op \in Ops
    BY <1>4, SolidAppend DEF Token
  <2>2. ASSUME NEW c \in Ops, NEW n \in Nat, n > 0 \/ c \in {">", "<"}
        PROVE  Solid(Append(o, Tok(c, n)))
    <3>1. Tok(c, n) \in Token /\ Tok(c, n).op = c /\ Tok(c, n).len = n
      BY TokenType DEF Tok
    <3> QED
      BY <2>1, <2>2, <3>1, SolidAppend
  <2>3. p.len > x.len => p.len - x.len \in Nat /\ p.len - x.len > 0
    BY <1>1, <2>1
  <2>4. x.len >= p.len => x.len - p.len \in Nat /\ (x.len - p.len > 0 \/ x.len = p.len)
    BY <1>1, <2>1
  <2> QED
    BY <1>1, <1>4, <2>1, <2>2, <2>3, <2>4
<1> QED
  BY <1>2, <1>3, <1>4 DEF FoldStep

\* What the scanning loop has made of the text: the whole of it once it ends.
Folded ==
  /\ IInv
  /\ pc = "read" => size = 0 /\ pos = 0
  /\ pc \in {"check", "accepted", "rejected"} => pos = Len(src)
  /\ Solid(out)
  /\ FoldSound

LEMMA OutType == IInv => out \in Seq(Token) /\ Len(out) = size
                         /\ \A k \in 1 .. size : out[k] = slots[k]
<1> SUFFICES ASSUME IInv PROVE out \in Seq(Token) /\ Len(out) = size
                               /\ \A k \in 1 .. size : out[k] = slots[k]
  OBVIOUS
<1>1. slots \in Seq(Token) /\ size \in 0 .. Len(slots)
  BY DEF IInv, TypeOK
<1> QED
  BY <1>1, Prefix DEF out

LEMMA EmptyTake == ASSUME NEW C, NEW s \in Seq(C) PROVE SubSeq(s, 1, 0) = <<>>
<1>1. 0 \in 0 .. Len(s) /\ \A r \in Seq(C) : Len(r) = 0 => r = <<>>
  OBVIOUS
<1> QED
  BY <1>1, Prefix

LEMMA EmptyFolded == Solid(<<>>) /\ Reduce(UnfoldAll(<<>>)) = Reduce(<<>>)
  BY UnfoldAllEmpty DEF Solid

LEMMA TextOps == ASSUME NEW s \in Seq(CoreOps \union ExtraOps) PROVE s \in Seq(Ops)
<1>1. CoreOps \union ExtraOps \subseteq Ops
  BY DEF Ops
<1>2. \A S, T : S \subseteq T => Seq(S) \subseteq Seq(T)
  OBVIOUS
<1> QED
  BY <1>1, <1>2

LEMMA ScanFolded == ASSUME Folded, Scan, IInv' PROVE Folded'
<1>1. ScanReady /\ IInv /\ TypeOK /\ pc = "scan" /\ pc' = pc /\ src' = src
  BY DEF Folded, Scan, ScanReady, IInv
<1>2. PICK m \in 1 .. Len(src) - pos :
        IsRun(pos, m) /\ pos' = pos + m /\ FoldStep(Tok(src[pos + 1], m))
  BY <1>1, ScanFolds
<1> DEFINE c == src[pos + 1]
           x == Tok(c, m)
           s == SubSeq(src, 1, pos)
<1>3. m \in Nat /\ m > 0 /\ c \in Ops /\ x \in Token /\ x.op = c /\ x.len = m
  BY <1>1, <1>2, NextRun DEF Tok
<1>4. out \in Seq(Token) /\ Solid(out)
  BY <1>1, OutType DEF Folded
<1>5. s \in Seq(Ops) /\ SubSeq(src, 1, pos + m) = s \o Run(c, m)
  <2>1. src \in Seq(Ops) /\ pos \in Nat /\ pos + m <= Len(src)
    <3>3. src \in Seq(Ops)
      BY <1>1, TextOps DEF TypeOK
    <3> QED
      BY <1>1, <1>2, <3>3 DEF TypeOK
  <2>2. \A k \in 1 .. m : src[pos + k] = c
    BY <1>2 DEF IsRun
  <2>3. \A k \in 1 .. m : src[pos + k] = c
    BY <2>2
  <2> HIDE DEF c
  <2>4. SubSeq(src, 1, pos) \in Seq(Ops) /\ SubSeq(src, 1, pos + m) = SubSeq(src, 1, pos) \o Run(c, m)
    <3> DEFINE t == src
               q == pos
    <3>1. /\ t \in Seq(Ops) /\ q \in Nat /\ m \in Nat /\ q + m <= Len(t) /\ c \in Ops
          /\ Repeats(t, q, m, c)
      BY <1>3, <2>1, <2>3 DEF Repeats
    <3> HIDE DEF t, q
    <3>2. SubSeq(t, 1, q) \in Seq(Ops) /\ SubSeq(t, 1, q + m) = SubSeq(t, 1, q) \o Run(c, m)
      BY ONLY <3>1, TextTake
    <3> QED
      BY <3>2 DEF t, q
  <2> QED
    BY <2>4
<1> HIDE DEF x, c, s
<1>6. Solid(out')
  BY <1>2, <1>3, <1>4, FoldStepSolid DEF x, c
<1>7. ASSUME ~dropped' PROVE Reduce(UnfoldAll(out')) = Reduce(SubSeq(src', 1, pos'))
  <2>1. FoldStep(x)
    BY <1>2 DEF x, c
  <2>2. ~dropped
    BY <1>7, <2>1 DEF FoldStep
  <2>3. Reduce(UnfoldAll(out)) = Reduce(s)
    BY <2>2 DEF Folded, FoldSound, s
  <2>4. Reduce(UnfoldAll(out')) = Reduce(s \o Run(c, m))
    BY <1>3, <1>4, <1>5, <1>7, <2>1, <2>3, FoldStepSound
  <2> QED
    BY <1>1, <1>2, <1>5, <2>4
<1>8. FoldSound'
  BY <1>7 DEF FoldSound
<1> QED
  BY <1>1, <1>6, <1>8 DEF Folded

LEMMA StepFolded == Folded /\ [Next]_vars => Folded'
<1> SUFFICES ASSUME Folded, [Next]_vars PROVE Folded'
  OBVIOUS
<1>1. IInv /\ IInv'
  BY StepIInv DEF Folded
<1>2. CASE Scan
  BY <1>1, <1>2, ScanFolded
<1>3. CASE ReadChar \/ EndOfFile \/ NoVector \/ Overrun \/ ReadFails
  <2>1. pc = "read" /\ size' = 0 /\ pos' = 0 /\ pc' \in {"read", "scan", "unreadable", "overrun", "astray"}
    BY <1>3 DEF ReadChar, EndOfFile, NoVector, Overrun, ReadFails, scanVars, Folded
  <2>2. Solid(out)' /\ FoldSound'
    <3>1. slots' \in Seq(Token) /\ src' \in Seq(CoreOps \union ExtraOps)
      BY <1>1 DEF IInv, TypeOK
    <3>2. out' = <<>> /\ SubSeq(src', 1, 0) = <<>>
      BY <2>1, <3>1, EmptyTake DEF out
    <3> QED
      BY <2>1, <3>2, EmptyFolded DEF FoldSound
  <2> QED
    BY <1>1, <2>1, <2>2 DEF Folded
<1>4. CASE ~Scan /\ ~ReadChar /\ ~EndOfFile /\ ~NoVector /\ ~Overrun /\ ~ReadFails
  <2>1. UNCHANGED <<src, pos, slots, size, dropped>>
    BY <1>4 DEF Next, PushUnsized, EndScan, RejectClose, RejectLoop, Reject,
       Inspect, RejectOpen, Accept, Stop, scanVars, vars
  <2>2. /\ pc' \in {"check", "accepted", "rejected"} => pos = Len(src)
        /\ pc' = "read" => pc = "read"
    BY <1>4 DEF Folded, Next, PushUnsized, EndScan, RejectClose, RejectLoop, Reject,
       Inspect, RejectOpen, Accept, Stop, vars
  <2>3. out' = out
    BY <2>1 DEF out
  <2>4. FoldSound' /\ Solid(out')
    BY <2>1, <2>3 DEF Folded, FoldSound
  <2> QED
    BY <1>1, <2>1, <2>2, <2>3, <2>4 DEF Folded
<1> QED
  BY <1>2, <1>3, <1>4

LEMMA InitFolded == Init => Folded
<1> SUFFICES ASSUME Init PROVE Folded
  OBVIOUS
<1>1. IInv /\ size = 0 /\ pos = 0 /\ pc = "read"
  BY InitIInv DEF Init
<1>2. slots \in Seq(Token) /\ src \in Seq(CoreOps \union ExtraOps)
  BY <1>1 DEF IInv, TypeOK
<1>3. out = <<>> /\ SubSeq(src, 1, 0) = <<>>
  BY <1>1, <1>2, EmptyTake DEF out
<1> QED
  BY <1>1, <1>3, EmptyFolded DEF Folded, FoldSound

LEMMA FoldedInvariance == Spec => []Folded
<1> QED
  BY InitFolded, StepFolded, PTL DEF Spec

\* Folding never changes what the program means: for every text, in whatever
\* order runs meet, merge and cancel, the tokens and the text consumed reduce
\* to the same stream as long as no push was lost.
THEOREM FoldingSound == Spec => []FoldSound
<1> QED
  BY FoldedInvariance, PTL DEF Folded

-----------------------------------------------------------------------------
(* Loops that cannot end, over tokens and over the text.                   *)

\* The walk to the next "]" from token j meets a '-', as the code looks.
HasMinusAt(ts, j) == \E m \in j + 1 .. Len(ts) :
                       /\ ts[m].op = "-"
                       /\ \A k \in j + 1 .. m - 1 : ts[k].op # "]"

\* A character lies beyond token j when its token does.
LEMMA Beyond ==
  ASSUME NEW ts \in Seq(Token), NEW s, NEW off, Layout(ts, s, off), NEW m \in 1 .. Len(ts),
         NEW x \in off[m - 1] + 1 .. off[m], NEW j \in 0 .. Len(ts)
  PROVE  (x > off[j] <=> m > j) /\ x \in Nat /\ off[j] \in Nat /\ s[x] = ts[m].op
<1>1. m \in 0 .. Len(ts) /\ m - 1 \in 0 .. Len(ts) /\ m \in Nat /\ j \in Nat
  OBVIOUS
<1>2. off[m] \in Nat /\ off[m - 1] \in Nat /\ off[j] \in Nat
  BY <1>1 DEF Layout
<1>3. s[x] = ts[m].op
  BY DEF Layout
<1>4. m <= j => off[m] <= off[j]
  BY <1>1 DEF Layout
<1>5. j <= m - 1 => off[j] <= off[m - 1]
  BY <1>1 DEF Layout
<1> QED
  BY <1>1, <1>2, <1>3, <1>4, <1>5

\* The first character of a token that has one.
LEMMA FirstOf ==
  ASSUME NEW ts \in Seq(Token), NEW s, NEW off, Layout(ts, s, off), NEW m \in 1 .. Len(ts),
         ts[m].len > 0
  PROVE  /\ off[m - 1] + 1 \in off[m - 1] + 1 .. off[m]
         /\ off[m] \in off[m - 1] + 1 .. off[m]
         /\ off[m - 1] + 1 \in 1 .. off[Len(ts)] /\ off[m] \in 1 .. off[Len(ts)]
<1>1. m \in 0 .. Len(ts) /\ m - 1 \in 0 .. Len(ts) /\ Len(ts) \in 0 .. Len(ts) /\ m <= Len(ts)
  OBVIOUS
<1>2. off[m] \in Nat /\ off[m - 1] \in Nat /\ off[Len(ts)] \in Nat /\ off[m] <= off[Len(ts)]
      /\ off[m] = off[m - 1] + ts[m].len
  BY <1>1 DEF Layout
<1>3. ts[m].len \in Nat
  <2>1. ts[m] \in Token
    OBVIOUS
  <2> QED
    BY <2>1 DEF Token
<1> QED
  BY <1>2, <1>3

LEMMA BarrenToken ==
  ASSUME NEW ts \in Seq(Token), NEW s \in Seq(Ops), NEW off, Layout(ts, s, off), Solid(ts),
         NEW j \in 1 .. Len(ts), ts[j].op = "["
  PROVE  off[j] \in DOMAIN s /\ (Barren(s, off[j]) <=> ~HasMinusAt(ts, j))
<1>0. j \in 0 .. Len(ts) /\ j \in Nat /\ off[j] \in Nat /\ Len(s) \in Nat /\ Len(ts) \in Nat
      /\ off[Len(ts)] = Len(s)
  BY DEF Layout
<1>1. ts[j].len > 0
  BY DEF Solid
<1>2. off[j] \in 1 .. Len(s) /\ s[off[j]] = "["
  <2>1. off[j] \in off[j - 1] + 1 .. off[j] /\ off[j] \in 1 .. Len(s)
    BY <1>0, <1>1, FirstOf
  <2> QED
    BY <2>1, <1>0, Beyond
<1>3. ASSUME ~HasMinusAt(ts, j), NEW q \in off[j] + 1 .. Len(s), s[q] = "-"
      PROVE  \E k \in off[j] + 1 .. q - 1 : s[k] = "]"
  <2>1. q \in 1 .. Len(s) /\ q > off[j] /\ q \in Nat
    BY <1>0
  <2>2. PICK m \in 1 .. Len(ts) : q \in off[m - 1] + 1 .. off[m]
    BY <2>1 DEF Layout
  <2>3. ts[m].op = "-" /\ m > j /\ m \in j + 1 .. Len(ts)
    BY <1>0, <1>3, <2>1, <2>2, Beyond
  <2>4. PICK k \in j + 1 .. m - 1 : ts[k].op = "]"
    BY <1>3, <2>3 DEF HasMinusAt
  <2>5. k \in 1 .. Len(ts) /\ k \in 0 .. Len(ts) /\ k > j /\ m > k
    BY <1>0
  <2>6. ts[k].len > 0
    BY <2>4, <2>5 DEF Solid
  <2>7. off[k] \in off[k - 1] + 1 .. off[k]
    BY <2>5, <2>6, FirstOf
  <2>8. s[off[k]] = "]" /\ off[k] > off[j] /\ off[k] \in Nat
    BY <1>0, <2>4, <2>5, <2>7, Beyond
  <2>9. q > off[k]
    BY <2>2, <2>5, Beyond
  <2>10. off[k] \in off[j] + 1 .. q - 1
    BY <1>0, <2>1, <2>8, <2>9
  <2> QED
    BY <2>8, <2>10
<1>4. ASSUME HasMinusAt(ts, j), Barren(s, off[j]) PROVE FALSE
  <2>1. PICK m \in j + 1 .. Len(ts) :
          ts[m].op = "-" /\ \A k \in j + 1 .. m - 1 : ts[k].op # "]"
    BY <1>4 DEF HasMinusAt
  <2> DEFINE q == off[m - 1] + 1
  <2>2. m \in 1 .. Len(ts) /\ m \in 0 .. Len(ts) /\ m > j /\ m - 1 \in 0 .. Len(ts)
    BY <1>0
  <2>3. ts[m].len > 0
    BY <2>1, <2>2 DEF Solid
  <2>4. q \in off[m - 1] + 1 .. off[m] /\ q \in 1 .. Len(s) /\ off[m - 1] \in Nat
    BY <1>0, <2>2, <2>3, FirstOf DEF Layout
  <2>5. s[q] = "-" /\ q > off[j]
    BY <1>0, <2>1, <2>2, <2>4, Beyond
  <2>d. q = off[m - 1] + 1
    OBVIOUS
  <2> HIDE DEF q
  <2>6. PICK k \in off[j] + 1 .. q - 1 : s[k] = "]"
    BY <1>0, <1>4, <2>4, <2>5 DEF Barren
  <2>7. k \in 1 .. Len(s) /\ k > off[j] /\ ~(k > off[m - 1])
    BY <1>0, <2>4, <2>d
  <2>8. PICK n \in 1 .. Len(ts) : k \in off[n - 1] + 1 .. off[n]
    BY <2>7 DEF Layout
  <2>9. ts[n].op = "]" /\ n > j /\ ~(n > m - 1)
    BY <1>0, <2>2, <2>6, <2>7, <2>8, Beyond
  <2>10. n \in j + 1 .. m - 1
    BY <1>0, <2>2, <2>9
  <2> QED
    BY <2>1, <2>9, <2>10
<1> QED
  BY <1>2, <1>3, <1>4 DEF Barren

LEMMA InnermostMinus ==
  ASSUME NEW ts \in Seq(Token), NEW s \in Seq(Ops), NEW off, Layout(ts, s, off), Solid(ts),
         \A j \in 1 .. Len(ts) : ts[j].op = "[" => HasMinusAt(ts, j),
         NEW p \in 1 .. Len(s), NEW q \in 1 .. Len(s), p < q, Innermost(s, p, q)
  PROVE  \E k \in p + 1 .. q - 1 : s[k] = "-"
<1>0. Len(s) \in Nat /\ Len(ts) \in Nat /\ off[Len(ts)] = Len(s)
  BY DEF Layout
<1>1. PICK j \in 1 .. Len(ts) : p \in off[j - 1] + 1 .. off[j]
  BY DEF Layout
<1>2. PICK n \in 1 .. Len(ts) : q \in off[n - 1] + 1 .. off[n]
  BY DEF Layout
<1>3. j \in 0 .. Len(ts) /\ n \in 0 .. Len(ts) /\ j - 1 \in 0 .. Len(ts)
      /\ off[j] \in Nat /\ off[n] \in Nat /\ off[j - 1] \in Nat
  BY DEF Layout
<1>4. ts[j].op = "[" /\ ts[n].op = "]"
  BY <1>1, <1>2, <1>3, Beyond DEF Innermost
\* p ends its run: the next character is no bracket, or is the one at q.
<1>5. p = off[j]
  <2> SUFFICES ASSUME p # off[j] PROVE FALSE
    OBVIOUS
  <2>1. p + 1 \in off[j - 1] + 1 .. off[j]
    BY <1>1, <1>3
  <2>2. s[p + 1] = "["
    BY <1>3, <1>4, <2>1, Beyond
  <2>3. CASE p + 1 = q
    BY <2>2, <2>3 DEF Innermost
  <2>4. CASE p + 1 # q
    <3>1. p + 1 \in p + 1 .. q - 1
      BY <2>4
    <3> QED
      BY <2>2, <3>1 DEF Innermost
  <2> QED
    BY <2>3, <2>4
<1>6. n > j
  BY <1>2, <1>3, <1>5, Beyond
<1>7. PICK m \in j + 1 .. Len(ts) :
        ts[m].op = "-" /\ \A k \in j + 1 .. m - 1 : ts[k].op # "]"
  BY <1>4 DEF HasMinusAt
<1>8. m \in 1 .. Len(ts) /\ m \in 0 .. Len(ts) /\ m > j /\ m - 1 \in 0 .. Len(ts)
  BY <1>0
<1>9. ~(n \in j + 1 .. m - 1) /\ n # m
  BY <1>4, <1>7
<1>10. n > m
  BY <1>6, <1>8, <1>9
<1>11. ts[m].len > 0
  BY <1>7, <1>8 DEF Solid
<1>12. off[m] \in off[m - 1] + 1 .. off[m]
  BY <1>8, <1>11, FirstOf
<1>13. s[off[m]] = "-" /\ off[m] > p /\ off[m] \in Nat
  BY <1>3, <1>5, <1>7, <1>8, <1>12, Beyond
<1>14. q > off[m]
  BY <1>2, <1>8, <1>10, Beyond
<1>15. off[m] \in p + 1 .. q - 1
  BY <1>13, <1>14
<1> QED
  BY <1>13, <1>15

-----------------------------------------------------------------------------
(* The checking loop.                                                      *)

\* A loop that cannot end, among the tokens of ts.
Endless(ts, j) == ts[j].op = "[" /\ ~HasMinusAt(ts, j)

\* What the tokens passed so far are known to be, and why lex stopped.
Checked ==
  /\ Folded
  /\ pc \in {"read", "scan"} => plevel = 0
  /\ pc \in {"check", "accepted"} =>
       /\ plevel = TokDepth(out, i) /\ \A k \in 1 .. i : TokDepth(out, k) >= 0
       /\ opts.strict => \A j \in 1 .. i : ~Endless(out, j)
  /\ pc = "accepted" => i = size /\ plevel = 0
  /\ pc = "rejected" => \/ ~TokBalanced(out)
                        \/ opts.strict /\ \E j \in 1 .. size : Endless(out, j)

LEMMA SuspiciousEndless ==
  ASSUME IInv, i < size
  PROVE  /\ i + 1 \in 1 .. size /\ cur = out[i + 1] /\ cur \in Token
         /\ HasMinus <=> HasMinusAt(out, i + 1)
         /\ Suspicious <=> Endless(out, i + 1)
<1>0. i \in Nat /\ size \in Nat /\ i + 1 \in 1 .. size
  BY DEF IInv, TypeOK
<1>1. out \in Seq(Token) /\ Len(out) = size /\ \A k \in 1 .. size : out[k] = slots[k]
  BY OutType
<1>2. cur = out[i + 1] /\ cur \in Token
  BY <1>0, <1>1 DEF cur
<1>3. HasMinus <=> HasMinusAt(out, i + 1)
  <2>1. /\ (i + 1) + 1 = i + 2
        /\ \A m \in i + 2 .. size : m \in 1 .. size
        /\ \A m \in i + 2 .. size : \A k \in i + 2 .. m - 1 : k \in 1 .. size
    BY <1>0
  <2> QED
    BY <1>1, <2>1 DEF HasMinus, HasMinusAt
<1>4. TightLoop => ~HasMinus
  <2> SUFFICES ASSUME TightLoop, HasMinus PROVE FALSE
    OBVIOUS
  <2>1. PICK j \in i + 2 .. size :
          slots[j].op = "-" /\ \A k \in i + 2 .. j - 1 : slots[k].op # "]"
    BY DEF HasMinus
  <2>2. j # i + 2 /\ j # i + 3
    BY <2>1 DEF TightLoop
  <2>3. i + 3 \in i + 2 .. j - 1
    BY <1>0, <2>1, <2>2
  <2> QED
    BY <2>1, <2>3 DEF TightLoop
<1> QED
  BY <1>0, <1>2, <1>3, <1>4 DEF Suspicious, Endless

LEMMA LevelNext ==
  ASSUME Checked, pc = "check", i < size
  PROVE  LevelAfter = TokDepth(out, i + 1)
<1>0. IInv /\ i \in Nat /\ i + 1 \in 1 .. size /\ plevel \in Int
  BY DEF Checked, Folded, IInv, TypeOK
<1>1. out \in Seq(Token) /\ Len(out) = size
  BY <1>0, OutType
<1>2. TokDepth(out, i + 1) = TokDepth(out, (i + 1) - 1) + Weight(out[i + 1])
  BY <1>0, <1>1, TokDepthStep
<1>3. (i + 1) - 1 = i /\ plevel = TokDepth(out, i)
  BY <1>0 DEF Checked
<1>4. cur = out[i + 1] /\ cur \in Token
  BY <1>0, SuspiciousEndless
<1>5. LevelAfter = plevel + Weight(cur)
  <2>1. cur.len \in Nat
    BY <1>4 DEF Token
  <2> HIDE DEF cur
  <2> QED
    BY <1>0, <2>1 DEF LevelAfter, Weight
<1> QED
  BY <1>2, <1>3, <1>4, <1>5

LEMMA StepChecked == Checked /\ [Next]_vars => Checked'
<1> SUFFICES ASSUME Checked, [Next]_vars PROVE Checked'
  OBVIOUS
<1>1. IInv /\ Folded /\ Folded'
  BY StepFolded DEF Checked, Folded
<1>0. i \in Nat /\ size \in Nat /\ i <= size /\ plevel \in Int
  BY <1>1 DEF IInv, TypeOK
<1>o. out \in Seq(Token) /\ Len(out) = size
  BY <1>1, OutType
<1>i. pc = "scan" => i = 0
  BY <1>1 DEF IInv
<1>2. CASE RejectClose \/ RejectLoop \/ RejectOpen
  <2>1. pc = "check" /\ pc' = "rejected" /\ UNCHANGED <<slots, size, opts, i>>
    BY <1>2 DEF RejectClose, RejectLoop, RejectOpen, Reject, scanVars
  <2>2. out' = out
    BY <2>1 DEF out
  <2>3. ~TokBalanced(out) \/ (opts.strict /\ \E j \in 1 .. size : Endless(out, j))
    <3>1. CASE RejectClose
      <4>1. i < size /\ TokDepth(out, i + 1) < 0
        BY <2>1, <3>1, LevelNext DEF RejectClose
      <4>2. i + 1 \in 1 .. Len(out)
        BY <4>1, <1>0, <1>o
      <4>3. ~(TokDepth(out, i + 1) >= 0)
        <5>1. TokDepth(out, i + 1) \in Int
          BY <1>o, <4>2, TokDepthStep
        <5> QED
          BY <4>1, <5>1
      <4> QED
        BY <4>2, <4>3 DEF TokBalanced
    <3>2. CASE RejectLoop
      <4>1. i < size /\ opts.strict /\ Suspicious
        BY <3>2 DEF RejectLoop
      <4> QED
        BY <4>1, <1>1, SuspiciousEndless
    <3>3. CASE RejectOpen
      <4>1. i = size /\ plevel # 0 /\ plevel = TokDepth(out, i)
        BY <2>1, <3>3 DEF RejectOpen, Checked
      <4> QED
        BY <4>1, <1>o DEF TokBalanced
    <3> QED
      BY <1>2, <3>1, <3>2, <3>3
  <2> QED
    BY <1>1, <2>1, <2>2, <2>3 DEF Checked
<1>3. CASE Inspect
  <2>1. pc = "check" /\ pc' = "check" /\ UNCHANGED <<slots, size, opts>> /\ i' = i + 1
        /\ i < size /\ LevelAfter >= 0 /\ plevel' = LevelAfter
        /\ ~(opts.strict /\ Suspicious)
    BY <1>3 DEF Inspect, scanVars
  <2>2. out' = out
    BY <2>1 DEF out
  <2>3. LevelAfter = TokDepth(out, i + 1)
    BY <2>1, LevelNext
  <2>4. \A k \in 1 .. i + 1 : k \in 1 .. i \/ k = i + 1
    BY <1>0
  <2>5. (\A k \in 1 .. i : TokDepth(out, k) >= 0)
        /\ (opts.strict => \A j \in 1 .. i : ~Endless(out, j))
    BY <2>1 DEF Checked
  <2>6. opts.strict => ~Endless(out, i + 1)
    BY <1>1, <2>1, SuspiciousEndless
  <2>7. (\A k \in 1 .. i + 1 : TokDepth(out, k) >= 0)
        /\ (opts.strict => \A j \in 1 .. i + 1 : ~Endless(out, j))
    BY <2>1, <2>3, <2>4, <2>5, <2>6
  <2> QED
    BY <1>1, <2>1, <2>2, <2>3, <2>7 DEF Checked
<1>4. CASE EndScan
  <2>1. pc = "scan" /\ pc' = "check" /\ UNCHANGED <<slots, size, opts, i, plevel>>
    BY <1>4 DEF EndScan, scanVars, checkVars
  <2>2. i' = 0 /\ plevel' = 0 /\ \A k \in 1 .. i' : FALSE
    BY <1>i, <2>1 DEF Checked
  <2>3. TokDepth(out', 0) = 0
    <3>1. out' = out
      BY <2>1 DEF out
    <3> QED
      BY <1>o, <3>1, TokDepthStep
  <2> QED
    BY <1>1, <2>1, <2>2, <2>3 DEF Checked
<1>5. CASE Accept
  <2>1. pc = "check" /\ pc' = "accepted" /\ UNCHANGED <<slots, size, opts, i, plevel>>
        /\ i = size /\ plevel = 0
    BY <1>5 DEF Accept, scanVars, checkVars
  <2>2. out' = out
    BY <2>1 DEF out
  <2> QED
    BY <1>1, <2>1, <2>2 DEF Checked
<1>6. CASE ReadChar \/ EndOfFile \/ NoVector \/ Overrun \/ ReadFails \/ Scan \/ PushUnsized
  <2>1. /\ pc \in {"read", "scan"} /\ plevel' = plevel
        /\ pc' \in {"read", "scan", "unreadable", "overrun", "astray"}
    BY <1>6 DEF ReadChar, EndOfFile, NoVector, Overrun, ReadFails, Scan, PushUnsized, checkVars
  <2> QED
    BY <1>1, <2>1 DEF Checked
<1>7. CASE UNCHANGED vars
  <2>1. UNCHANGED <<pc, slots, size, opts, i, plevel>>
    BY <1>7 DEF vars
  <2>2. out' = out
    BY <2>1 DEF out
  <2> QED
    BY <1>1, <2>1, <2>2 DEF Checked
<1> QED
  BY <1>2, <1>3, <1>4, <1>5, <1>6, <1>7 DEF Next, Stop

LEMMA InitChecked == Init => Checked
<1> SUFFICES ASSUME Init PROVE Checked
  OBVIOUS
<1>1. Folded /\ pc = "read" /\ plevel = 0
  BY InitFolded DEF Init
<1> QED
  BY <1>1 DEF Checked

LEMMA CheckedInvariance == Spec => []Checked
<1> QED
  BY InitChecked, StepChecked, PTL DEF Spec

\* What lex hands to the optimizer, for every text and whatever pushes failed:
\* the brackets of its tokens match, and only two equal moves that met leave a
\* token that stands for nothing.
THEOREM LexedWell == Spec => []LexedForm
<1>1. Checked => LexedForm
  <2> SUFFICES ASSUME Checked, pc = "accepted"
               PROVE  /\ TokBalanced(out)
                      /\ \A k \in 1 .. size : out[k].len > 0 \/ out[k].op \in {">", "<"}
    BY DEF LexedForm
  <2>1. out \in Seq(Token) /\ Len(out) = size /\ Solid(out)
    BY OutType DEF Checked, Folded
  <2>2. TokDepth(out, size) = 0 /\ \A k \in 1 .. size : TokDepth(out, k) >= 0
    BY DEF Checked
  <2> QED
    BY <2>1, <2>2 DEF Solid, TokBalanced
<1> QED
  BY <1>1, CheckedInvariance, PTL

\* Strict mode decides by the loops of the text, token by token or character by
\* character.
LEMMA StrictDecides == Checked => StrictVerdict
<1> SUFFICES ASSUME Checked, opts.strict PROVE StrictVerdict
  BY DEF StrictVerdict
<1> DEFINE s == UnfoldAll(out)
<1>1. out \in Seq(Token) /\ Len(out) = size /\ Solid(out) /\ s \in Seq(Ops)
  BY OutType, UnfoldAllType DEF Checked, Folded
<1>2. PICK off : Layout(out, s, off)
  BY <1>1, LayoutExists
<1>d. DOMAIN s = 1 .. Len(s)
  BY <1>1
<1> HIDE DEF s
<1>3. ASSUME pc = "accepted", NEW p \in DOMAIN s, NEW q \in DOMAIN s, p < q, Innermost(s, p, q)
      PROVE  \E k \in p + 1 .. q - 1 : s[k] = "-"
  <2>1. \A j \in 1 .. Len(out) : out[j].op = "[" => HasMinusAt(out, j)
    BY <1>1, <1>3 DEF Checked, Endless
  <2> QED
    BY <1>1, <1>2, <1>3, <1>d, <2>1, InnermostMinus
<1>4. ASSUME pc = "rejected", TokBalanced(out)
      PROVE  \E p \in DOMAIN s : Barren(s, p)
  <2>1. PICK j \in 1 .. size : out[j].op = "[" /\ ~HasMinusAt(out, j)
    BY <1>4 DEF Checked, Endless
  <2> QED
    BY <1>1, <1>2, <2>1, BarrenToken
<1> QED
  BY <1>3, <1>4 DEF StrictVerdict, s

\* The verdict on the tokens is the verdict on the text as it was written: no
\* folding turns a program that does not match into one that does, or back, and
\* strict mode refuses just the loops with no '-' ahead.
THEOREM VerdictSound == Spec => []VerdictMatchesSource
<1>1. Checked => VerdictMatchesSource
  <2> SUFFICES ASSUME Checked PROVE VerdictMatchesSource
    OBVIOUS
  <2>1. out \in Seq(Token) /\ IInv /\ FoldSound
    BY OutType DEF Checked, Folded
  <2>2. ASSUME ~dropped, pc \in {"accepted", "rejected"}
        PROVE  Balanced(src) <=> TokBalanced(out)
    <3>1. src \in Seq(Ops) /\ SubSeq(src, 1, pos) = src
      <4>1. src \in Seq(CoreOps \union ExtraOps) /\ pos = Len(src)
        BY <2>1, <2>2 DEF IInv, TypeOK, Checked, Folded
      <4>2. src \in Seq(Ops)
        BY <4>1, TextOps
      <4>3. /\ SubSeq(src, 1, pos) \in Seq(Ops) /\ Len(SubSeq(src, 1, pos)) = pos
            /\ \A k \in 1 .. pos : SubSeq(src, 1, pos)[k] = src[k]
        BY <4>1, <4>2, Prefix
      <4> QED
        BY <4>1, <4>2, <4>3, SeqEqual
    <3>2. Reduce(UnfoldAll(out)) = Reduce(src)
      BY <2>1, <2>2, <3>1 DEF FoldSound
    <3>3. UnfoldAll(out) \in Seq(Ops)
      BY <2>1, UnfoldAllType
    <3>4. Balanced(UnfoldAll(out)) <=> Balanced(src)
      BY <3>1, <3>2, <3>3, BalancedReduce
    <3> QED
      BY <2>1, <3>4, BalancedUnfold
  <2>3. pc = "accepted" => TokBalanced(out)
    <3> SUFFICES ASSUME pc = "accepted" PROVE TokBalanced(out)
      OBVIOUS
    <3>1. Len(out) = size
      BY <2>1, OutType
    <3> QED
      BY <3>1 DEF Checked, TokBalanced
  <2>4. pc = "rejected" /\ ~opts.strict => ~TokBalanced(out)
    BY DEF Checked
  <2> QED
    BY <2>2, <2>3, <2>4, StrictDecides DEF VerdictMatchesSource
<1> QED
  BY <1>1, CheckedInvariance, PTL

-----------------------------------------------------------------------------
(* The warnings of --no-strict.                                            *)

LEMMA NumberedIterates ==
  ASSUME NEW S, NEW n \in Nat
  PROVE  \E f \in [0 .. n -> Seq(Nat)] :
           /\ f[0] = <<>>
           /\ \A k \in 1 .. n : f[k] = Noted(S, k, f[k - 1])
           /\ Numbered(S, n) = f[n]
<1> DEFINE step == [k \in 1 .. n |-> [a \in Seq(Nat) |-> Noted(S, k, a)]]
           Solves(g) == g = [k \in 0 .. n |-> IF k = 0 THEN <<>> ELSE Noted(S, k, g[k - 1])]
           D == CHOOSE g : Solves(g)
<1>1. \A k \in 1 .. n : \A a \in Seq(Nat) : step[k][a] = Noted(S, k, a)
  OBVIOUS
<1>2. \A k \in 1 .. n : \A a \in Seq(Nat) : step[k][a] \in Seq(Nat)
  <2> SUFFICES ASSUME NEW k \in 1 .. n, NEW a \in Seq(Nat) PROVE step[k][a] \in Seq(Nat)
    OBVIOUS
  <2>1. k - 1 \in Nat
    OBVIOUS
  <2>2. Append(a, k - 1) \in Seq(Nat)
    BY <2>1, AppendProperties
  <2> QED
    BY <1>1, <2>2 DEF Noted
<1>0. <<>> \in Seq(Nat)
  OBVIOUS
<1> HIDE DEF step
<1>3. PICK f \in [0 .. n -> Seq(Nat)] : Iterates(f, <<>>, step, n)
  BY <1>0, <1>2, Iteration
<1>4. \A k \in 1 .. n : f[k] = Noted(S, k, f[k - 1])
  <2> SUFFICES ASSUME NEW k \in 1 .. n PROVE f[k] = Noted(S, k, f[k - 1])
    OBVIOUS
  <2>1. k - 1 \in 0 .. n
    OBVIOUS
  <2>2. f[k - 1] \in Seq(Nat)
    BY <2>1
  <2>3. f[k] = step[k][f[k - 1]]
    BY <1>3 DEF Iterates
  <2> QED
    BY <2>2, <2>3, <1>1
<1>5. f[0] = <<>>
  BY <1>3 DEF Iterates
<1>6. Solves(f)
  <2>1. \A k \in 0 .. n : f[k] = IF k = 0 THEN <<>> ELSE Noted(S, k, f[k - 1])
    BY <1>4, <1>5
  <2> QED
    BY <2>1
<1>7. Solves(D)
  BY <1>6
<1>8. D[0] = <<>> /\ \A k \in 1 .. n : D[k] = Noted(S, k, D[k - 1])
  <2> HIDE DEF D
  <2> QED
    BY <1>7, <1>0
<1>9. Numbered(S, n) = D[n]
  BY DEF Numbered
<1> HIDE DEF D
<1>10. \A k \in 0 .. n : f[k] = D[k]
  <2>1. StepsAlike(f, D, n)
    BY <1>4, <1>8 DEF StepsAlike
  <2>2. n \in Nat /\ f[0] = D[0]
    BY <1>5, <1>8
  <2> QED
    BY ONLY <2>1, <2>2, IterationUnique, Zenon
<1>11. n \in 0 .. n
  OBVIOUS
<1>12. Numbered(S, n) = f[n]
  BY <1>9, <1>10, <1>11
<1> QED
  BY <1>4, <1>5, <1>12

LEMMA NumberedNext ==
  ASSUME NEW S, NEW n \in Nat
  PROVE  /\ Numbered(S, n) \in Seq(Nat) /\ Numbered(S, 0) = <<>>
         /\ Numbered(S, n + 1) = IF n + 1 \in S THEN Append(Numbered(S, n), n) ELSE Numbered(S, n)
<1>1. PICK f \in [0 .. n -> Seq(Nat)] :
        /\ f[0] = <<>>
        /\ \A k \in 1 .. n : f[k] = Noted(S, k, f[k - 1])
        /\ Numbered(S, n) = f[n]
  BY NumberedIterates
<1>2. n + 1 \in Nat
  OBVIOUS
<1>3. PICK g \in [0 .. n + 1 -> Seq(Nat)] :
        /\ g[0] = <<>>
        /\ \A k \in 1 .. n + 1 : g[k] = Noted(S, k, g[k - 1])
        /\ Numbered(S, n + 1) = g[n + 1]
  BY <1>2, NumberedIterates
<1>4. f[n] = g[n]
  <2>1. StepsAlike(f, g, n)
    BY <1>1, <1>3 DEF StepsAlike
  <2>2. f[0] = g[0] /\ n \in 0 .. n
    BY <1>1, <1>3
  <2>3. \A k \in 0 .. n : f[k] = g[k]
    BY ONLY n \in Nat, <2>1, <2>2, IterationUnique, Zenon
  <2> QED
    BY <2>2, <2>3
<1>5. g[n + 1] = IF n + 1 \in S THEN Append(g[n], n) ELSE g[n]
  <2>1. n + 1 \in 1 .. n + 1 /\ (n + 1) - 1 = n
    OBVIOUS
  <2> QED
    BY <2>1, <1>3 DEF Noted
<1>6. Numbered(S, 0) = <<>>
  <2>1. 0 \in Nat
    OBVIOUS
  <2> QED
    BY <2>1, NumberedIterates
<1> QED
  BY <1>1, <1>3, <1>4, <1>5, <1>6

\* The tokens from j on.
LEMMA Suffix ==
  ASSUME NEW ts \in Seq(Token), NEW j \in 1 .. Len(ts)
  PROVE  LET us == SubSeq(ts, j, Len(ts))
         IN  /\ us \in Seq(Token) /\ Len(us) = Len(ts) - j + 1
             /\ \A k \in 1 .. Len(ts) - j + 1 : us[k] = ts[j + k - 1]
<1>1. \A k \in j .. Len(ts) : ts[k] \in Token
  OBVIOUS
<1>2. j \in Int /\ Len(ts) \in Int /\ j <= Len(ts) /\ Len(ts) \in Nat /\ j \in Nat
  OBVIOUS
<1>3. /\ SubSeq(ts, j, Len(ts)) \in Seq(Token)
      /\ Len(SubSeq(ts, j, Len(ts))) = IF j <= Len(ts) THEN Len(ts) - j + 1 ELSE 0
      /\ \A k \in 1 .. Len(ts) - j + 1 : SubSeq(ts, j, Len(ts))[k] = ts[j + k - 1]
  BY <1>1, <1>2, SubSeqProperties
<1> QED
  BY <1>2, <1>3

LEMMA DoubtfulEndless ==
  ASSUME Folded, NEW j \in 1 .. size
  PROVE  Doubtful(j) <=> Endless(out, j)
<1> DEFINE us == SubSeq(out, j, size)
           s == UnfoldAll(us)
           n == size - j + 1
<1>1. out \in Seq(Token) /\ Len(out) = size /\ Solid(out) /\ size \in Nat /\ j \in Nat /\ j <= size
  BY OutType DEF Folded, IInv, TypeOK
<1>2. us \in Seq(Token) /\ Len(us) = n /\ \A k \in 1 .. n : us[k] = out[j + k - 1]
  BY <1>1, Suffix
<1>3. n \in Nat /\ 1 \in 1 .. n
  BY <1>1
<1>s. s \in Seq(Ops)
  BY <1>2, UnfoldAllType
<1>d. Doubtful(j) <=> out[j].op = "[" /\ Barren(s, out[j].len)
  BY DEF Doubtful
<1>n. n = size - j + 1
  OBVIOUS
<1> HIDE DEF us, s, n
<1>4. us[1] = out[j]
  <2>1. j + 1 - 1 = j
    BY <1>1
  <2> QED
    BY <1>2, <1>3, <2>1
<1>5. Solid(us)
  <2> SUFFICES ASSUME NEW k \in 1 .. n PROVE us[k].len > 0 \/ us[k].op \in {">", "<"}
    BY <1>2 DEF Solid
  <2>1. j + k - 1 \in 1 .. size
    BY <1>1, <1>n
  <2> QED
    BY <1>1, <1>2, <2>1 DEF Solid
<1>6. PICK off : Layout(us, s, off)
  BY <1>2, LayoutExists DEF s
<1>7. off[1] = out[j].len
  <2>1. out[j] \in Token
    BY <1>1
  <2>2. off[1] = off[1 - 1] + us[1].len /\ off[0] = 0 /\ us[1].len \in Nat
    BY <1>2, <1>3, <1>4, <1>6, <2>1 DEF Layout, Token
  <2> QED
    BY <1>4, <2>2
<1>8. HasMinusAt(us, 1) <=> HasMinusAt(out, j)
  <2>1. ASSUME HasMinusAt(us, 1) PROVE HasMinusAt(out, j)
    <3>1. PICK m \in 2 .. n : us[m].op = "-" /\ \A k \in 2 .. m - 1 : us[k].op # "]"
      BY <1>2, <2>1 DEF HasMinusAt
    <3> DEFINE r == j + m - 1
    <3>2. r \in j + 1 .. size /\ m \in 1 .. n
      BY <1>1, <1>3, <1>n
    <3>3. out[r].op = "-"
      BY <1>2, <3>1, <3>2
    <3>4. ASSUME NEW k \in j + 1 .. r - 1 PROVE out[k].op # "]"
      <4>1. k - j + 1 \in 2 .. m - 1 /\ k - j + 1 \in 1 .. n /\ j + (k - j + 1) - 1 = k
        BY <1>1, <1>3, <3>2
      <4> QED
        BY <1>2, <3>1, <4>1
    <3> HIDE DEF r
    <3> QED
      BY <1>1, <3>2, <3>3, <3>4 DEF HasMinusAt
  <2>2. ASSUME HasMinusAt(out, j) PROVE HasMinusAt(us, 1)
    <3>1. PICK r \in j + 1 .. size : out[r].op = "-" /\ \A k \in j + 1 .. r - 1 : out[k].op # "]"
      BY <1>1, <2>2 DEF HasMinusAt
    <3> DEFINE m == r - j + 1
    <3>2. m \in 2 .. n /\ m \in 1 .. n /\ j + m - 1 = r
      BY <1>1, <1>3, <1>n
    <3>3. us[m].op = "-"
      BY <1>2, <3>1, <3>2
    <3>4. ASSUME NEW k \in 2 .. m - 1 PROVE us[k].op # "]"
      <4>1. j + k - 1 \in j + 1 .. r - 1 /\ k \in 1 .. n
        BY <1>1, <1>3, <3>2
      <4> QED
        BY <1>2, <3>1, <4>1
    <3> HIDE DEF m
    <3>5. m \in 1 + 1 .. Len(us) /\ \A k \in 1 + 1 .. m - 1 : us[k].op # "]"
      BY <1>2, <3>2, <3>4
    <3> QED
      BY <3>3, <3>5 DEF HasMinusAt
  <2> QED
    BY <2>1, <2>2
<1>9. out[j].op = "[" => (Barren(s, off[1]) <=> ~HasMinusAt(us, 1))
  BY <1>2, <1>3, <1>4, <1>5, <1>6, <1>s, BarrenToken
<1> QED
  BY <1>7, <1>8, <1>9, <1>d DEF Endless

\* The counter and the log say the same of the loops passed so far.
Reported ==
  LET s == Suspects
  IN  IF opts.strict THEN log = <<>> /\ wc = 0
      ELSE IF Len(s) < MaxWarnings THEN log = s /\ wc = Len(s)
      ELSE log = Append(SubSeq(s, 1, MaxWarnings), Exceeded) /\ wc = MaxWarnings + 1

Warned ==
  /\ Checked
  /\ pc \in {"read", "scan"} => log = <<>> /\ wc = 0
  /\ pc \in {"check", "accepted", "rejected"} => Reported

LEMMA InspectReports ==
  ASSUME Checked, Reported, Inspect
  PROVE  Reported'
<1> DEFINE S == {j \in 1 .. size : Doubtful(j)}
           s == Numbered(S, i)
           r == Numbered(S, i + 1)
           d == cur.op = "[" /\ ~HasMinus
           M == MaxWarnings
<1>1. IInv /\ Folded /\ i \in Nat /\ i < size /\ i + 1 \in 1 .. size /\ wc \in Nat
  BY DEF Inspect, Checked, Folded, IInv, TypeOK
<1>2. /\ UNCHANGED <<slots, size, opts>> /\ i' = i + 1
      /\ wc' = LET wc1 == IF Warns THEN wc + 1 ELSE wc
               IN  IF cur.op = "[" /\ wc1 = M THEN wc1 + 1 ELSE wc1
      /\ log' = log \o (IF Warns THEN <<i>> ELSE <<>>)
                    \o (IF cur.op = "[" /\ (IF Warns THEN wc + 1 ELSE wc) = M
                        THEN <<Exceeded>> ELSE <<>>)
  BY DEF Inspect, scanVars
<1>3. i + 1 \in S <=> d
  BY <1>1, DoubtfulEndless, SuspiciousEndless DEF Endless
<1>4. Suspects = s /\ Suspects' = r
  <2>1. out' = out /\ size' = size
    BY <1>2 DEF out
  <2>2. \A j : Doubtful(j)' <=> Doubtful(j)
    BY <2>1 DEF Doubtful
  <2> QED
    BY <1>2, <2>1, <2>2 DEF Suspects
<1>w. Warns <=> ~opts.strict /\ d /\ wc < M
  BY DEF Warns
<1>m. M \in Nat /\ M >= 1
  OBVIOUS
<1>b. d => cur.op = "["
  OBVIOUS
<1> HIDE DEF S, d, M
<1>5. s \in Seq(Nat) /\ r = IF d THEN Append(s, i) ELSE s
  BY <1>1, <1>3, NumberedNext
<1>6. r \in Seq(Nat) /\ Len(s) \in Nat /\ Len(r) = IF d THEN Len(s) + 1 ELSE Len(s)
  <2> HIDE DEF s, r
  <2>1. Append(s, i) \in Seq(Nat) /\ Len(Append(s, i)) = Len(s) + 1 /\ Len(s) \in Nat
    BY <1>1, <1>5, AppendProperties
  <2> QED
    BY <1>5, <2>1
<1> HIDE DEF s, r
<1>7. CASE opts.strict
  <2>1. ~Warns /\ log = <<>> /\ wc = 0
    BY <1>7, <1>w DEF Reported
  <2>2. log' = <<>> /\ wc' = 0
    BY <1>2, <1>m, <2>1
  <2> QED
    BY <1>2, <1>7, <2>2 DEF Reported
<1>8. CASE ~opts.strict /\ Len(s) >= M
  <2>1. wc = M + 1 /\ log = Append(SubSeq(s, 1, M), Exceeded)
    BY <1>4, <1>6, <1>8, <1>m DEF Reported, M
  <2>2. ~Warns /\ wc # M
    BY <1>m, <1>w, <2>1
  <2>3. log' = log /\ wc' = wc
    <3>1. log \in Seq(Nat \union {Exceeded})
      BY <1>1 DEF IInv, TypeOK
    <3>2. (log \o <<>>) \o <<>> = log
      BY <3>1, ConcatEmptySeq
    <3> QED
      BY <1>2, <2>2, <3>2
  <2>4. SubSeq(r, 1, M) = SubSeq(s, 1, M) /\ Len(r) >= M
    <3>1. Len(r) >= M /\ M \in 0 .. Len(s) /\ M <= Len(r)
      BY <1>6, <1>8, <1>m
    <3>2. \A k \in 1 .. M : s[k] = r[k]
      <4>1. CASE ~d
        BY <1>5, <4>1
      <4>2. CASE d
        <5>1. \A k \in 1 .. M : k \in 1 .. Len(s)
          BY <3>1
        <5>2. \A k \in 1 .. Len(s) : Append(s, i)[k] = s[k]
          BY <1>1, <1>5, AppendProperties
        <5> QED
          BY <1>5, <4>2, <5>1, <5>2
      <4> QED
        BY <4>1, <4>2
    <3>3. SubSeq(s, 1, M) = SubSeq(r, 1, M)
      BY ONLY <1>5, <1>6, <3>1, <3>2, TakeSame, Zenon
    <3> QED
      BY <3>1, <3>3
  <2> QED
    BY <1>2, <1>4, <1>6, <1>8, <1>m, <2>1, <2>3, <2>4 DEF Reported, M
<1>9. CASE ~opts.strict /\ Len(s) < M
  <2>1. wc = Len(s) /\ log = s
    BY <1>4, <1>9 DEF Reported, M
  <2>2. CASE ~d
    <3>1. ~Warns /\ wc # M
      BY <1>6, <1>9, <1>m, <1>w, <2>1, <2>2
    <3>2. (s \o <<>>) \o <<>> = s
      BY <1>5, ConcatEmptySeq
    <3>3. log' = s /\ wc' = wc
      BY <1>2, <2>1, <3>1, <3>2
    <3> QED
      BY <1>2, <1>4, <1>5, <1>9, <2>1, <2>2, <3>3 DEF Reported, M
  <2>3. CASE d
    <3>1. Warns /\ wc + 1 = Len(r) /\ r = Append(s, i)
      BY <1>5, <1>6, <1>9, <1>m, <1>w, <2>1, <2>3
    <3>2. s \o <<i>> = r
      BY <1>1, <1>5, <3>1, AppendIsConcat
    <3>3. CASE wc + 1 < M
      <4>1. log' = r \o <<>> /\ wc' = wc + 1
        BY <1>2, <1>6, <1>m, <2>1, <3>1, <3>2, <3>3
      <4>2. r \o <<>> = r
        BY <1>6, ConcatEmptySeq
      <4> QED
        BY <1>2, <1>4, <1>9, <3>1, <3>3, <4>1, <4>2 DEF Reported, M
    <3>4. CASE wc + 1 = M
      <4>1. log' = r \o <<Exceeded>> /\ wc' = M + 1
        BY <1>2, <1>b, <2>1, <2>3, <3>1, <3>2, <3>4
      <4>2. r \o <<Exceeded>> = Append(r, Exceeded)
        <5>1. r \in Seq(Nat \union {Exceeded})
          BY <1>6
        <5> QED
          BY <5>1, AppendIsConcat
      <4>3. SubSeq(r, 1, M) = r
        <5>1. M \in 0 .. Len(r) /\ Len(r) = M
          BY <1>m, <3>1, <3>4
        <5>2. SubSeq(r, 1, M) \in Seq(Nat) /\ Len(SubSeq(r, 1, M)) = M
              /\ \A k \in 1 .. M : SubSeq(r, 1, M)[k] = r[k]
          BY <1>6, <5>1, Prefix
        <5> QED
          BY <1>6, <5>1, <5>2, SeqEqual
      <4>4. ~(Len(r) < M)
        BY <1>m, <3>1, <3>4
      <4> QED
        BY <1>2, <1>4, <1>9, <4>1, <4>2, <4>3, <4>4 DEF Reported, M
    <3> QED
      BY <1>6, <1>9, <1>m, <2>1, <3>1, <3>3, <3>4
  <2> QED
    BY <2>2, <2>3
<1> QED
  BY <1>6, <1>7, <1>8, <1>9, <1>m

LEMMA StepWarned == Warned /\ [Next]_vars => Warned'
<1> SUFFICES ASSUME Warned, [Next]_vars PROVE Warned'
  OBVIOUS
<1>1. Checked /\ Checked'
  BY StepChecked DEF Warned
<1>2. CASE Inspect
  <2>1. Reported'
    BY <1>1, <1>2, InspectReports DEF Inspect, Warned
  <2>2. pc' = "check"
    BY <1>2 DEF Inspect
  <2> QED
    BY <1>1, <2>1, <2>2 DEF Warned
<1>3. CASE EndScan
  <2>1. pc = "scan" /\ pc' = "check" /\ UNCHANGED <<log, wc, i>> /\ i = 0
    BY <1>1, <1>3 DEF EndScan, checkVars, Checked, Folded, IInv
  <2>2. log' = <<>> /\ wc' = 0 /\ i' = 0
    BY <2>1 DEF Warned
  <2>3. Suspects' = <<>>
    BY <2>2, NumberedNext DEF Suspects
  <2>4. Reported'
    <3>1. Len(<<>>) = 0 /\ 0 < MaxWarnings
      OBVIOUS
    <3> QED
      BY <2>2, <2>3, <3>1 DEF Reported
  <2> QED
    BY <1>1, <2>1, <2>4 DEF Warned
<1>4. CASE RejectClose \/ RejectLoop \/ RejectOpen \/ Accept \/ UNCHANGED vars
  <2>1. UNCHANGED <<slots, size, opts, i, log, wc>>
    BY <1>4 DEF RejectClose, RejectLoop, RejectOpen, Reject, Accept, scanVars, checkVars, vars
  <2>2. (pc = "check" /\ pc' \in {"accepted", "rejected"}) \/ pc' = pc
    BY <1>4 DEF RejectClose, RejectLoop, RejectOpen, Reject, Accept, vars
  <2>3. Suspects' = Suspects
    <3>1. out' = out /\ size' = size /\ i' = i
      BY <2>1 DEF out
    <3> QED
      BY <3>1 DEF Suspects, Doubtful
  <2>4. Reported' <=> Reported
    BY <2>1, <2>3 DEF Reported
  <2> QED
    BY <1>1, <2>1, <2>2, <2>4 DEF Warned
<1>5. CASE ReadChar \/ EndOfFile \/ NoVector \/ Overrun \/ ReadFails \/ Scan \/ PushUnsized
  <2>1. /\ pc \in {"read", "scan"} /\ UNCHANGED <<log, wc>>
        /\ pc' \in {"read", "scan", "unreadable", "overrun", "astray"}
    BY <1>5 DEF ReadChar, EndOfFile, NoVector, Overrun, ReadFails, Scan, PushUnsized, checkVars
  <2> QED
    BY <1>1, <2>1 DEF Warned
<1> QED
  BY <1>2, <1>3, <1>4, <1>5 DEF Next, Stop

\* What the user is told: under --no-strict the first MaxWarnings loops with no
\* '-' before the next ']', in the order of the program, then once that there
\* are more, and nothing in strict mode, for every text and every limit.
THEOREM WarningsComplete == Spec => []WarningsInOrder
<1>1. Init => Warned
  <2> SUFFICES ASSUME Init PROVE Warned
    OBVIOUS
  <2>1. Checked
    BY InitChecked
  <2> QED
    BY <2>1 DEF Warned, Init
<1>2. Warned => WarningsInOrder
  BY DEF Warned, Reported, WarningsInOrder
<1> QED
  BY <1>1, <1>2, StepWarned, PTL DEF Spec

-----------------------------------------------------------------------------
(* Behaviour.                                                              *)

\* What one turn of the scanning loop does to the text the tokens stand for.
LEMMA FoldStepYields ==
  ASSUME out \in Seq(Token), NEW s \in Streams, NEW x \in Token, FoldStep(x), ~dropped',
         Yields(s, UnfoldAll(out))
  PROVE  Yields(s \o Run(x.op, x.len), UnfoldAll(out'))
<1> DEFINE u == UnfoldAll(out)
           y == Run(x.op, x.len)
<1>1. u \in Streams /\ y \in Streams /\ x.op \in Ops /\ x.len \in Nat /\ Unfold(x) = y
  BY UnfoldAllType, UnfoldIsRun DEF Streams
<1>2. Yields(s \o y, u \o y)
  <2> HIDE DEF u, y
  <2>1. Yields(s, u)
    BY DEF u
  <2> QED
    BY <1>1, <2>1, YieldsBefore
<1>3. CASE out' = Append(out, x)
  BY <1>1, <1>2, <1>3, UnfoldAllAppend
<1>4. ASSUME NEW o \in Seq(Token), NEW p \in Token, out = Append(o, p),
             <<p.op, x.op>> \in Cancelling,
             \/ p.len = x.len /\ out' = o
             \/ p.len > x.len /\ out' = Append(o, Tok(p.op, p.len - x.len))
             \/ /\ x.len >= p.len
                /\ out' = Append(o, Tok(x.op, x.len - p.len))
      PROVE  Yields(u \o y, UnfoldAll(out'))
  <2> DEFINE v == UnfoldAll(o)
             r == Run(p.op, p.len)
  <2>1. v \in Streams /\ r \in Streams /\ p.op \in Ops /\ p.len \in Nat /\ u = v \o r
    BY <1>4, UnfoldAllType, UnfoldIsRun, UnfoldAllAppend DEF Streams
  <2>2. /\ p.len >= x.len => Yields(r \o y, Run(p.op, p.len - x.len))
        /\ x.len >= p.len => Yields(r \o y, Run(x.op, x.len - p.len))
    <3> DEFINE d == p.op
               c == x.op
               m == p.len
               n == x.len
    <3>1. <<d, c>> \in Cancelling /\ m \in Nat /\ n \in Nat
      BY <1>1, <1>4, <2>1
    <3> HIDE DEF d, c, m, n
    <3>2. /\ m >= n => Yields(Run(d, m) \o Run(c, n), Run(d, m - n))
          /\ n >= m => Yields(Run(d, m) \o Run(c, n), Run(c, n - m))
      BY ONLY <3>1, YieldsRuns
    <3> QED
      BY <3>2 DEF d, c, m, n
  <2> HIDE DEF v, u, y, r
  <2>3. u \o y = v \o (r \o y)
    BY <1>1, <2>1, TextAssoc
  <2>4. ASSUME NEW t, Yields(r \o y, t) PROVE Yields(u \o y, v \o t)
    BY <2>1, <2>3, <2>4, YieldsAfter
  <2>5. ASSUME NEW c \in Ops, NEW n \in Nat, out' = Append(o, Tok(c, n))
        PROVE  UnfoldAll(out') = v \o Run(c, n)
    <3>1. Tok(c, n) \in Token /\ Tok(c, n).op = c /\ Tok(c, n).len = n
      BY TokenType DEF Tok
    <3> QED
      BY <2>5, <3>1, UnfoldAllAppend, UnfoldIsRun DEF v
  <2>6. CASE p.len = x.len /\ out' = o
    <3>1. p.len >= x.len /\ p.len - x.len = 0
      BY <1>1, <2>1, <2>6
    <3>2. Run(p.op, 0) = <<>> /\ v \o <<>> = v
      BY <2>1, RunUnit, TextEmpty
    <3> QED
      BY <2>2, <2>4, <2>6, <3>1, <3>2 DEF v
  <2>7. CASE p.len > x.len /\ out' = Append(o, Tok(p.op, p.len - x.len))
    <3>1. p.len - x.len \in Nat /\ p.len >= x.len
      BY <1>1, <2>1, <2>7
    <3> QED
      BY <2>1, <2>2, <2>4, <2>5, <2>7, <3>1
  <2>8. CASE x.len >= p.len /\ out' = Append(o, Tok(x.op, x.len - p.len))
    <3>1. x.len - p.len \in Nat
      BY <1>1, <2>1, <2>8
    <3> QED
      BY <1>1, <2>2, <2>4, <2>5, <2>8, <3>1
  <2> QED
    BY <1>4, <2>6, <2>7, <2>8
<1>5. CASE \E o \in Seq(Token), p \in Token :
             /\ out = Append(o, p) /\ <<p.op, x.op>> \in Cancelling
             /\ \/ p.len = x.len /\ out' = o
                \/ p.len > x.len /\ out' = Append(o, Tok(p.op, p.len - x.len))
                \/ /\ x.len >= p.len /\ (x.len = p.len => x.op \in {">", "<"})
                   /\ out' = Append(o, Tok(x.op, x.len - p.len))
  <2>1. PICK o \in Seq(Token), p \in Token :
             /\ out = Append(o, p) /\ <<p.op, x.op>> \in Cancelling
             /\ \/ p.len = x.len /\ out' = o
                \/ p.len > x.len /\ out' = Append(o, Tok(p.op, p.len - x.len))
                \/ /\ x.len >= p.len
                   /\ out' = Append(o, Tok(x.op, x.len - p.len))
    BY <1>5
  <2>2. Yields(u \o y, UnfoldAll(out'))
    BY <1>4, <2>1
  <2> QED
    BY <1>2, <2>2, YieldsTrans
<1> QED
  BY <1>3, <1>5 DEF FoldStep

\* Wherever the tokens stand for the text consumed, they do what it does.
FoldKeeps == ~dropped => Yields(SubSeq(src, 1, pos), UnfoldAll(out))
Keeping == Folded /\ FoldKeeps /\ (dropped => MayFail)

LEMMA EmptyKeeps == Yields(<<>>, UnfoldAll(<<>>))
<1>1. <<>> \in Streams
  BY DEF Streams
<1> QED
  BY <1>1, UnfoldAllEmpty, YieldsRefl

LEMMA ScanKeeps == ASSUME Folded, FoldKeeps, Scan, IInv' PROVE FoldKeeps'
<1>1. ScanReady /\ IInv /\ TypeOK /\ pc = "scan" /\ pc' = pc /\ src' = src
  BY DEF Folded, Scan, ScanReady, IInv
<1>2. PICK m \in 1 .. Len(src) - pos :
        IsRun(pos, m) /\ pos' = pos + m /\ FoldStep(Tok(src[pos + 1], m))
  BY <1>1, ScanFolds
<1> DEFINE c == src[pos + 1]
           x == Tok(c, m)
           s == SubSeq(src, 1, pos)
<1>3. m \in Nat /\ m > 0 /\ c \in Ops /\ x \in Token /\ x.op = c /\ x.len = m
  BY <1>1, <1>2, NextRun DEF Tok
<1>4. out \in Seq(Token)
  BY <1>1, OutType DEF Folded
<1>5. s \in Streams /\ SubSeq(src, 1, pos + m) = s \o Run(c, m)
  <2> DEFINE t == src
             q == pos
  <2>1. t \in Seq(Ops) /\ q \in Nat /\ q + m <= Len(t)
    <3>1. src \in Seq(Ops)
      BY <1>1, TextOps DEF TypeOK
    <3> QED
      BY <1>1, <1>2, <3>1 DEF TypeOK
  <2>2. Repeats(t, q, m, c)
    BY <1>2 DEF IsRun, Repeats
  <2> HIDE DEF t, q, c
  <2>3. SubSeq(t, 1, q) \in Seq(Ops) /\ SubSeq(t, 1, q + m) = SubSeq(t, 1, q) \o Run(c, m)
    BY ONLY <1>3, <2>1, <2>2, TextTake
  <2> QED
    BY <2>3 DEF t, q, Streams
<1> HIDE DEF x, c, s
<1>6. ASSUME ~dropped' PROVE Yields(SubSeq(src', 1, pos'), UnfoldAll(out'))
  <2>1. FoldStep(x)
    BY <1>2 DEF x, c
  <2>2. ~dropped
    BY <1>6, <2>1 DEF FoldStep
  <2>3. Yields(s, UnfoldAll(out))
    BY <2>2 DEF FoldKeeps, s
  <2>4. Yields(s \o Run(c, m), UnfoldAll(out'))
    BY <1>3, <1>4, <1>5, <1>6, <2>1, <2>3, FoldStepYields
  <2> QED
    BY <1>1, <1>2, <1>5, <2>4
<1> QED
  BY <1>6 DEF FoldKeeps

LEMMA StepKeeping == Keeping /\ [Next]_vars => Keeping'
<1> SUFFICES ASSUME Keeping, [Next]_vars PROVE Keeping'
  OBVIOUS
<1>1. Folded /\ FoldKeeps /\ IInv /\ Folded' /\ IInv'
  BY StepFolded DEF Keeping, Folded
<1>2. dropped' => MayFail
  BY DEF Keeping, Next, vars, ReadChar, EndOfFile, NoVector, Overrun, ReadFails, Scan, PushUnsized, CancelLoop, CloseMore, CloseFewer,
     Annihilate, Merge, Keep, Push, Pop, SetPrev, EndScan, RejectClose, RejectLoop, Reject,
     Inspect, RejectOpen, Accept, Stop, scanVars
<1>3. CASE Scan
  BY <1>1, <1>2, <1>3, ScanKeeps DEF Keeping
<1>4. CASE ReadChar \/ EndOfFile \/ NoVector \/ Overrun \/ ReadFails
  <2>1. size' = 0 /\ pos' = 0
    BY <1>1, <1>4 DEF ReadChar, EndOfFile, NoVector, Overrun, ReadFails, scanVars, Folded
  <2>2. slots' \in Seq(Token) /\ src' \in Seq(CoreOps \union ExtraOps)
    BY <1>1 DEF IInv, TypeOK
  <2>3. out' = <<>> /\ SubSeq(src', 1, 0) = <<>>
    BY <2>1, <2>2, EmptyTake DEF out
  <2>4. FoldKeeps'
    BY <2>1, <2>3, EmptyKeeps DEF FoldKeeps
  <2> QED
    BY <1>1, <1>2, <2>4 DEF Keeping
<1>5. CASE ~Scan /\ ~ReadChar /\ ~EndOfFile /\ ~NoVector /\ ~Overrun /\ ~ReadFails
  <2>1. UNCHANGED <<src, pos, slots, size, dropped>>
    BY <1>5 DEF Next, PushUnsized, EndScan, RejectClose, RejectLoop, Reject,
       Inspect, RejectOpen, Accept, Stop, scanVars, vars
  <2>2. out' = out
    BY <2>1 DEF out
  <2>3. FoldKeeps'
    BY <1>1, <2>1, <2>2 DEF FoldKeeps
  <2> QED
    BY <1>1, <1>2, <2>3 DEF Keeping
<1> QED
  BY <1>3, <1>4, <1>5

LEMMA InitKeeping == Init => Keeping
<1> SUFFICES ASSUME Init PROVE Keeping
  OBVIOUS
<1>1. Folded /\ IInv /\ size = 0 /\ pos = 0 /\ ~dropped
  BY InitFolded DEF Init, Folded
<1>2. slots \in Seq(Token) /\ src \in Seq(CoreOps \union ExtraOps)
  BY <1>1 DEF IInv, TypeOK
<1>3. out = <<>> /\ SubSeq(src, 1, 0) = <<>>
  BY <1>1, <1>2, EmptyTake DEF out
<1> QED
  BY <1>1, <1>3, EmptyKeeps DEF Keeping, FoldKeeps

LEMMA KeepingInvariance == Spec => []Keeping
<1> QED
  BY InitKeeping, StepKeeping, PTL DEF Spec

\* Folding preserves behaviour, not only the reduced text: put into any
\* program, in place of the text consumed, the tokens of lex make it end
\* wherever it ended, on every machine and every input (lexer.c:56-111).
THEOREM FoldingKeepsBehaviour == Spec => []FoldKeeps
<1>1. Keeping => FoldKeeps
  BY DEF Keeping
<1> QED
  BY <1>1, KeepingInvariance, PTL

-----------------------------------------------------------------------------
(* Without the flags of the extensions.                                    *)

LEMMA FoldStepCore ==
  ASSUME out \in Seq(Token), NEW x \in Token, x.op \in CoreOps, FoldStep(x), Core(out)
  PROVE  Core(out')
<1>1. x.op \in Ops /\ x.len \in Nat
  BY DEF Token
<1>2. CASE out' = out
  BY <1>2
<1>3. CASE out' = Append(out, x)
  BY <1>3, CoreAppend
<1>4. ASSUME NEW o \in Seq(Token), NEW p \in Token, out = Append(o, p),
             \/ p.len = x.len /\ out' = o
             \/ p.len > x.len /\ out' = Append(o, Tok(p.op, p.len - x.len))
             \/ x.len >= p.len /\ out' = Append(o, Tok(x.op, x.len - p.len))
      PROVE  Core(out')
  <2>1. Core(o) /\ p.op \in CoreOps /\ p.len \in Nat /\ p.op \in Ops
    BY <1>4, CoreAppend DEF Token
  <2>2. ASSUME NEW c \in Ops, c \in CoreOps, NEW n \in Nat
        PROVE  Core(Append(o, Tok(c, n)))
    <3>1. Tok(c, n) \in Token /\ Tok(c, n).op = c
      BY TokenType DEF Tok
    <3> QED
      BY <2>1, <2>2, <3>1, CoreAppend
  <2>3. p.len > x.len => p.len - x.len \in Nat
    BY <1>1, <2>1
  <2>4. x.len >= p.len => x.len - p.len \in Nat
    BY <1>1, <2>1
  <2> QED
    BY <1>1, <1>4, <2>1, <2>2, <2>3, <2>4
<1> QED
  BY <1>2, <1>3, <1>4 DEF FoldStep

\* Nothing but the core language is read, and nothing else is made of it.
Unextended == ~opts.x /\ ~opts.can /\ ~opts.intr
CoreRead == Unextended => src \in Seq(CoreOps) /\ Core(out)
ReadInv == Folded /\ CoreRead

LEMMA CopiesCore == ASSUME Unextended, NEW c PROVE Copies(c) \in Seq(CoreOps)
<1>1. CASE c \in CoreOps
  <2>1. Copies(c) = [n \in 1 .. 1 |-> c]
    BY <1>1 DEF Copies, Unextended
  <2>2. [n \in 1 .. 1 |-> c] \in Seq(CoreOps)
    BY <1>1
  <2> QED
    BY <2>1, <2>2
<1>2. CASE c \notin CoreOps
  <2>1. Copies(c) = [n \in 1 .. 0 |-> c]
    BY <1>2 DEF Copies, Unextended
  <2>2. [n \in 1 .. 0 |-> c] \in Seq(CoreOps)
    OBVIOUS
  <2> QED
    BY <2>1, <2>2
<1> QED
  BY <1>1, <1>2

LEMMA StepReadInv == ReadInv /\ [Next]_vars => ReadInv'
<1> SUFFICES ASSUME ReadInv, [Next]_vars PROVE ReadInv'
  OBVIOUS
<1>1. Folded /\ IInv /\ Folded' /\ IInv'
  BY StepFolded DEF ReadInv, Folded
<1>2. UNCHANGED opts
  BY DEF Next, vars, ReadChar, EndOfFile, NoVector, Overrun, ReadFails, Scan, PushUnsized, EndScan, RejectClose, RejectLoop,
     Reject, Inspect, RejectOpen, Accept, Stop
<1> SUFFICES ASSUME Unextended PROVE src' \in Seq(CoreOps) /\ Core(out')
  BY <1>1, <1>2 DEF ReadInv, CoreRead, Unextended
<1>3. src \in Seq(CoreOps) /\ Core(out)
  BY DEF ReadInv, CoreRead
<1>4. CASE Scan
  <2>1. ScanReady /\ pc = "scan" /\ src' = src /\ pos \in Nat
    BY <1>1, <1>4 DEF Scan, ScanReady, IInv, TypeOK
  <2>2. PICK m \in 1 .. Len(src) - pos :
          IsRun(pos, m) /\ pos' = pos + m /\ FoldStep(Tok(src[pos + 1], m))
    BY <1>4, <2>1, ScanFolds
  <2> DEFINE c == src[pos + 1]
             x == Tok(c, m)
  <2>3. c \in CoreOps /\ m \in Nat
    <3>1. pos + 1 \in 1 .. Len(src)
      BY <2>1, <2>2
    <3> QED
      BY <1>3, <3>1, <2>2
  <2> HIDE DEF c
  <2>4. x \in Token /\ x.op \in CoreOps
    BY <2>3, TokenType DEF Tok, Ops
  <2>5. FoldStep(x)
    BY <2>2 DEF c
  <2> HIDE DEF x
  <2>6. Core(out')
    BY <1>1, <1>3, <2>4, <2>5, OutType, FoldStepCore
  <2> QED
    BY <1>3, <2>1, <2>6
<1>5. CASE ReadChar \/ EndOfFile \/ NoVector \/ Overrun \/ ReadFails
  <2>1. size' = 0
    BY <1>1, <1>5 DEF ReadChar, EndOfFile, NoVector, Overrun, ReadFails, scanVars, Folded
  <2>2. slots' \in Seq(Token)
    BY <1>1 DEF IInv, TypeOK
  <2>3. out' = <<>>
    BY <2>1, <2>2, EmptyTake DEF out
  <2>4. Core(out')
    BY <2>3 DEF Core
  <2>5. src' \in Seq(CoreOps)
    <3>1. CASE ReadChar
      <4> DEFINE s == src
                 a == Copies(file[fpos + 1])
      <4>1. a \in Seq(CoreOps) /\ s \in Seq(CoreOps) /\ src' = s \o a
        BY <1>3, <3>1, CopiesCore DEF ReadChar
      <4> HIDE DEF a, s
      <4>2. s \o a \in Seq(CoreOps)
        BY ONLY <4>1, ConcatProperties
      <4> QED
        BY <4>1, <4>2
    <3>2. CASE EndOfFile \/ NoVector \/ Overrun \/ ReadFails
      BY <1>3, <3>2 DEF EndOfFile, NoVector, Overrun, ReadFails, scanVars
    <3> QED
      BY <1>5, <3>1, <3>2
  <2> QED
    BY <2>4, <2>5
<1>6. CASE ~Scan /\ ~ReadChar /\ ~EndOfFile /\ ~NoVector /\ ~Overrun /\ ~ReadFails
  <2>1. UNCHANGED <<src, pos, slots, size, dropped>>
    BY <1>6 DEF Next, PushUnsized, EndScan, RejectClose, RejectLoop, Reject,
       Inspect, RejectOpen, Accept, Stop, scanVars, vars
  <2>2. out' = out
    BY <2>1 DEF out
  <2> QED
    BY <1>3, <2>1, <2>2
<1> QED
  BY <1>4, <1>5, <1>6

LEMMA InitReadInv == Init => ReadInv
<1> SUFFICES ASSUME Init PROVE ReadInv
  OBVIOUS
<1>1. Folded /\ IInv /\ size = 0 /\ src = <<>>
  BY InitFolded DEF Init, Folded
<1>2. slots \in Seq(Token)
  BY <1>1 DEF IInv, TypeOK
<1>3. out = <<>> /\ <<>> \in Seq(CoreOps)
  BY <1>1, <1>2, EmptyTake DEF out
<1> QED
  BY <1>1, <1>3 DEF ReadInv, CoreRead, Core

\* What a program of the core language is handed on as: its text is folded
\* into tokens that read back, character by character, as a text that can take
\* its place, their brackets match, and only moves stand for nothing.
HandedOn ==
  pc = "accepted" /\ Unextended /\ ~dropped =>
    /\ src \in Seq(CoreOps) /\ out \in Seq(Token) /\ Len(out) = size /\ Core(out)
    /\ Yields(src, Spelled(out)) /\ TokBalanced(out) /\ Solid(out)

LEMMA AcceptedHandsOn == Keeping /\ Checked /\ ReadInv => HandedOn
<1> SUFFICES ASSUME Keeping, Checked, ReadInv, pc = "accepted", Unextended, ~dropped
             PROVE  /\ src \in Seq(CoreOps) /\ out \in Seq(Token) /\ Len(out) = size /\ Core(out)
                    /\ Yields(src, Spelled(out)) /\ TokBalanced(out) /\ Solid(out)
  BY DEF HandedOn
<1>1. src \in Seq(CoreOps) /\ out \in Seq(Token) /\ Len(out) = size /\ Core(out) /\ Solid(out)
  BY OutType DEF ReadInv, CoreRead, Keeping, Folded
<1>2. pos = Len(src) /\ Yields(SubSeq(src, 1, pos), UnfoldAll(out))
  BY DEF Keeping, Folded, FoldKeeps
<1>3. SubSeq(src, 1, Len(src)) = src
  BY <1>1
<1>4. Yields(src, Spelled(out))
  BY <1>1, <1>2, <1>3, CoreSpelled
<1>5. TokBalanced(out)
  <2>1. TokDepth(out, size) = 0 /\ \A k \in 1 .. size : TokDepth(out, k) >= 0
    BY DEF Checked
  <2> QED
    BY <1>1, <2>1 DEF TokBalanced
<1> QED
  BY <1>1, <1>4, <1>5

\* What the optimizer is handed, with the flags of the extensions off, for
\* every text and every growth of the vector: a program of the core language
\* that can take the place of the source text, comments dropped
\* (lexer.c:15-187).
THEOREM LexerHandsOn == Spec => []HandedOn
<1>1. Spec => []ReadInv
  BY InitReadInv, StepReadInv, PTL DEF Spec
<1> QED
  BY <1>1, KeepingInvariance, CheckedInvariance, AcceptedHandsOn, PTL
=============================================================================
