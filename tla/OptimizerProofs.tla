-------------------------- MODULE OptimizerProofs ---------------------------
(***************************************************************************)
(* Theorems about optimize, for every token vector lex may return and      *)
(* every number of passes: the types, the brackets that stay matched while *)
(* runs of them are peeled, the pointer past the end that is never acted   *)
(* upon, and the tokens that read back as the program they replace.        *)
(***************************************************************************)
EXTENDS Optimizer, TokensProofs

-----------------------------------------------------------------------------
(* Vectors with matched brackets.                                          *)

\* The first n slots hold a program whose brackets match, and no bracket of it
\* stands for nothing.
Sound(m, n) ==
  /\ m \in Seq(Token) /\ n \in 0 .. Len(m)
  /\ \A k \in 1 .. n : TokDepth(m, k) >= 0
  /\ TokDepth(m, n) = 0
  /\ \A k \in 1 .. n : m[k].op \in {"[", "]"} => m[k].len > 0

LEMMA TokType ==
  ASSUME NEW o \in Ops, NEW n \in Nat
  PROVE  Tok(o, n) \in Token /\ Tok(o, n).op = o /\ Tok(o, n).len = n
  BY DEF Tok, Token

LEMMA ZeroedType == Zeroed \in Token /\ Zeroed.op = NoOp /\ Zeroed.len = 0 /\ NoOp \in Ops
  BY TokType DEF Zeroed, NoOp, Ops

LEMMA GarbageType == Garbage \in Token
  BY TokType DEF Garbage, Uninit, Ops

\* Two vectors whose weights differ by the steps of s differ in depth by s.
LEMMA DepthShift ==
  ASSUME NEW m \in Seq(Token), NEW w \in Seq(Token), NEW n \in Nat, n <= Len(m), n <= Len(w),
         NEW s \in [0 .. n -> Int], s[0] = 0,
         \A k \in 1 .. n : Weight(w[k]) + s[k - 1] = Weight(m[k]) + s[k]
  PROVE  \A k \in 0 .. n : TokDepth(w, k) = TokDepth(m, k) + s[k]
<1> DEFINE T == {k \in Nat : k <= n => TokDepth(w, k) = TokDepth(m, k) + s[k]}
<1>1. 0 \in T
  BY TokDepthStep
<1>2. ASSUME NEW k \in Nat, k \in T PROVE k + 1 \in T
  <2> SUFFICES ASSUME k + 1 <= n PROVE TokDepth(w, k + 1) = TokDepth(m, k + 1) + s[k + 1]
    OBVIOUS
  <2>1. k + 1 \in 1 .. n /\ (k + 1) - 1 = k /\ k + 1 \in 0 .. n /\ k \in 0 .. n
        /\ k + 1 \in 1 .. Len(m) /\ k + 1 \in 1 .. Len(w)
    OBVIOUS
  <2>2. TokDepth(w, k) = TokDepth(m, k) + s[k]
    BY <1>2, <2>1
  <2>3. TokDepth(m, k + 1) = TokDepth(m, k) + Weight(m[k + 1])
        /\ TokDepth(w, k + 1) = TokDepth(w, k) + Weight(w[k + 1])
    BY <2>1, TokDepthStep
  <2>4. Weight(w[k + 1]) + s[k] = Weight(m[k + 1]) + s[k + 1]
    BY <2>1
  <2>5. m[k + 1] \in Token /\ w[k + 1] \in Token
    BY <2>1
  <2>6. Weight(w[k + 1]) \in Int /\ Weight(m[k + 1]) \in Int
    BY <2>5, WeightType
  <2>7. s[k] \in Int /\ s[k + 1] \in Int
    BY <2>1
  <2>8. TokDepth(m, k) \in Int
    <3>1. k \in 0 .. Len(m)
      OBVIOUS
    <3> QED
      BY <3>1, TokDepthStep
  <2> QED
    <3> DEFINE j == k + 1
               a == TokDepth(m, k)
               b == TokDepth(w, k)
               x == Weight(m[j])
               y == Weight(w[j])
               c == s[k]
               d == s[j]
    <3>1. b = a + c /\ TokDepth(m, j) = a + x /\ TokDepth(w, j) = b + y /\ y + c = x + d
      BY <2>2, <2>3, <2>4
    <3>2. a \in Int /\ x \in Int /\ y \in Int /\ c \in Int /\ d \in Int
      BY <2>6, <2>7, <2>8
    <3> HIDE DEF a, b, x, y, c, d
    <3>3. TokDepth(w, j) = TokDepth(m, j) + d
      <4> DEFINE u == TokDepth(w, j)
                 v == TokDepth(m, j)
      <4>1. b = a + c /\ v = a + x /\ u = b + y /\ y + c = x + d
        BY <3>1
      <4> HIDE DEF u, v
      <4>2. u = v + d
        BY ONLY <3>2, <4>1
      <4> QED
        BY <4>2 DEF u, v
    <3> QED
      BY <3>3 DEF d
<1>3. Nat \subseteq T
  <2> HIDE DEF T
  <2> QED
    BY <1>1, <1>2, SetInduction
<1> QED
  BY <1>3

\* Between two slots that no bracket separates the depth is the same.
LEMMA DepthFlat ==
  ASSUME NEW m \in Seq(Token), NEW l \in Nat, NEW r \in Nat, r <= Len(m),
         \A k \in l + 1 .. r : Weight(m[k]) = 0
  PROVE  \A k \in l .. r : TokDepth(m, k) = TokDepth(m, l)
<1> DEFINE T == {j \in Nat : l + j <= r => TokDepth(m, l + j) = TokDepth(m, l)}
<1>1. 0 \in T
  OBVIOUS
<1>2. ASSUME NEW j \in Nat, j \in T PROVE j + 1 \in T
  <2> SUFFICES ASSUME l + (j + 1) <= r PROVE TokDepth(m, l + (j + 1)) = TokDepth(m, l)
    OBVIOUS
  <2>1. l + (j + 1) \in 1 .. Len(m) /\ l + (j + 1) \in l + 1 .. r /\ (l + (j + 1)) - 1 = l + j
        /\ l \in 0 .. Len(m)
    OBVIOUS
  <2>2. TokDepth(m, l + j) = TokDepth(m, l)
    BY <1>2
  <2>3. TokDepth(m, l + (j + 1)) = TokDepth(m, l + j) + Weight(m[l + (j + 1)])
    BY <2>1, TokDepthStep
  <2>4. TokDepth(m, l) \in Int
    BY <2>1, TokDepthStep
  <2> QED
    BY <2>1, <2>2, <2>3, <2>4
<1>3. Nat \subseteq T
  <2> HIDE DEF T
  <2> QED
    BY <1>1, <1>2, SetInduction
<1> QED
  <2> SUFFICES ASSUME NEW k \in l .. r PROVE TokDepth(m, k) = TokDepth(m, l)
    OBVIOUS
  <2>1. k - l \in Nat /\ l + (k - l) = k
    OBVIOUS
  <2>2. k - l \in T
    BY <1>3, <2>1
  <2> QED
    BY <2>1, <2>2

-----------------------------------------------------------------------------
(* The two rewrites.                                                       *)

LEMMA PeeledType ==
  ASSUME NEW t \in Token, t.op \in {"[", "]"}, t.len > 0
  PROVE  /\ Peeled(t) \in Token
         /\ Peeled(t).op \in {"[", "]"} => Peeled(t).len > 0
         /\ t.op = "[" => Weight(Peeled(t)) = Weight(t) - 1
         /\ t.op = "]" => Weight(Peeled(t)) = Weight(t) + 1
<1>1. t.len \in Nat /\ t.op \in Ops
  BY WeightOf
<1>2. CASE t.len = 1
  <2>1. Peeled(t) = Zeroed /\ Weight(Zeroed) = 0 /\ Zeroed.op \notin {"[", "]"}
    BY <1>2, ZeroedType, WeightOf DEF Peeled, NoOp
  <2> QED
    BY <1>2, <2>1, ZeroedType, WeightOf
<1>3. CASE t.len # 1
  <2>1. t.len - 1 \in Nat /\ t.len - 1 > 0
    BY <1>1, <1>3
  <2> DEFINE n == t.len - 1
             o == t.op
             p == Tok(o, n)
  <2>2. Peeled(t) = p
    BY <1>3 DEF Peeled
  <2>3. n \in Nat /\ n > 0 /\ o \in Ops /\ t.len = n + 1
    BY <1>1, <2>1
  <2>4. p \in Token /\ p.op = o /\ p.len = n
    <3> HIDE DEF n, o
    <3> QED
      BY <2>3, TokType
  <2> HIDE DEF p
  <2>5. o = "[" => Weight(p) = n /\ Weight(t) = t.len
    BY <2>4, WeightOf
  <2>6. o = "]" => Weight(p) = 0 - n /\ Weight(t) = 0 - t.len
    BY <2>4, WeightOf
  <2> QED
    BY <2>2, <2>3, <2>4, <2>5, <2>6
<1> QED
  BY <1>2, <1>3

\* A token that opens and closes nothing.
Neutral(t) == t \in Token /\ t.op \notin {"[", "]"}

LEMMA NeutralWeight == ASSUME NEW t, Neutral(t) PROVE Weight(t) = 0
  BY WeightOf DEF Neutral

LEMMA NeutralZeroed == Neutral(Zeroed)
  BY ZeroedType DEF Neutral, NoOp

\* One bracket off each end of a run of tokens, which is cleared.
LEMMA ReplaceSound ==
  ASSUME NEW m, NEW n \in Nat, Sound(m, n), NEW l \in 1 .. n, NEW r \in l + 2 .. n,
         m[l].op = "[", m[r].op = "]", \A k \in l + 1 .. r - 1 : Neutral(m[k]),
         NEW t, Neutral(t)
  PROVE  Sound(Replace(m, l, r, t), n) /\ Len(Replace(m, l, r, t)) = Len(m)
<1> DEFINE w == Replace(m, l, r, t)
           s == [k \in 0 .. n |-> IF k \in l .. r - 1 THEN 0 - 1 ELSE 0]
<1>0. m \in Seq(Token) /\ n <= Len(m) /\ Len(m) \in Nat /\ DOMAIN m = 1 .. Len(m)
      /\ \A k \in 1 .. n : m[k] \in Token
  BY DEF Sound
<1>1. r \in 1 .. n /\ l \in Nat /\ r \in Nat /\ l + 2 <= r /\ m[l] \in Token /\ m[r] \in Token
      /\ m[l].len > 0 /\ m[r].len > 0 /\ l + 1 \in 1 .. n
  BY <1>0 DEF Sound
<1>2. /\ m[l].len = 1 => w[l] = t /\ w[l + 1] = Zeroed
      /\ m[l].len # 1 => w[l] = Peeled(m[l]) /\ w[l + 1] = t
  BY <1>0, <1>1 DEF Replace
<1>3. \A k \in l + 2 .. r - 1 : w[k] = Zeroed
  BY <1>0, <1>1 DEF Replace
<1>4. w[r] = Peeled(m[r])
  BY <1>0, <1>1 DEF Replace
<1>5. \A k \in 1 .. Len(m) : k \notin l .. r => w[k] = m[k]
  BY <1>0, <1>1 DEF Replace
<1>6. DOMAIN w = 1 .. Len(m)
  BY <1>0 DEF Replace
<1> HIDE DEF w
<1>7. \A k \in l + 1 .. r - 1 : Neutral(w[k])
  <2> SUFFICES ASSUME NEW k \in l + 1 .. r - 1 PROVE Neutral(w[k])
    OBVIOUS
  <2>1. k = l + 1 \/ k \in l + 2 .. r - 1
    OBVIOUS
  <2> QED
    BY <2>1, <1>2, <1>3, NeutralZeroed
<1>8. /\ w[l] \in Token /\ Weight(w[l]) = Weight(m[l]) - 1
      /\ w[l].op \in {"[", "]"} => w[l].len > 0
  <2>1. CASE m[l].len = 1
    <3>1. Weight(m[l]) = 1 /\ Weight(t) = 0 /\ t.op \notin {"[", "]"} /\ t \in Token
      BY <2>1, <1>1, WeightOf, NeutralWeight DEF Neutral
    <3> QED
      BY <2>1, <3>1, <1>2
  <2>2. CASE m[l].len # 1
    BY <2>2, <1>1, <1>2, PeeledType
  <2> QED
    BY <2>1, <2>2
<1>9. /\ w[r] \in Token /\ Weight(w[r]) = Weight(m[r]) + 1
      /\ w[r].op \in {"[", "]"} => w[r].len > 0
  BY <1>1, <1>4, PeeledType
<1>10. \A k \in 1 .. Len(m) : w[k] \in Token
  <2> SUFFICES ASSUME NEW k \in 1 .. Len(m) PROVE w[k] \in Token
    OBVIOUS
  <2>1. k = l \/ k = r \/ k \in l + 1 .. r - 1 \/ k \notin l .. r
    BY <1>1
  <2>2. m[k] \in Token
    BY <1>0
  <2> QED
    BY <2>1, <2>2, <1>5, <1>7, <1>8, <1>9 DEF Neutral
<1>11. w \in Seq(Token) /\ Len(w) = Len(m)
  <2>1. w = [k \in 1 .. Len(m) |-> w[k]]
    BY <1>6 DEF w, Replace
  <2> QED
    BY <2>1, <1>0, <1>6, <1>10
<1>12. s \in [0 .. n -> Int] /\ s[0] = 0
  BY <1>1
<1>13. \A k \in 1 .. n : Weight(w[k]) + s[k - 1] = Weight(m[k]) + s[k]
  <2> SUFFICES ASSUME NEW k \in 1 .. n PROVE Weight(w[k]) + s[k - 1] = Weight(m[k]) + s[k]
    OBVIOUS
  <2>0. k - 1 \in 0 .. n /\ k \in 0 .. n /\ k \in 1 .. Len(m) /\ m[k] \in Token /\ Weight(m[k]) \in Int
    BY <1>0, WeightType
  <2>1. CASE k = l
    <3>1. s[k - 1] = 0 /\ s[k] = 0 - 1
      BY <2>0, <2>1, <1>1
    <3> HIDE DEF s
    <3> QED
      BY <3>1, <2>0, <2>1, <1>8
  <2>2. CASE k = r
    <3>1. s[k - 1] = 0 - 1 /\ s[k] = 0
      BY <2>0, <2>2, <1>1
    <3> HIDE DEF s
    <3> QED
      BY <3>1, <2>0, <2>2, <1>9
  <2>3. CASE k \in l + 1 .. r - 1
    <3>1. s[k - 1] = 0 - 1 /\ s[k] = 0 - 1
      BY <2>0, <2>3, <1>1
    <3>2. Weight(w[k]) = 0 /\ Weight(m[k]) = 0
      BY <2>3, <1>7, NeutralWeight
    <3> HIDE DEF s
    <3> QED
      BY <3>1, <3>2
  <2>4. CASE k \notin l .. r
    <3>1. s[k - 1] = 0 /\ s[k] = 0
      BY <2>0, <2>4, <1>1
    <3>2. w[k] = m[k]
      BY <2>0, <2>4, <1>5
    <3> HIDE DEF s
    <3> QED
      BY <3>1, <3>2, <2>0
  <2> QED
    BY <2>1, <2>2, <2>3, <2>4, <1>1
<1>s. \A k \in 0 .. n : s[k] = IF k \in l .. r - 1 THEN 0 - 1 ELSE 0
  OBVIOUS
<1> HIDE DEF s
<1>14. \A k \in 0 .. n : TokDepth(w, k) = TokDepth(m, k) + s[k]
  <2>1. n \in Nat /\ n <= Len(m) /\ n <= Len(w)
    BY <1>0, <1>11
  <2> QED
    BY ONLY <2>1, <1>0, <1>11, <1>12, <1>13, DepthShift
<1>15. \A k \in l .. r - 1 : TokDepth(m, k) > 0
  <2>1. \A k \in l + 1 .. r - 1 : Weight(m[k]) = 0
    BY NeutralWeight
  <2>2. l \in Nat /\ r - 1 \in Nat /\ r - 1 <= Len(m)
    BY <1>0, <1>1
  <2> DEFINE q == r - 1
  <2>3. \A k \in l .. q : TokDepth(m, k) = TokDepth(m, l)
    <3>1. \A k \in l + 1 .. q : Weight(m[k]) = 0
      BY <2>1
    <3>2. q \in Nat /\ q <= Len(m)
      BY <2>2
    <3> HIDE DEF q
    <3> QED
      BY ONLY <1>0, <1>1, <3>1, <3>2, DepthFlat
  <2>4. TokDepth(m, l) = TokDepth(m, l - 1) + Weight(m[l])
    <3>1. l \in 1 .. Len(m)
      BY <1>0
    <3> QED
      BY <3>1, <1>0, TokDepthStep
  <2>5. TokDepth(m, l - 1) >= 0 /\ TokDepth(m, l - 1) \in Int
    <3>1. l - 1 = 0 \/ l - 1 \in 1 .. n
      OBVIOUS
    <3>2. l - 1 \in 0 .. Len(m)
      BY <1>0, <1>1
    <3> QED
      BY <3>1, <3>2, <1>0, TokDepthStep DEF Sound
  <2>6. Weight(m[l]) = m[l].len /\ m[l].len \in Nat
    BY <1>1, WeightOf
  <2>7. TokDepth(m, l) > 0
    BY <2>4, <2>5, <2>6, <1>1
  <2> QED
    BY <2>3, <2>7
<1>16. \A k \in 1 .. n : TokDepth(w, k) >= 0
  <2> SUFFICES ASSUME NEW k \in 1 .. n PROVE TokDepth(w, k) >= 0
    OBVIOUS
  <2>1. TokDepth(m, k) \in Int /\ TokDepth(m, k) >= 0
    <3>1. k \in 0 .. Len(m)
      BY <1>0
    <3> QED
      BY <3>1, <1>0, TokDepthStep DEF Sound
  <2>2. TokDepth(w, k) = TokDepth(m, k) + s[k]
    BY <1>14
  <2>3. k \in l .. r - 1 => TokDepth(m, k) > 0
    BY <1>15
  <2>4. s[k] = IF k \in l .. r - 1 THEN 0 - 1 ELSE 0
    BY <1>s
  <2> QED
    BY ONLY <2>1, <2>2, <2>3, <2>4
<1>17. TokDepth(w, n) = 0
  <2>1. TokDepth(w, n) = TokDepth(m, n) + s[n] /\ s[n] = 0
    BY <1>14, <1>s, <1>1
  <2> QED
    BY <2>1 DEF Sound
<1>18. \A k \in 1 .. n : w[k].op \in {"[", "]"} => w[k].len > 0
  <2> SUFFICES ASSUME NEW k \in 1 .. n, w[k].op \in {"[", "]"} PROVE w[k].len > 0
    OBVIOUS
  <2>1. k = l \/ k = r \/ k \in l + 1 .. r - 1 \/ k \notin l .. r
    BY <1>1
  <2>2. k \notin l .. r => w[k] = m[k]
    BY <1>0, <1>5
  <2> QED
    BY <2>1, <2>2, <1>7, <1>8, <1>9 DEF Neutral, Sound
<1> QED
  BY <1>0, <1>11, <1>16, <1>17, <1>18 DEF Sound, w

\* One token in the place of a run of slots that leaves the depth as it was.
LEMMA PutSound ==
  ASSUME NEW m, NEW n \in Nat, Sound(m, n), NEW l \in 1 .. n, NEW r \in l + 1 .. n,
         TokDepth(m, r) = TokDepth(m, l - 1), NEW t, Neutral(t)
  PROVE  Sound(Put(m, l, r, t), n) /\ Len(Put(m, l, r, t)) = Len(m)
<1> DEFINE w == Put(m, l, r, t)
           D == TokDepth(m, l - 1)
           s == [k \in 0 .. n |-> IF k \in l .. r - 1 THEN D - TokDepth(m, k) ELSE 0]
<1>0. m \in Seq(Token) /\ n <= Len(m) /\ Len(m) \in Nat /\ DOMAIN m = 1 .. Len(m)
      /\ \A k \in 1 .. n : m[k] \in Token
  BY DEF Sound
<1>1. r \in 1 .. n /\ l \in Nat /\ r \in Nat /\ l + 1 <= r /\ t \in Token
  BY <1>0 DEF Neutral
<1>2. w[l] = t /\ \A k \in l + 1 .. r : w[k] = Zeroed
  BY <1>0, <1>1 DEF Put
<1>3. \A k \in 1 .. Len(m) : k \notin l .. r => w[k] = m[k]
  BY <1>0, <1>1 DEF Put
<1>4. DOMAIN w = 1 .. Len(m) /\ w = [k \in 1 .. Len(m) |-> w[k]]
  BY <1>0 DEF Put
<1> HIDE DEF w
<1>5. \A k \in l .. r : Neutral(w[k])
  <2> SUFFICES ASSUME NEW k \in l .. r PROVE Neutral(w[k])
    OBVIOUS
  <2>1. k = l \/ k \in l + 1 .. r
    OBVIOUS
  <2> QED
    BY <2>1, <1>2, NeutralZeroed
<1>6. \A k \in 1 .. Len(m) : w[k] \in Token
  <2> SUFFICES ASSUME NEW k \in 1 .. Len(m) PROVE w[k] \in Token
    OBVIOUS
  <2>2. m[k] \in Token
    BY <1>0
  <2> QED
    BY <2>2, <1>3, <1>5 DEF Neutral
<1>7. w \in Seq(Token) /\ Len(w) = Len(m)
  BY <1>0, <1>4, <1>6
<1>8. \A k \in 0 .. n : TokDepth(m, k) \in Int
  <2>1. \A k \in 0 .. n : k \in 0 .. Len(m)
    BY <1>0
  <2> QED
    BY <1>0, <2>1, TokDepthStep
<1>9. D \in Int /\ D >= 0 /\ TokDepth(m, r) = D
  <2>1. l - 1 \in 0 .. n /\ (l - 1 = 0 \/ l - 1 \in 1 .. n)
    OBVIOUS
  <2>2. TokDepth(m, l - 1) >= 0
    BY <2>1, <1>0, TokDepthStep DEF Sound
  <2> QED
    BY <2>1, <2>2, <1>8
<1>d. D = TokDepth(m, l - 1)
  OBVIOUS
<1> HIDE DEF D
<1>12. s \in [0 .. n -> Int] /\ s[0] = 0
  <2>1. \A k \in 0 .. n : s[k] \in Int
    <3> SUFFICES ASSUME NEW k \in 0 .. n PROVE s[k] \in Int
      OBVIOUS
    <3>1. TokDepth(m, k) \in Int
      BY <1>8
    <3> QED
      BY <3>1, <1>9
  <2> QED
    BY <2>1, <1>1
<1>s. \A k \in 0 .. n : s[k] = IF k \in l .. r - 1 THEN D - TokDepth(m, k) ELSE 0
  OBVIOUS
<1> HIDE DEF s
<1>13. \A k \in 1 .. n : Weight(w[k]) + s[k - 1] = Weight(m[k]) + s[k]
  <2> SUFFICES ASSUME NEW k \in 1 .. n PROVE Weight(w[k]) + s[k - 1] = Weight(m[k]) + s[k]
    OBVIOUS
  <2> DEFINE j == k - 1
             a == TokDepth(m, j)
             b == TokDepth(m, k)
             x == Weight(m[k])
             y == Weight(w[k])
             c == s[j]
             d == s[k]
  <2>0. j \in 0 .. n /\ k \in 0 .. n /\ k \in 1 .. Len(m) /\ m[k] \in Token
    BY <1>0
  <2>1. a \in Int /\ b \in Int /\ x \in Int
    BY <2>0, <1>8, WeightType
  <2>2. b = a + x
    BY <2>0, <1>0, TokDepthStep
  <2>3. y = IF k \in l .. r THEN 0 ELSE x
    <3>1. CASE k \in l .. r
      BY <3>1, <1>5, NeutralWeight
    <3>2. CASE k \notin l .. r
      BY <3>2, <2>0, <1>3
    <3> QED
      BY <3>1, <3>2
  <2>4. c = (IF k \in l + 1 .. r THEN D - a ELSE 0) /\ d = IF k \in l .. r - 1 THEN D - b ELSE 0
    <3>1. k \in l + 1 .. r <=> j \in l .. r - 1
      BY <1>1
    <3> QED
      BY <3>1, <2>0, <1>s
  <2>5. (k = l => a = D) /\ (k = r => b = D)
    BY <1>9, <1>d
  <2>6. k \in l .. r \/ k \notin l .. r
    OBVIOUS
  <2> HIDE DEF a, b, x, y, c, d
  <2>7. y + c = x + d
    <3>1. CASE k \notin l .. r
      <4>1. k \notin l + 1 .. r /\ k \notin l .. r - 1
        BY <3>1
      <4> QED
        BY <4>1, <3>1, <2>1, <2>3, <2>4
    <3>2. CASE k \in l + 1 .. r - 1
      <4>1. k \in l + 1 .. r /\ k \in l .. r - 1 /\ k \in l .. r
        BY <3>2
      <4> QED
        BY <4>1, <1>9, <2>1, <2>2, <2>3, <2>4
    <3>3. CASE k = l
      <4>1. k \notin l + 1 .. r /\ k \in l .. r - 1 /\ k \in l .. r
        BY <3>3, <1>1
      <4> QED
        BY <3>3, <4>1, <1>9, <2>1, <2>2, <2>3, <2>4, <2>5
    <3>4. CASE k = r
      <4>1. k \in l + 1 .. r /\ k \notin l .. r - 1 /\ k \in l .. r
        BY <3>4, <1>1
      <4> QED
        BY <3>4, <4>1, <1>9, <2>1, <2>2, <2>3, <2>4, <2>5
    <3> QED
      BY <3>1, <3>2, <3>3, <3>4, <1>1
  <2> QED
    BY <2>7 DEF y, c, x, d
<1>14. \A k \in 0 .. n : TokDepth(w, k) = TokDepth(m, k) + s[k]
  <2>1. n \in Nat /\ n <= Len(m) /\ n <= Len(w)
    BY <1>0, <1>7
  <2> QED
    BY ONLY <2>1, <1>0, <1>7, <1>12, <1>13, DepthShift
<1>16. \A k \in 1 .. n : TokDepth(w, k) >= 0
  <2> SUFFICES ASSUME NEW k \in 1 .. n PROVE TokDepth(w, k) >= 0
    OBVIOUS
  <2>1. TokDepth(m, k) \in Int /\ TokDepth(m, k) >= 0
    BY <1>8 DEF Sound
  <2>2. TokDepth(w, k) = TokDepth(m, k) + s[k]
    BY <1>14
  <2>4. s[k] = IF k \in l .. r - 1 THEN D - TokDepth(m, k) ELSE 0
    BY <1>s
  <2> QED
    BY ONLY <1>9, <2>1, <2>2, <2>4
<1>17. TokDepth(w, n) = 0
  <2>1. TokDepth(w, n) = TokDepth(m, n) + s[n] /\ s[n] = 0
    BY <1>14, <1>s, <1>1
  <2> QED
    BY <2>1 DEF Sound
<1>18. \A k \in 1 .. n : w[k].op \in {"[", "]"} => w[k].len > 0
  <2> SUFFICES ASSUME NEW k \in 1 .. n, w[k].op \in {"[", "]"} PROVE w[k].len > 0
    OBVIOUS
  <2>2. k \notin l .. r => w[k] = m[k]
    BY <1>0, <1>3
  <2> QED
    BY <2>2, <1>5 DEF Neutral, Sound
<1> QED
  BY <1>0, <1>7, <1>16, <1>17, <1>18 DEF Sound, w

-----------------------------------------------------------------------------
(* The patterns of opt_openl and optz.                                     *)

\* optimize stands on a bracket or on a Z, inside the vector.
LEMMA ZeroLoopSound ==
  ASSUME NEW m, NEW n \in Nat, Sound(m, n), NEW l \in 1 .. n, l + 2 <= n
  PROVE  Sound(ZeroLoop(m, l), n) /\ Len(ZeroLoop(m, l)) = Len(m)
<1> DEFINE t == Tok("Z", 1)
<1>0. m \in Seq(Token) /\ n <= Len(m) /\ \A k \in 1 .. n : m[k] \in Token /\ k \in 1 .. Len(m)
  BY DEF Sound
<1>1. Neutral(t)
  BY TokType DEF Neutral, Ops, RewriteOps
<1> HIDE DEF t
<1>2. l + 1 \in 1 .. n /\ l + 2 \in 1 .. n /\ l \in Nat /\ l - 1 \in 0 .. n
  OBVIOUS
<1>3. CASE ~(OpsAt(m, l, <<"[", "-", "]">>) /\ m[l + 1].len = 1)
  BY <1>3 DEF ZeroLoop
<1>4. CASE OpsAt(m, l, <<"[", "-", "]">>) /\ m[l + 1].len = 1
  <2>1. m[l].op = "[" /\ m[l + 1].op = "-" /\ m[l + 2].op = "]"
    <3>1. DOMAIN <<"[", "-", "]">> = 1 .. 3
      OBVIOUS
    <3>2. \A k \in 1 .. 3 : m[l + k - 1].op = <<"[", "-", "]">>[k]
      BY <3>1, <1>4 DEF OpsAt
    <3>3. l + 1 - 1 = l /\ l + 2 - 1 = l + 1 /\ l + 3 - 1 = l + 2
      OBVIOUS
    <3> QED
      BY <3>2, <3>3
  <2>2. Neutral(m[l + 1])
    BY <1>0, <1>2, <2>1 DEF Neutral
  <2>3. CASE m[l].len = m[l + 2].len
    <3>1. TokDepth(m, l + 2) = TokDepth(m, l - 1)
      <4> DEFINE a == TokDepth(m, l - 1)
                 b == TokDepth(m, l)
                 c == TokDepth(m, l + 1)
                 d == TokDepth(m, l + 2)
                 x == Weight(m[l])
                 y == Weight(m[l + 1])
                 z == Weight(m[l + 2])
      <4>1. \A k \in 1 .. n : TokDepth(m, k) = TokDepth(m, k - 1) + Weight(m[k])
        BY <1>0, TokDepthStep
      <4>2. (l + 1) - 1 = l /\ (l + 2) - 1 = l + 1
        OBVIOUS
      <4>3. b = a + x /\ c = b + y /\ d = c + z
        BY <4>1, <4>2, <1>2
      <4>4. x = m[l].len /\ y = 0 /\ z = 0 - m[l + 2].len /\ m[l].len \in Nat
        BY <1>0, <1>2, <2>1, <2>2, WeightOf, NeutralWeight
      <4>5. a \in Int
        <5>1. l - 1 \in 0 .. Len(m)
          BY <1>0
        <5> QED
          BY <5>1, <1>0, TokDepthStep
      <4> HIDE DEF a, b, c, d, x, y, z
      <4>6. d = a
        BY <4>3, <4>4, <4>5, <2>3
      <4> QED
        BY <4>6 DEF d, a
    <3>2. ZeroLoop(m, l) = Put(m, l, l + 2, t)
      BY <1>4, <2>3 DEF ZeroLoop, t
    <3>3. l + 2 \in l + 1 .. n
      BY <1>2
    <3> QED
      BY <1>1, <3>1, <3>2, <3>3, PutSound
  <2>4. CASE m[l].len # m[l + 2].len
    <3>1. ZeroLoop(m, l) = Replace(m, l, l + 2, t)
      BY <1>4, <2>4 DEF ZeroLoop, t
    <3>2. l + 2 \in l + 2 .. n /\ \A k \in l + 1 .. (l + 2) - 1 : k = l + 1
      BY <1>2
    <3>3. \A k \in l + 1 .. (l + 2) - 1 : Neutral(m[k])
      BY <2>2, <3>2
    <3> QED
      BY <1>1, <2>1, <3>1, <3>2, <3>3, ReplaceSound
  <2> QED
    BY <2>3, <2>4
<1> QED
  BY <1>3, <1>4

LEMMA MoveLoopSound ==
  ASSUME NEW m, NEW n \in Nat, Sound(m, n), NEW l \in 1 .. n, l + 5 <= n
  PROVE  Sound(MoveLoop(m, l), n) /\ Len(MoveLoop(m, l)) = Len(m)
<1> DEFINE ops == <<"[", "-", ">", "+", "<", "]">>
<1>0. m \in Seq(Token) /\ n <= Len(m) /\ \A k \in 1 .. n : m[k] \in Token /\ k \in 1 .. Len(m)
  BY DEF Sound
<1>1. CASE MoveLoop(m, l) = m
  BY <1>1
<1>2. CASE OpsAt(m, l, ops) /\ MoveLoop(m, l) = Replace(m, l, l + 5, Tok("M", m[l + 2].len))
  <2>1. /\ m[l].op = "[" /\ m[l + 1].op = "-" /\ m[l + 2].op = ">" /\ m[l + 3].op = "+"
        /\ m[l + 4].op = "<" /\ m[l + 5].op = "]"
    <3>1. DOMAIN ops = 1 .. 6
      OBVIOUS
    <3>2. \A k \in 1 .. 6 : m[l + k - 1].op = ops[k]
      BY <3>1, <1>2 DEF OpsAt
    <3>3. /\ l + 1 - 1 = l /\ l + 2 - 1 = l + 1 /\ l + 3 - 1 = l + 2 /\ l + 4 - 1 = l + 3
          /\ l + 5 - 1 = l + 4 /\ l + 6 - 1 = l + 5
      OBVIOUS
    <3> QED
      BY <3>2, <3>3
  <2>2. \A k \in l + 1 .. (l + 5) - 1 : k \in 1 .. n /\ k \in {l + 1, l + 2, l + 3, l + 4}
    OBVIOUS
  <2>3. \A k \in l + 1 .. (l + 5) - 1 : Neutral(m[k])
    BY <1>0, <2>1, <2>2 DEF Neutral
  <2> DEFINE t == Tok("M", m[l + 2].len)
  <2>4. Neutral(t)
    <3>1. l + 2 \in 1 .. n
      OBVIOUS
    <3>2. m[l + 2].len \in Nat
      BY <1>0, <3>1, WeightOf
    <3>3. "M" \in Ops /\ "M" \notin {"[", "]"}
      BY DEF Ops, RewriteOps
    <3>4. t \in Token /\ t.op = "M"
      BY <3>2, <3>3, TokType
    <3> QED
      BY <3>3, <3>4 DEF Neutral
  <2> HIDE DEF t
  <2>5. l + 5 \in l + 2 .. n
    OBVIOUS
  <2>6. MoveLoop(m, l) = Replace(m, l, l + 5, t)
    BY <1>2 DEF t
  <2> QED
    BY <2>1, <2>3, <2>4, <2>5, <2>6, ReplaceSound
<1> QED
  BY <1>1, <1>2 DEF MoveLoop

\* The scan for pairs stops, at the first slot that starts none.
LEMMA DestsFound ==
  ASSUME size \in Nat, NEW m, NEW l \in Nat
  PROVE  /\ Dests(m, l) \in 0 .. size
         /\ \A k \in 0 .. Dests(m, l) - 1 : PairAt(m, l + 2 + 2 * k)
<1> DEFINE T == {d \in Nat : ~PairAt(m, l + 2 + 2 * d)}
<1>1. size \in T
  <2>1. ~(l + 2 + 2 * size + 1 <= size)
    OBVIOUS
  <2> QED
    BY <2>1 DEF PairAt
<1>2. PICK d \in T : \A k \in T : d <= k
  <2>1. T \subseteq Nat /\ T # {}
    BY <1>1
  <2> HIDE DEF T
  <2> QED
    BY <2>1, LeastNatural
<1>3. d \in 0 .. size /\ ~PairAt(m, l + 2 + 2 * d)
  BY <1>1, <1>2
<1>4. \A k \in 0 .. d - 1 : PairAt(m, l + 2 + 2 * k)
  <2> SUFFICES ASSUME NEW k \in 0 .. d - 1 PROVE PairAt(m, l + 2 + 2 * k)
    OBVIOUS
  <2>1. k \in Nat /\ ~(d <= k)
    BY <1>3
  <2> QED
    BY <2>1, <1>2
<1> HIDE DEF T
<1>5. \E e \in 0 .. size : (\A k \in 0 .. e - 1 : PairAt(m, l + 2 + 2 * k))
                           /\ ~PairAt(m, l + 2 + 2 * e)
  BY <1>3, <1>4
<1> QED
  BY <1>5 DEF Dests

\* What stands between the bracket and the way back of a copy loop; after the
\* way back there is a token, for the bracket is open there.
LEMMA CopyBody ==
  ASSUME size \in Nat, NEW m, Sound(m, size), NEW l \in 1 .. size, l + 1 <= size,
         OpsAt(m, l, <<"[", "-">>),
         NEW ret, ret = l + 2 + 2 * Dests(m, l), ret <= size, m[ret].op = "<"
  PROVE  /\ m[l].op = "[" /\ ret \in Nat /\ ret >= l + 2
         /\ \A k \in l + 1 .. ret : Neutral(m[k]) /\ m[k].op \in {"-", ">", "+", "<"}
         /\ ret + 1 <= size
<1> DEFINE d == Dests(m, l)
<1>0. m \in Seq(Token) /\ size <= Len(m) /\ \A k \in 1 .. size : m[k] \in Token /\ k \in 1 .. Len(m)
  BY DEF Sound
<1>1. m[l].op = "[" /\ m[l + 1].op = "-"
  <2>1. DOMAIN <<"[", "-">> = 1 .. 2
    OBVIOUS
  <2>2. \A k \in 1 .. 2 : m[l + k - 1].op = <<"[", "-">>[k]
    BY <2>1 DEF OpsAt
  <2>3. l + 1 - 1 = l /\ l + 2 - 1 = l + 1
    OBVIOUS
  <2> QED
    BY <2>2, <2>3
<1>2. d \in Nat /\ \A k \in 0 .. d - 1 : PairAt(m, l + 2 + 2 * k)
  <2>1. l \in Nat
    OBVIOUS
  <2> QED
    BY <2>1, DestsFound
<1>3. ret = l + 2 + 2 * d
  OBVIOUS
<1> HIDE DEF d
<1>4. ret \in Nat /\ ret >= l + 2
  BY <1>2, <1>3
<1>5. \A k \in 0 .. d - 1 : m[l + 2 + 2 * k].op = ">" /\ m[l + 3 + 2 * k].op = "+"
  <2> SUFFICES ASSUME NEW k \in 0 .. d - 1
               PROVE  m[l + 2 + 2 * k].op = ">" /\ m[l + 3 + 2 * k].op = "+"
    OBVIOUS
  <2> DEFINE p == l + 2 + 2 * k
  <2>1. p \in Nat /\ l + 3 + 2 * k = p + 1
    BY <1>2
  <2>2. OpsAt(m, p, <<">", "+">>)
    BY <1>2 DEF PairAt
  <2>3. DOMAIN <<">", "+">> = 1 .. 2
    OBVIOUS
  <2> HIDE DEF p
  <2>4. \A j \in 1 .. 2 : m[p + j - 1].op = <<">", "+">>[j]
    BY <2>2, <2>3 DEF OpsAt
  <2>5. p + 1 - 1 = p /\ p + 2 - 1 = p + 1
    BY <2>1
  <2>6. m[p].op = ">" /\ m[p + 1].op = "+"
    BY <2>4, <2>5
  <2> QED
    BY <2>1, <2>6 DEF p
<1>6. \A k \in l + 1 .. ret : Neutral(m[k]) /\ m[k].op \in {"-", ">", "+", "<"}
  <2> SUFFICES ASSUME NEW k \in l + 1 .. ret
               PROVE  Neutral(m[k]) /\ m[k].op \in {"-", ">", "+", "<"}
    OBVIOUS
  <2>0. k \in 1 .. size /\ m[k] \in Token
    BY <1>0, <1>4
  <2>1. CASE k = l + 1
    BY <2>0, <2>1, <1>1 DEF Neutral
  <2>2. CASE k = ret
    BY <2>0, <2>2 DEF Neutral
  <2>3. CASE k \in l + 2 .. ret - 1
    <3> DEFINE j == (k - (l + 2)) \div 2
    <3>0. k - (l + 2) \in Nat /\ k - (l + 2) < 2 * d
      BY <2>3, <1>2, <1>3
    <3>1. j \in Nat /\ (k - (l + 2) = 2 * j \/ k - (l + 2) = 2 * j + 1)
      BY <3>0
    <3> HIDE DEF j
    <3>2. j \in 0 .. d - 1
      BY <3>0, <3>1, <1>2
    <3>3. k = l + 2 + 2 * j \/ k = l + 3 + 2 * j
      BY <3>1
    <3>4. m[k].op \in {">", "+"}
      BY <3>2, <3>3, <1>5
    <3> QED
      BY <2>0, <3>4 DEF Neutral
  <2> QED
    BY <2>1, <2>2, <2>3, <1>4
<1>7. ret # size
  <2> SUFFICES ASSUME ret = size PROVE FALSE
    OBVIOUS
  <2>1. \A k \in l + 1 .. size : Weight(m[k]) = 0
    BY <1>6, NeutralWeight
  <2>2. TokDepth(m, size) = TokDepth(m, l)
    <3>1. size \in l .. size /\ l \in Nat
      OBVIOUS
    <3> QED
      BY <3>1, <2>1, <1>0, DepthFlat
  <2>3. TokDepth(m, l) = TokDepth(m, l - 1) + Weight(m[l])
    <3>1. l \in 1 .. Len(m)
      BY <1>0
    <3> QED
      BY <3>1, <1>0, TokDepthStep
  <2>4. TokDepth(m, l - 1) >= 0 /\ TokDepth(m, l - 1) \in Int
    <3>1. l - 1 = 0 \/ l - 1 \in 1 .. size
      OBVIOUS
    <3>2. l - 1 \in 0 .. Len(m)
      BY <1>0
    <3> QED
      BY <3>1, <3>2, <1>0, TokDepthStep DEF Sound
  <2>5. Weight(m[l]) = m[l].len /\ m[l].len \in Nat /\ m[l].len > 0
    BY <1>0, <1>1, WeightOf DEF Sound
  <2> QED
    BY <2>2, <2>3, <2>4, <2>5 DEF Sound
<1> QED
  BY <1>1, <1>4, <1>6, <1>7

LEMMA NothingPast ==
  ASSUME size \in Nat, NEW m, Sound(m, size), NEW l \in 1 .. size, l + 1 <= size
  PROVE  ~ReadsPast(m, l)
<1> SUFFICES ASSUME ReadsPast(m, l) PROVE FALSE
  OBVIOUS
<1> DEFINE ret == l + 2 + 2 * Dests(m, l)
<1>1. OpsAt(m, l, <<"[", "-">>) /\ ret = size /\ m[ret].op = "<"
  BY DEF ReadsPast
<1>2. ret <= size
  BY <1>1
<1>r. ret = l + 2 + 2 * Dests(m, l)
  OBVIOUS
<1> HIDE DEF ret
<1>3. ret + 1 <= size
  BY <1>1, <1>2, <1>r, CopyBody
<1> QED
  BY <1>1, <1>3

LEMMA CopyLoopSound ==
  ASSUME size \in Nat, NEW m, Sound(m, size), NEW l \in 1 .. size, l + 1 <= size
  PROVE  Sound(CopyLoop(m, l), size) /\ Len(CopyLoop(m, l)) = Len(m)
<1> DEFINE d == Dests(m, l)
           ret == l + 2 + 2 * d
           t == Tok("C", d)
<1>1. CASE CopyLoop(m, l) = m
  BY <1>1
<1>2. CASE /\ OpsAt(m, l, <<"[", "-">>) /\ ret <= size /\ m[ret].op = "<" /\ m[ret + 1].op = "]"
           /\ CopyLoop(m, l) = Replace(m, l, ret + 1, t)
  <2>1. Neutral(t)
    <3>1. d \in Nat
      BY DestsFound
    <3> HIDE DEF d
    <3>3. "C" \in Ops /\ "C" \notin {"[", "]"}
      BY DEF Ops, RewriteOps
    <3>4. t \in Token /\ t.op = "C"
      BY <3>1, <3>3, TokType
    <3> QED
      BY <3>3, <3>4 DEF Neutral
  <2>r. ret = l + 2 + 2 * Dests(m, l)
    OBVIOUS
  <2> HIDE DEF ret, t
  <2>2. /\ m[l].op = "[" /\ ret \in Nat /\ ret >= l + 2
        /\ \A k \in l + 1 .. ret : Neutral(m[k])
        /\ ret + 1 <= size
    BY <1>2, <2>r, CopyBody
  <2>3. ret + 1 \in l + 2 .. size /\ (ret + 1) - 1 = ret
    BY <2>2
  <2>4. \A k \in l + 1 .. (ret + 1) - 1 : Neutral(m[k])
    BY <2>2, <2>3
  <2> QED
    BY <1>2, <2>1, <2>2, <2>3, <2>4, ReplaceSound
<1> QED
  BY <1>1, <1>2 DEF CopyLoop

LEMMA OpenLoopSound ==
  ASSUME size \in Nat, NEW m, Sound(m, size), NEW l \in 1 .. size
  PROVE  Sound(OpenLoop(m, l), size) /\ Len(OpenLoop(m, l)) = Len(m)
<1> DEFINE z == ZeroLoop(m, l)
           v == MoveLoop(z, l)
<1>1. CASE l + 2 > size
  BY <1>1 DEF OpenLoop
<1>2. CASE ~(l + 2 > size) /\ l + 5 > size
  <2>1. l + 2 <= size /\ OpenLoop(m, l) = ZeroLoop(m, l)
    BY <1>2 DEF OpenLoop
  <2> QED
    BY <2>1, ZeroLoopSound
<1>3. CASE ~(l + 2 > size) /\ ~(l + 5 > size)
  <2>1. l + 2 <= size /\ l + 5 <= size /\ l + 1 <= size /\ OpenLoop(m, l) = CopyLoop(v, l)
    BY <1>3 DEF OpenLoop
  <2>2. Sound(z, size) /\ Len(z) = Len(m)
    BY <2>1, ZeroLoopSound
  <2>3. Sound(v, size) /\ Len(v) = Len(m)
    <3> HIDE DEF z
    <3> QED
      BY <2>1, <2>2, MoveLoopSound
  <2>4. Sound(CopyLoop(v, l), size) /\ Len(CopyLoop(v, l)) = Len(v)
    <3> HIDE DEF v
    <3> QED
      BY <2>1, <2>3, CopyLoopSound
  <2> QED
    BY <2>1, <2>3, <2>4
<1> QED
  BY <1>1, <1>2, <1>3

LEMMA FoldZeroSound ==
  ASSUME size \in Nat, NEW m, Sound(m, size), NEW l \in 1 .. size, m[l].op = "Z"
  PROVE  Sound(FoldZero(m, l), size) /\ Len(FoldZero(m, l)) = Len(m)
<1>0. m \in Seq(Token) /\ size <= Len(m) /\ \A k \in 1 .. size : m[k] \in Token /\ k \in 1 .. Len(m)
  BY DEF Sound
<1>1. CASE FoldZero(m, l) = m
  BY <1>1
<1>2. ASSUME NEW o \in {"A", "S"}, l + 1 <= size, m[l + 1].op \in {"+", "-"},
             FoldZero(m, l) = Put(m, l, l + 1, Tok(o, m[l + 1].len))
      PROVE  Sound(FoldZero(m, l), size) /\ Len(FoldZero(m, l)) = Len(m)
  <2> DEFINE t == Tok(o, m[l + 1].len)
  <2>0. l + 1 \in 1 .. size /\ m[l] \in Token /\ m[l + 1] \in Token /\ l - 1 \in 0 .. Len(m)
    BY <1>0, <1>2
  <2>1. Neutral(t)
    <3>1. m[l + 1].len \in Nat /\ o \in Ops /\ o \notin {"[", "]"}
      BY <2>0, WeightOf DEF Ops, RewriteOps
    <3> QED
      BY <3>1, TokType DEF Neutral
  <2> HIDE DEF t
  <2>2. Neutral(m[l]) /\ Neutral(m[l + 1])
    BY <1>2, <2>0 DEF Neutral
  <2>3. TokDepth(m, l + 1) = TokDepth(m, l - 1)
    <3>1. \A k \in 1 .. size : TokDepth(m, k) = TokDepth(m, k - 1) + Weight(m[k])
      BY <1>0, TokDepthStep
    <3>2. (l + 1) - 1 = l
      OBVIOUS
    <3>3. TokDepth(m, l - 1) \in Int
      BY <1>0, <2>0, TokDepthStep
    <3>4. Weight(m[l]) = 0 /\ Weight(m[l + 1]) = 0
      BY <2>2, NeutralWeight
    <3>5. TokDepth(m, l) = TokDepth(m, l - 1) + 0 /\ TokDepth(m, l + 1) = TokDepth(m, l) + 0
      BY <3>1, <3>2, <3>4, <2>0
    <3> QED
      BY <3>3, <3>5
  <2>4. l + 1 \in l + 1 .. size
    BY <1>2
  <2>5. FoldZero(m, l) = Put(m, l, l + 1, t)
    BY <1>2 DEF t
  <2> QED
    BY <2>1, <2>3, <2>4, <2>5, PutSound
<1> QED
  <2>1. \/ FoldZero(m, l) = m
        \/ \E o \in {"A", "S"} : /\ l + 1 <= size /\ m[l + 1].op \in {"+", "-"}
                                 /\ FoldZero(m, l) = Put(m, l, l + 1, Tok(o, m[l + 1].len))
    BY DEF FoldZero
  <2> QED
    BY <2>1, <1>1, <1>2

-----------------------------------------------------------------------------
(* compact_vector.                                                         *)

LEMMA KeptType ==
  ASSUME NEW a \in Seq(Token), NEW t \in Token
  PROVE  Kept(a, t) \in Seq(Token)
<1>1. Append(a, t) \in Seq(Token)
  OBVIOUS
<1> QED
  BY <1>1 DEF Kept

LEMMA LivingIterates ==
  ASSUME NEW s \in Seq(Token)
  PROVE  \E f \in [0 .. Len(s) -> Seq(Token)] :
           /\ f[0] = <<>>
           /\ \A k \in 1 .. Len(s) : f[k] = Kept(f[k - 1], s[k])
           /\ Living(s) = f[Len(s)]
<1> DEFINE step == [k \in 1 .. Len(s) |-> [a \in Seq(Token) |-> Kept(a, s[k])]]
           Solves(g) == g = [n \in 0 .. Len(s) |-> IF n = 0 THEN <<>> ELSE Kept(g[n - 1], s[n])]
           D == CHOOSE g : Solves(g)
<1>1. \A k \in 1 .. Len(s) : \A a \in Seq(Token) : step[k][a] = Kept(a, s[k])
  OBVIOUS
<1>2. \A k \in 1 .. Len(s) : \A a \in Seq(Token) : step[k][a] \in Seq(Token)
  <2> SUFFICES ASSUME NEW k \in 1 .. Len(s), NEW a \in Seq(Token) PROVE step[k][a] \in Seq(Token)
    OBVIOUS
  <2>1. s[k] \in Token
    OBVIOUS
  <2>2. Kept(a, s[k]) \in Seq(Token)
    BY <2>1, KeptType
  <2> QED
    BY <1>1, <2>2
<1>0. <<>> \in Seq(Token) /\ Len(s) \in Nat
  OBVIOUS
<1> HIDE DEF step
<1>3. PICK f \in [0 .. Len(s) -> Seq(Token)] : Iterates(f, <<>>, step, Len(s))
  BY <1>0, <1>2, Iteration
<1>4. \A k \in 1 .. Len(s) : f[k] = Kept(f[k - 1], s[k])
  <2> SUFFICES ASSUME NEW k \in 1 .. Len(s) PROVE f[k] = Kept(f[k - 1], s[k])
    OBVIOUS
  <2>1. k - 1 \in 0 .. Len(s)
    OBVIOUS
  <2>2. f[k - 1] \in Seq(Token)
    BY <2>1
  <2>3. f[k] = step[k][f[k - 1]]
    BY <1>3 DEF Iterates
  <2> QED
    BY <2>2, <2>3, <1>1
<1>5. f[0] = <<>>
  BY <1>3 DEF Iterates
<1>6. Solves(f)
  <2>1. \A n \in 0 .. Len(s) : f[n] = IF n = 0 THEN <<>> ELSE Kept(f[n - 1], s[n])
    BY <1>4, <1>5
  <2> QED
    BY <2>1
<1>7. Solves(D)
  BY <1>6
<1>8. D[0] = <<>> /\ \A k \in 1 .. Len(s) : D[k] = Kept(D[k - 1], s[k])
  <2> HIDE DEF D
  <2> QED
    BY <1>7, <1>0
<1>9. Living(s) = D[Len(s)]
  BY DEF Living
<1> HIDE DEF D
<1>10. \A k \in 0 .. Len(s) : f[k] = D[k]
  <2>1. StepsAlike(f, D, Len(s))
    BY <1>4, <1>8 DEF StepsAlike
  <2>2. f[0] = D[0] /\ Len(s) \in Nat
    BY <1>0, <1>5, <1>8
  <2> QED
    BY ONLY <2>1, <2>2, IterationUnique, Zenon
<1> QED
  BY <1>0, <1>4, <1>5, <1>9, <1>10

LEMMA LivingType ==
  ASSUME NEW s \in Seq(Token)
  PROVE  Living(s) \in Seq(Token)
<1> QED
  BY LivingIterates

LEMMA LivingEmpty == Living(<<>>) = <<>>
<1>1. <<>> \in Seq(Token) /\ Len(<<>>) = 0
  OBVIOUS
<1> QED
  BY <1>1, LivingIterates

LEMMA LivingAppend ==
  ASSUME NEW s \in Seq(Token), NEW c \in Token
  PROVE  Living(Append(s, c)) = Kept(Living(s), c)
<1> DEFINE t == Append(s, c)
<1>1. t \in Seq(Token) /\ Len(t) = Len(s) + 1 /\ t[Len(s) + 1] = c
      /\ \A k \in 1 .. Len(s) : t[k] = s[k]
  BY AppendProperties
<1> HIDE DEF t
<1>2. PICK f \in [0 .. Len(s) -> Seq(Token)] :
        /\ f[0] = <<>>
        /\ \A k \in 1 .. Len(s) : f[k] = Kept(f[k - 1], s[k])
        /\ Living(s) = f[Len(s)]
  BY LivingIterates
<1>3. PICK g \in [0 .. Len(t) -> Seq(Token)] :
        /\ g[0] = <<>>
        /\ \A k \in 1 .. Len(t) : g[k] = Kept(g[k - 1], t[k])
        /\ Living(t) = g[Len(t)]
  BY <1>1, LivingIterates
<1>4. f[Len(s)] = g[Len(s)]
  <2>1. StepsAlike(f, g, Len(s))
    BY <1>1, <1>2, <1>3 DEF StepsAlike
  <2>2. f[0] = g[0] /\ Len(s) \in Nat
    BY <1>2, <1>3
  <2>3. \A k \in 0 .. Len(s) : f[k] = g[k]
    BY ONLY <2>1, <2>2, IterationUnique, Zenon
  <2> QED
    BY <2>2, <2>3
<1>5. g[Len(t)] = Kept(g[Len(s)], c)
  <2>1. Len(t) \in 1 .. Len(t) /\ Len(t) - 1 = Len(s)
    BY <1>1
  <2> QED
    BY <2>1, <1>1, <1>3
<1> QED
  BY <1>2, <1>3, <1>4, <1>5 DEF t

LEMMA DeadWeight ==
  ASSUME NEW t \in Token, Dead(t)
  PROVE  Weight(t) = 0
<1>1. t.len = 0 \/ t.op \notin {"[", "]"}
  BY DEF Dead, NoOp
<1> QED
  BY <1>1, WeightOf

\* A token more, or a dead token less.
LEMMA SoundAppend ==
  ASSUME NEW ts \in Seq(Token), NEW t \in Token
  PROVE  LET us == Append(ts, t)
             Rises(vs) == \A k \in 1 .. Len(vs) : TokDepth(vs, k) >= 0
             Live(vs) == \A k \in 1 .. Len(vs) : vs[k].op \in {"[", "]"} => vs[k].len > 0
         IN  /\ TokDepth(us, Len(us)) = TokDepth(ts, Len(ts)) + Weight(t)
             /\ Rises(us) <=> Rises(ts) /\ TokDepth(us, Len(us)) >= 0
             /\ Live(us) <=> Live(ts) /\ (t.op \in {"[", "]"} => t.len > 0)
             /\ Len(us) = Len(ts) + 1
<1> DEFINE us == Append(ts, t)
           n == Len(ts)
           P(e) == e.op \in {"[", "]"} => e.len > 0
<1>1. us \in Seq(Token) /\ Len(us) = n + 1 /\ us[n + 1] = t /\ \A k \in 1 .. n : us[k] = ts[k]
  BY AppendProperties
<1>2. /\ \A k \in 0 .. n : TokDepth(us, k) = TokDepth(ts, k)
      /\ TokDepth(us, n + 1) = TokDepth(ts, n) + Weight(t)
      /\ n \in Nat
  BY TokDepthAppend
<1> HIDE DEF us, n, P
<1>3. n + 1 \in 1 .. n + 1 /\ \A k \in 1 .. n : k \in 1 .. n + 1 /\ k \in 0 .. n
  BY <1>2
<1>4. \A k \in 1 .. n + 1 : k \in 1 .. n \/ k = n + 1
  BY <1>2
<1>5. (\A k \in 1 .. n + 1 : TokDepth(us, k) >= 0)
      <=> (\A k \in 1 .. n : TokDepth(ts, k) >= 0) /\ TokDepth(us, n + 1) >= 0
  BY ONLY <1>2, <1>3, <1>4
<1>6. (\A k \in 1 .. n + 1 : P(us[k])) <=> (\A k \in 1 .. n : P(ts[k])) /\ P(t)
  BY ONLY <1>1, <1>3, <1>4
<1> QED
  BY <1>1, <1>2, <1>5, <1>6 DEF us, n, P

\* The live tokens of a program are a program, no longer than it.
LEMMA LivingSound ==
  ASSUME NEW ts \in Seq(Token)
  PROVE  LET us == Living(ts)
             Rises(vs) == \A k \in 1 .. Len(vs) : TokDepth(vs, k) >= 0
             Live(vs) == \A k \in 1 .. Len(vs) : vs[k].op \in {"[", "]"} => vs[k].len > 0
         IN  /\ TokDepth(us, Len(us)) = TokDepth(ts, Len(ts))
             /\ Rises(ts) => Rises(us)
             /\ Live(ts) => Live(us)
             /\ Len(us) <= Len(ts)
<1> DEFINE Rises(vs) == \A k \in 1 .. Len(vs) : TokDepth(vs, k) >= 0
           Live(vs) == \A k \in 1 .. Len(vs) : vs[k].op \in {"[", "]"} => vs[k].len > 0
           Height(vs) == TokDepth(vs, Len(vs))
           P(vs) == /\ Height(Living(vs)) = Height(vs)
                    /\ Rises(vs) => Rises(Living(vs))
                    /\ Live(vs) => Live(Living(vs))
                    /\ Len(Living(vs)) <= Len(vs)
           T == {vs \in Seq(Token) : P(vs)}
<1>1. <<>> \in T
  <2>1. Living(<<>>) = <<>>
    BY LivingEmpty
  <2>2. <<>> \in Seq(Token) /\ Len(<<>>) <= Len(<<>>)
    OBVIOUS
  <2> HIDE DEF Rises, Live, Height
  <2> QED
    BY <2>1, <2>2
<1>2. ASSUME NEW vs \in Seq(Token), vs \in T, NEW t \in Token PROVE Append(vs, t) \in T
  <2> DEFINE ws == Append(vs, t)
             us == Living(vs)
             xs == Append(us, t)
             y == Living(ws)
  <2>1. ws \in Seq(Token) /\ us \in Seq(Token) /\ xs \in Seq(Token) /\ Len(us) \in Nat /\ Len(vs) \in Nat
    BY LivingType
  <2>2. y = IF Dead(t) THEN us ELSE xs
    BY LivingAppend DEF Kept
  <2>3. /\ Height(ws) = Height(vs) + Weight(t) /\ Len(ws) = Len(vs) + 1
        /\ Rises(ws) <=> Rises(vs) /\ Height(ws) >= 0
        /\ Live(ws) <=> Live(vs) /\ (t.op \in {"[", "]"} => t.len > 0)
    BY SoundAppend
  <2>4. /\ Height(xs) = Height(us) + Weight(t) /\ Len(xs) = Len(us) + 1
        /\ Rises(xs) <=> Rises(us) /\ Height(xs) >= 0
        /\ Live(xs) <=> Live(us) /\ (t.op \in {"[", "]"} => t.len > 0)
    <3> HIDE DEF us
    <3> QED
      BY <2>1, SoundAppend
  <2>5. /\ Height(us) = Height(vs) /\ Len(us) <= Len(vs)
        /\ Rises(vs) => Rises(us)
        /\ Live(vs) => Live(us)
    BY <1>2
  <2>6. Height(vs) \in Int
    BY TokDepthStep
  <2>7. Dead(t) => Weight(t) = 0
    BY DeadWeight
  <2> HIDE DEF ws, us, xs, y, Rises, Live, Height
  <2>8. /\ Height(y) = Height(ws)
        /\ Rises(ws) => Rises(y)
        /\ Live(ws) => Live(y)
        /\ Len(y) <= Len(ws)
    <3>1. CASE Dead(t)
      BY <3>1, <2>1, <2>2, <2>3, <2>5, <2>6, <2>7
    <3>2. CASE ~Dead(t)
      BY <3>2, <2>1, <2>2, <2>3, <2>4, <2>5
    <3> QED
      BY <3>1, <3>2
  <2> QED
    BY <2>1, <2>8 DEF ws, y
<1>3. Seq(Token) \subseteq T
  <2> HIDE DEF T
  <2> QED
    BY <1>1, <1>2, SeqInduction
<1> QED
  BY <1>3

\* What compact_vector leaves in the memory of a vector.
LEMMA Slid ==
  ASSUME NEW m \in Seq(Token), NEW n \in 0 .. Len(m), NEW us \in Seq(Token), Len(us) <= n
  PROVE  LET w == us \o SubSeq(m, Len(us) + 1, Len(m))
         IN  /\ w \in Seq(Token) /\ Len(w) = Len(m)
             /\ \A k \in 1 .. Len(us) : w[k] = us[k]
<1> DEFINE a == Len(us) + 1
           b == Len(m)
           v == SubSeq(m, a, b)
<1>1. a \in Nat /\ a >= 1 /\ b \in Nat /\ Len(us) \in Nat /\ Len(us) <= b /\ a = Len(us) + 1
  OBVIOUS
<1>2. v \in Seq(Token) /\ Len(v) = b - Len(us)
  <2>1. \A k \in a .. b : m[k] \in Token
    BY <1>1
  <2>2. v \in Seq(Token) /\ Len(v) = IF a <= b THEN b - a + 1 ELSE 0
    <3>1. a \in Int /\ b \in Int
      BY <1>1
    <3> HIDE DEF a, b
    <3> QED
      BY <3>1, <2>1, SubSeqProperties
  <2> QED
    BY <1>1, <2>2
<1> HIDE DEF v
<1>3. us \o v \in Seq(Token) /\ Len(us \o v) = Len(us) + Len(v)
      /\ \A k \in 1 .. Len(us) : (us \o v)[k] = us[k]
  BY <1>2, ConcatProperties
<1> QED
  BY <1>1, <1>2, <1>3 DEF v, a, b

LEMMA SoundPrefix ==
  ASSUME NEW m, NEW n, Sound(m, n)
  PROVE  LET ts == SubSeq(m, 1, n)
         IN  /\ ts \in Seq(Token) /\ Len(ts) = n /\ n \in Nat
             /\ \A k \in 1 .. n : ts[k] = m[k]
             /\ \A k \in 1 .. n : TokDepth(ts, k) >= 0
             /\ TokDepth(ts, n) = 0
             /\ \A k \in 1 .. n : ts[k].op \in {"[", "]"} => ts[k].len > 0
<1> DEFINE ts == SubSeq(m, 1, n)
<1>0. m \in Seq(Token) /\ n \in 0 .. Len(m) /\ n \in Nat /\ n <= Len(m)
  BY DEF Sound
<1>1. ts \in Seq(Token) /\ Len(ts) = n /\ \A k \in 1 .. n : ts[k] = m[k]
  BY <1>0, Prefix
<1> HIDE DEF ts
<1>2. \A k \in 0 .. n : TokDepth(ts, k) = TokDepth(m, k)
  <2>1. n <= Len(ts)
    BY <1>0, <1>1
  <2> QED
    BY <1>0, <1>1, <2>1, TokDepthPrefix
<1>3. n \in 0 .. n /\ \A k \in 1 .. n : k \in 0 .. n
  BY <1>0
<1> QED
  BY <1>0, <1>1, <1>2, <1>3 DEF Sound, ts

LEMMA CompactedSound ==
  ASSUME NEW m, Sound(m, size), Compacted(m)
  PROVE  Sound(slots', size') /\ Len(slots') = Len(m) /\ size' <= size
<1> DEFINE ts == SubSeq(m, 1, size)
           us == Living(ts)
<1>0. m \in Seq(Token) /\ size \in 0 .. Len(m)
  BY DEF Sound
<1>1. /\ ts \in Seq(Token) /\ Len(ts) = size /\ size \in Nat
      /\ \A k \in 1 .. size : TokDepth(ts, k) >= 0
      /\ TokDepth(ts, size) = 0
      /\ \A k \in 1 .. size : ts[k].op \in {"[", "]"} => ts[k].len > 0
  BY SoundPrefix
<1> HIDE DEF ts
<1>2. us \in Seq(Token)
  BY <1>1, LivingType
<1>3. /\ TokDepth(us, Len(us)) = 0
      /\ \A k \in 1 .. Len(us) : TokDepth(us, k) >= 0
      /\ \A k \in 1 .. Len(us) : us[k].op \in {"[", "]"} => us[k].len > 0
      /\ Len(us) <= size
  BY <1>1, LivingSound
<1>4. slots' = us \o SubSeq(m, Len(us) + 1, Len(m)) /\ size' = Len(us)
  BY DEF Compacted, ts
<1> HIDE DEF us
<1>5. /\ slots' \in Seq(Token) /\ Len(slots') = Len(m)
      /\ \A k \in 1 .. Len(us) : slots'[k] = us[k]
  BY <1>0, <1>2, <1>3, <1>4, Slid
<1>6. size' \in 0 .. Len(slots') /\ size' \in Nat /\ size' <= Len(us)
  BY <1>0, <1>2, <1>3, <1>4, <1>5
<1>7. \A k \in 0 .. Len(us) : TokDepth(slots', k) = TokDepth(us, k)
  <2>1. Len(us) \in Nat /\ Len(us) <= Len(slots') /\ Len(us) <= Len(us)
    BY <1>4, <1>6
  <2> DEFINE w == slots'
             n == Len(us)
  <2>2. w \in Seq(Token) /\ n \in Nat /\ n <= Len(w) /\ n <= Len(us) /\ \A k \in 1 .. n : w[k] = us[k]
    BY <1>5, <2>1
  <2> HIDE DEF w, n
  <2>3. \A k \in 0 .. n : TokDepth(w, k) = TokDepth(us, k)
    BY ONLY <1>2, <2>2, TokDepthPrefix
  <2> QED
    BY <2>3 DEF w, n
<1>8. size' \in 0 .. size' /\ \A k \in 1 .. size' : k \in 0 .. size'
  BY <1>6
<1> QED
  BY <1>3, <1>4, <1>5, <1>6, <1>7, <1>8 DEF Sound

-----------------------------------------------------------------------------
(* The invariant.                                                          *)

IInv ==
  /\ TypeOK
  /\ Sound(slots, size)
  /\ ~stray

LEMMA InitIInv == Init => IInv
<1> SUFFICES ASSUME Init PROVE IInv
  OBVIOUS
<1> DEFINE g == [k \in 1 .. Slack |-> Garbage]
<1>1. /\ input \in Seq(Token) /\ TokBalanced(input)
      /\ \A k \in 1 .. Len(input) : input[k].len > 0 \/ input[k].op \in {">", "<"}
  BY ProgramsAssumption DEF Init
<1>2. g \in Seq(Token) /\ Len(g) = Slack
  BY SlackAssumption, GarbageType
<1>3. slots = input \o g /\ size = Len(input)
  BY DEF Init
<1> HIDE DEF g
<1>4. slots \in Seq(Token) /\ Len(slots) = Len(input) + Slack
      /\ \A k \in 1 .. size : slots[k] = input[k]
  <2> DEFINE v == input
             w == v \o g
  <2>1. v \in Seq(Token)
    BY <1>1
  <2> HIDE DEF v
  <2>2. w \in Seq(Token) /\ Len(w) = Len(v) + Len(g) /\ \A k \in 1 .. Len(v) : w[k] = v[k]
    <3>1. v \in Seq(Token) /\ g \in Seq(Token)
      BY <1>2, <2>1
    <3>2. v \o g \in Seq(Token) /\ Len(v \o g) = Len(v) + Len(g)
          /\ \A k \in 1 .. Len(v) : (v \o g)[k] = v[k]
      BY ONLY <3>1, ConcatProperties
    <3> QED
      BY <3>2
  <2> QED
    BY <1>2, <1>3, <2>2 DEF v
<1>5. size \in Nat /\ size <= Len(slots) /\ size <= Len(input) /\ size \in 0 .. Len(slots)
  BY <1>1, <1>3, <1>4, SlackAssumption
<1>6. \A k \in 0 .. size : TokDepth(slots, k) = TokDepth(input, k)
  <2> DEFINE w == slots
             n == size
             v == input
  <2>1. w \in Seq(Token) /\ v \in Seq(Token) /\ n \in Nat /\ n <= Len(w) /\ n <= Len(v)
        /\ \A k \in 1 .. n : w[k] = v[k]
    BY <1>1, <1>4, <1>5
  <2> HIDE DEF w, n, v
  <2>2. \A k \in 0 .. n : TokDepth(w, k) = TokDepth(v, k)
    BY ONLY <2>1, TokDepthPrefix
  <2> QED
    BY <2>2 DEF w, n, v
<1>7. Sound(slots, size)
  <2>1. \A k \in 1 .. size : slots[k].op \in {"[", "]"} => slots[k].len > 0
    BY <1>1, <1>3, <1>4
  <2>2. size \in 0 .. size /\ \A k \in 1 .. size : k \in 0 .. size
    BY <1>5
  <2> QED
    BY <1>1, <1>3, <1>4, <1>5, <1>6, <2>1, <2>2 DEF Sound, TokBalanced
<1>8. TypeOK
  <2>1. level \in Nat /\ level \in Levels /\ pass = 0 /\ i = 0 /\ stray \in BOOLEAN /\ pc = "optimize"
    BY LevelsAssumption DEF Init
  <2>2. pass \in 0 .. level /\ i \in 0 .. Len(input)
    BY <1>3, <1>5, <2>1
  <2>3. size \in 0 .. Len(input)
    BY <1>5
  <2> QED
    BY <1>1, <1>4, <2>1, <2>2, <2>3 DEF TypeOK
<1> QED
  BY <1>7, <1>8 DEF IInv, Init

\* One visit of the loop: a rewrite that keeps the brackets, then the vector is
\* compacted and the index advances.
LEMMA VisitIInv ==
  ASSUME IInv, Visiting, NEW m, Sound(m, size), Len(m) = Len(slots),
         Compacted(m), stray' = FALSE, i' = i + 1, UNCHANGED <<input, level, pass, pc>>
  PROVE  IInv'
<1>1. Sound(slots', size') /\ Len(slots') = Len(m) /\ size' <= size
  BY CompactedSound
<1>2. /\ input \in Seq(Token) /\ level \in Levels
      /\ Len(slots) = Len(input) + Slack
      /\ size \in 0 .. Len(input)
      /\ pass \in 0 .. level /\ i \in 0 .. Len(input)
      /\ pc \in {"optimize", "done"} /\ stray = FALSE
  BY DEF IInv, TypeOK
<1>3. slots' \in Seq(Token) /\ size' \in 0 .. Len(slots')
  BY <1>1 DEF Sound
<1>4. size' \in 0 .. Len(input)
  BY <1>1, <1>2, <1>3
<1>5. i' \in 0 .. Len(input)
  <2>1. i < size
    BY DEF Visiting
  <2> QED
    BY <1>2, <2>1
<1>6. Len(slots') = Len(input) + Slack
  BY <1>1, <1>2
<1>7. TypeOK'
  BY <1>2, <1>3, <1>4, <1>5, <1>6 DEF TypeOK
<1> QED
  BY <1>1, <1>7 DEF IInv

LEMMA StepIInv == IInv /\ [Next]_vars => IInv'
<1> SUFFICES ASSUME IInv, [Next]_vars PROVE IInv'
  OBVIOUS
<1>1. /\ input \in Seq(Token) /\ level \in Levels /\ level \in Nat
      /\ slots \in Seq(Token) /\ Len(slots) = Len(input) + Slack
      /\ size \in 0 .. Len(input) /\ size \in Nat
      /\ pass \in 0 .. level /\ i \in 0 .. Len(input) /\ i \in Nat
      /\ pc \in {"optimize", "done"} /\ stray = FALSE /\ Sound(slots, size)
  BY LevelsAssumption DEF IInv, TypeOK
<1>2. Visiting => i + 1 \in 1 .. size /\ i + 1 \in 0 .. Len(input)
  BY <1>1 DEF Visiting
<1>3. CASE SkipDead
  <2>1. UNCHANGED <<input, level, slots, size, pass, stray, pc>> /\ i' \in 0 .. Len(input)
    BY <1>2, <1>3 DEF SkipDead
  <2>2. Sound(slots', size') <=> Sound(slots, size)
    BY <2>1
  <2> QED
    BY <1>1, <2>1, <2>2 DEF IInv, TypeOK
<1>4. CASE VisitLoop
  <2> DEFINE l == i + 1
             m == OpenLoop(slots, l)
             z == ZeroLoop(slots, l)
             v == MoveLoop(z, l)
  <2>1. Visiting /\ i' = i + 1 /\ UNCHANGED <<input, level, pass, pc>> /\ Compacted(m)
        /\ stray' = (stray \/ (i + 6 <= size /\ ReadsPast(v, l)))
    BY <1>4 DEF VisitLoop
  <2>2. l \in 1 .. size
    BY <1>2, <2>1
  <2>3. i + 6 <= size => l + 1 <= size /\ l + 2 <= size /\ l + 5 <= size
    BY <1>1
  <2> HIDE DEF l
  <2>4. Sound(m, size) /\ Len(m) = Len(slots)
    BY <1>1, <2>2, OpenLoopSound
  <2>5. i + 6 <= size => Sound(z, size)
    BY <1>1, <2>2, <2>3, ZeroLoopSound
  <2>6. i + 6 <= size => Sound(v, size)
    <3> HIDE DEF z
    <3> QED
      BY <1>1, <2>2, <2>3, <2>5, MoveLoopSound
  <2>7. i + 6 <= size => ~ReadsPast(v, l)
    <3> HIDE DEF v
    <3> QED
      BY <1>1, <2>2, <2>3, <2>6, NothingPast
  <2>8. stray' = FALSE
    BY <1>1, <2>1, <2>7
  <2> HIDE DEF m
  <2> QED
    BY <2>1, <2>4, <2>8, VisitIInv
<1>5. CASE VisitZero
  <2> DEFINE l == i + 1
             m == FoldZero(slots, l)
  <2>1. Visiting /\ i' = i + 1 /\ UNCHANGED <<input, level, pass, pc>> /\ Compacted(m)
        /\ stray' = stray /\ slots[l].op = "Z"
    BY <1>5 DEF VisitZero, cur
  <2>2. l \in 1 .. size
    BY <1>2, <2>1
  <2> HIDE DEF l
  <2>4. Sound(m, size) /\ Len(m) = Len(slots)
    BY <1>1, <2>1, <2>2, FoldZeroSound
  <2>8. stray' = FALSE
    BY <1>1, <2>1
  <2> HIDE DEF m
  <2> QED
    BY <2>1, <2>4, <2>8, VisitIInv
<1>6. CASE VisitOther
  <2>1. Visiting /\ i' = i + 1 /\ UNCHANGED <<input, level, pass, pc>> /\ Compacted(slots)
        /\ stray' = FALSE
    BY <1>1, <1>6 DEF VisitOther
  <2> QED
    BY <1>1, <2>1, VisitIInv
<1>7. CASE EndPass
  <2>1. UNCHANGED <<input, level, slots, size, stray, pc>> /\ i' \in 0 .. Len(input)
        /\ pass' \in 0 .. level
    BY <1>1, <1>7 DEF EndPass
  <2>2. Sound(slots', size') <=> Sound(slots, size)
    BY <2>1
  <2> QED
    BY <1>1, <2>1, <2>2 DEF IInv, TypeOK
<1>8. CASE Finish
  <2>1. UNCHANGED <<input, level, slots, size, pass, i, stray>> /\ pc' = "done"
    BY <1>8 DEF Finish
  <2>2. Sound(slots', size') <=> Sound(slots, size)
    BY <2>1
  <2> QED
    BY <1>1, <2>1, <2>2 DEF IInv, TypeOK
<1>9. CASE Stop \/ UNCHANGED vars
  <2>1. UNCHANGED vars
    BY <1>9 DEF Stop
  <2>2. UNCHANGED <<input, level, slots, size, pass, i, stray, pc>>
    BY <2>1 DEF vars
  <2>3. Sound(slots', size') <=> Sound(slots, size)
    BY <2>2
  <2> QED
    BY <1>1, <2>2, <2>3 DEF IInv, TypeOK
<1> QED
  BY <1>3, <1>4, <1>5, <1>6, <1>7, <1>8, <1>9 DEF Next

LEMMA Invariance == Spec => []IInv
  BY InitIInv, StepIInv, PTL DEF Spec

\* The types of optimize's locals and of the vector, for every vector lex may
\* return: its size never grows, and the index stays inside what lex wrote.
THEOREM TypeCorrect == Spec => []TypeOK
<1>1. IInv => TypeOK
  BY DEF IInv
<1> QED
  BY <1>1, Invariance, PTL

\* The brackets match at every moment of every pass: each of the four rewrites
\* peels one bracket off each end of a run, or drops two equal runs, and what
\* compact_vector drops opens and closes nothing (optm.c:18-38, 62-72, 98-105,
\* 125-139).
THEOREM BracketsStayMatched == Spec => []DepthKept
<1>1. IInv => DepthKept
  <2> SUFFICES ASSUME IInv PROVE TokBalanced(out)
    BY DEF DepthKept
  <2>1. /\ Len(out) = size
        /\ \A k \in 1 .. size : TokDepth(out, k) >= 0
        /\ TokDepth(out, size) = 0
    BY SoundPrefix DEF IInv, out
  <2> QED
    BY <2>1 DEF TokBalanced
<1> QED
  BY <1>1, Invariance, PTL

\* The pattern matcher forms a pointer to the slot past the vector, and never
\* acts on what it finds there: a way back at the end of the vector would leave
\* the bracket before it open (optm.c:92-95, lv_vec_get.c:17).
THEOREM NothingReadPastTheEnd == Spec => []~stray
<1>1. IInv => ~stray
  BY DEF IInv
<1> QED
  BY <1>1, Invariance, PTL

-----------------------------------------------------------------------------
(* Collapsing nested zeroing loops, and what two readings have in common.  *)

LEMMA AddLoopType ==
  ASSUME NEW a \in Seq(Ops), NEW c \in Ops
  PROVE  AddLoop(a, c) \in Seq(Ops)
<1>1. CASE EndsNested(a)
  <2>1. Len(a) - 4 \in 0 .. Len(a)
    BY <1>1 DEF EndsNested
  <2>2. SubSeq(a, 1, Len(a) - 4) \in Seq(Ops)
    BY <2>1, Prefix
  <2>3. Tail(Nested) \in Seq(Ops)
    <3>1. "[" \in Ops /\ "-" \in Ops /\ "]" \in Ops
      BY DEF Ops, CoreOps
    <3>2. Tail(Nested) = <<"[", "-", "]">>
      BY DEF Nested
    <3>3. <<"[", "-", "]">> \in Seq(Ops)
      BY <3>1
    <3> QED
      BY ONLY <3>2, <3>3
  <2>4. SubSeq(a, 1, Len(a) - 4) \o Tail(Nested) \in Seq(Ops)
    BY <2>2, <2>3, ConcatProperties
  <2>5. Append(a, c) \in Seq(Ops)
    OBVIOUS
  <2> QED
    BY <2>4, <2>5 DEF AddLoop
<1>2. CASE ~EndsNested(a)
  <2>1. AddLoop(a, c) = Append(a, c)
    BY <1>2 DEF AddLoop
  <2> QED
    BY <2>1
<1> QED
  BY <1>1, <1>2

LEMMA CollapseIterates ==
  ASSUME NEW s \in Seq(Ops)
  PROVE  \E f \in [0 .. Len(s) -> Seq(Ops)] :
           /\ f[0] = <<>>
           /\ \A k \in 1 .. Len(s) : f[k] = AddLoop(f[k - 1], s[k])
           /\ CollapseZeroing(s) = f[Len(s)]
<1> DEFINE step == [k \in 1 .. Len(s) |-> [a \in Seq(Ops) |-> AddLoop(a, s[k])]]
           Solves(g) == g = [n \in 0 .. Len(s) |-> IF n = 0 THEN <<>> ELSE AddLoop(g[n - 1], s[n])]
           D == CHOOSE g : Solves(g)
<1>1. \A k \in 1 .. Len(s) : \A a \in Seq(Ops) : step[k][a] = AddLoop(a, s[k])
  OBVIOUS
<1>2. \A k \in 1 .. Len(s) : \A a \in Seq(Ops) : step[k][a] \in Seq(Ops)
  <2> SUFFICES ASSUME NEW k \in 1 .. Len(s), NEW a \in Seq(Ops) PROVE step[k][a] \in Seq(Ops)
    OBVIOUS
  <2>1. s[k] \in Ops
    OBVIOUS
  <2>2. AddLoop(a, s[k]) \in Seq(Ops)
    BY <2>1, AddLoopType
  <2> QED
    BY <1>1, <2>2
<1>0. <<>> \in Seq(Ops) /\ Len(s) \in Nat
  OBVIOUS
<1> HIDE DEF step
<1>3. PICK f \in [0 .. Len(s) -> Seq(Ops)] : Iterates(f, <<>>, step, Len(s))
  BY <1>0, <1>2, Iteration
<1>4. \A k \in 1 .. Len(s) : f[k] = AddLoop(f[k - 1], s[k])
  <2> SUFFICES ASSUME NEW k \in 1 .. Len(s) PROVE f[k] = AddLoop(f[k - 1], s[k])
    OBVIOUS
  <2>1. k - 1 \in 0 .. Len(s)
    OBVIOUS
  <2>2. f[k - 1] \in Seq(Ops)
    BY <2>1
  <2>3. f[k] = step[k][f[k - 1]]
    BY <1>3 DEF Iterates
  <2> QED
    BY <2>2, <2>3, <1>1
<1>5. f[0] = <<>>
  BY <1>3 DEF Iterates
<1>6. Solves(f)
  <2>1. \A n \in 0 .. Len(s) : f[n] = IF n = 0 THEN <<>> ELSE AddLoop(f[n - 1], s[n])
    BY <1>4, <1>5
  <2> QED
    BY <2>1
<1>7. Solves(D)
  BY <1>6
<1>8. D[0] = <<>> /\ \A k \in 1 .. Len(s) : D[k] = AddLoop(D[k - 1], s[k])
  <2> HIDE DEF D
  <2> QED
    BY <1>7, <1>0
<1>9. CollapseZeroing(s) = D[Len(s)]
  BY DEF CollapseZeroing
<1> HIDE DEF D
<1>10. \A k \in 0 .. Len(s) : f[k] = D[k]
  <2>1. StepsAlike(f, D, Len(s))
    BY <1>4, <1>8 DEF StepsAlike
  <2>2. f[0] = D[0] /\ Len(s) \in Nat
    BY <1>0, <1>5, <1>8
  <2> QED
    BY ONLY <2>1, <2>2, IterationUnique, Zenon
<1> QED
  BY <1>0, <1>4, <1>5, <1>9, <1>10

LEMMA CollapseType ==
  ASSUME NEW s \in Seq(Ops)
  PROVE  CollapseZeroing(s) \in Seq(Ops)
<1> QED
  BY CollapseIterates

LEMMA CollapseEmpty == CollapseZeroing(<<>>) = <<>>
<1>1. <<>> \in Seq(Ops) /\ Len(<<>>) = 0
  OBVIOUS
<1> QED
  BY <1>1, CollapseIterates

LEMMA CollapseAppend ==
  ASSUME NEW s \in Seq(Ops), NEW c \in Ops
  PROVE  CollapseZeroing(Append(s, c)) = AddLoop(CollapseZeroing(s), c)
<1> DEFINE t == Append(s, c)
<1>1. t \in Seq(Ops) /\ Len(t) = Len(s) + 1 /\ t[Len(s) + 1] = c
      /\ \A k \in 1 .. Len(s) : t[k] = s[k]
  BY AppendProperties
<1> HIDE DEF t
<1>2. PICK f \in [0 .. Len(s) -> Seq(Ops)] :
        /\ f[0] = <<>>
        /\ \A k \in 1 .. Len(s) : f[k] = AddLoop(f[k - 1], s[k])
        /\ CollapseZeroing(s) = f[Len(s)]
  BY CollapseIterates
<1>3. PICK g \in [0 .. Len(t) -> Seq(Ops)] :
        /\ g[0] = <<>>
        /\ \A k \in 1 .. Len(t) : g[k] = AddLoop(g[k - 1], t[k])
        /\ CollapseZeroing(t) = g[Len(t)]
  BY <1>1, CollapseIterates
<1>4. f[Len(s)] = g[Len(s)]
  <2>1. StepsAlike(f, g, Len(s))
    BY <1>1, <1>2, <1>3 DEF StepsAlike
  <2>2. f[0] = g[0] /\ Len(s) \in Nat
    BY <1>2, <1>3
  <2>3. \A k \in 0 .. Len(s) : f[k] = g[k]
    BY ONLY <2>1, <2>2, IterationUnique, Zenon
  <2> QED
    BY <2>2, <2>3
<1>5. g[Len(t)] = AddLoop(g[Len(s)], c)
  <2>1. Len(t) \in 1 .. Len(t) /\ Len(t) - 1 = Len(s)
    BY <1>1
  <2> QED
    BY <2>1, <1>1, <1>3
<1> QED
  BY <1>2, <1>3, <1>4, <1>5 DEF t

LEMMA CollapseCongruent ==
  ASSUME NEW p \in Seq(Ops), NEW q \in Seq(Ops), CollapseZeroing(p) = CollapseZeroing(q)
  PROVE  \A u \in Seq(Ops) : CollapseZeroing(p \o u) = CollapseZeroing(q \o u)
<1> DEFINE T == {u \in Seq(Ops) : CollapseZeroing(p \o u) = CollapseZeroing(q \o u)}
<1>1. <<>> \in T
  BY ConcatEmptySeq
<1>2. ASSUME NEW u \in Seq(Ops), u \in T, NEW e \in Ops PROVE Append(u, e) \in T
  <2>1. /\ p \o Append(u, e) = Append(p \o u, e) /\ p \o u \in Seq(Ops)
        /\ q \o Append(u, e) = Append(q \o u, e) /\ q \o u \in Seq(Ops)
        /\ Append(u, e) \in Seq(Ops)
    BY ConcatAppend
  <2>2. CollapseZeroing(p \o u) = CollapseZeroing(q \o u)
    BY <1>2
  <2>3. /\ CollapseZeroing(Append(p \o u, e)) = AddLoop(CollapseZeroing(p \o u), e)
        /\ CollapseZeroing(Append(q \o u, e)) = AddLoop(CollapseZeroing(q \o u), e)
    BY <2>1, CollapseAppend
  <2> QED
    BY <2>1, <2>2, <2>3
<1>3. Seq(Ops) \subseteq T
  <2> HIDE DEF T
  <2> QED
    BY <1>1, <1>2, SeqInduction
<1> QED
  BY <1>3

\* A text that reduces to something that ends in a closing bracket is reduced
\* apart from whatever follows it.
LEMMA ReduceApart ==
  ASSUME NEW s \in Seq(Ops), NEW p \in Seq(Ops), Reduce(s) = Append(p, "]")
  PROVE  \A u \in Seq(Ops) : Reduce(s \o u) = Append(p, "]") \o Reduce(u)
<1> DEFINE r == Append(p, "]")
           T == {u \in Seq(Ops) : Reduce(s \o u) = r \o Reduce(u)}
<1>0. "]" \in Ops /\ r \in Seq(Ops)
  <2>1. "]" \in Ops
    BY DEF Ops, CoreOps
  <2> QED
    BY <2>1, AppendProperties
<1>r. Last(r) = "]" /\ r # <<>>
  BY <1>0, FrontAppend
<1>s. Reduce(s) = r
  OBVIOUS
<1> HIDE DEF r
<1>1. <<>> \in T
  <2>1. s \o <<>> = s /\ r \o <<>> = r
    BY <1>0, ConcatEmptySeq
  <2> QED
    BY <2>1, <1>s, ReduceEmpty
<1>2. ASSUME NEW u \in Seq(Ops), u \in T, NEW c \in Ops PROVE Append(u, c) \in T
  <2> DEFINE v == Reduce(u)
  <2>1. s \o Append(u, c) = Append(s \o u, c) /\ s \o u \in Seq(Ops) /\ Append(u, c) \in Seq(Ops)
    BY ConcatAppend
  <2>2. Reduce(s \o u) = r \o v /\ v \in Seq(Ops)
    BY <1>2, ReduceType
  <2>3. Reduce(Append(s \o u, c)) = AddChar(r \o v, c)
    BY <2>1, <2>2, ReduceAppend
  <2>4. Reduce(Append(u, c)) = AddChar(v, c)
    BY ReduceAppend
  <2> HIDE DEF v
  <2>5. AddChar(r \o v, c) = r \o AddChar(v, c)
    <3>1. CASE v = <<>>
      <4>1. r \o v = r /\ AddChar(v, c) = Append(v, c)
        BY <3>1, <1>0, ConcatEmptySeq DEF AddChar
      <4>2. <<"]", c>> \notin Cancelling
        BY DEF Cancelling
      <4>3. AddChar(r, c) = Append(r, c)
        BY <4>2, <1>r DEF AddChar
      <4>4. r \o Append(v, c) = Append(r \o v, c)
        BY <1>0, <2>2, ConcatAppend
      <4> QED
        BY <4>1, <4>3, <4>4
    <3>2. CASE v # <<>>
      <4> DEFINE f == Front(v)
                 e == Last(v)
                 x == r \o f
      <4>1. f \in Seq(Ops) /\ e \in Ops /\ Append(f, e) = v
        BY <3>2, <2>2, FrontProperties
      <4> HIDE DEF f, e
      <4>2. r \o Append(f, e) = Append(x, e) /\ x \in Seq(Ops)
        <5>1. r \in Seq(Ops) /\ f \in Seq(Ops) /\ e \in Ops
          BY <4>1, <1>0
        <5>2. r \o Append(f, e) = Append(r \o f, e) /\ r \o f \in Seq(Ops)
          BY ONLY <5>1, ConcatAppend
        <5> QED
          BY <5>2
      <4>3. r \o v = Append(x, e)
        BY <4>1, <4>2
      <4> HIDE DEF x
      <4>4. Front(r \o v) = x /\ Last(r \o v) = e /\ r \o v # <<>>
        BY <4>1, <4>2, <4>3, FrontAppend
      <4>5. CASE <<e, c>> \in Cancelling
        <5>1. AddChar(v, c) = f /\ AddChar(r \o v, c) = x
          BY <4>4, <4>5, <3>2 DEF AddChar, e, f
        <5> QED
          BY <5>1 DEF x
      <4>6. CASE <<e, c>> \notin Cancelling
        <5>1. AddChar(v, c) = Append(v, c) /\ AddChar(r \o v, c) = Append(r \o v, c)
          BY <4>4, <4>6 DEF AddChar, e
        <5>2. r \o Append(v, c) = Append(r \o v, c)
          BY ONLY <1>0, <2>2, c \in Ops, ConcatAppend
        <5> QED
          BY <5>1, <5>2
      <4> QED
        BY <4>5, <4>6
    <3> QED
      BY <3>1, <3>2
  <2> QED
    BY <2>1, <2>3, <2>4, <2>5 DEF v
<1>3. Seq(Ops) \subseteq T
  <2> HIDE DEF T
  <2> QED
    BY <1>1, <1>2, SeqInduction
<1> QED
  BY <1>3, <1>s DEF r

-----------------------------------------------------------------------------
LEMMA OpsNeeded ==
  /\ \A c \in {"[", "]", "-", "+", ">", "<"} : c \in Ops
  /\ ZL \in Seq(Ops) /\ Len(ZL) = 3 /\ Nested \in Seq(Ops) /\ Len(Nested) = 4 /\ Tail(Nested) = ZL
  /\ ZL[1] = "[" /\ ZL[2] = "-" /\ ZL[3] = "]"
<1>1. \A c \in {"[", "]", "-", "+", ">", "<"} : c \in Ops
  BY DEF Ops, CoreOps
<1>2. ZL \in Seq(Ops) /\ Len(ZL) = 3 /\ ZL[1] = "[" /\ ZL[2] = "-" /\ ZL[3] = "]"
  BY <1>1 DEF ZL
<1>3. Nested \in Seq(Ops) /\ Len(Nested) = 4
  BY <1>1 DEF Nested
<1>4. Tail(Nested) = ZL
  BY DEF Nested, ZL
<1> QED
  BY <1>1, <1>2, <1>3, <1>4

LEMMA LoopAppend ==
  ASSUME NEW v \in Seq(Ops)
  PROVE  /\ Append(Append(Append(v, "["), "-"), "]") = v \o ZL
         /\ Append(v, "[") \o ZL = v \o Nested
         /\ v \o ZL \in Seq(Ops) /\ v \o Nested \in Seq(Ops)
<1>0. "[" \in Ops /\ "-" \in Ops /\ "]" \in Ops
  BY OpsNeeded
<1>1. \A w \in Seq(Ops) : w \o ZL = Append(Append(Append(w, "["), "-"), "]")
  BY <1>0, ConcatTuple DEF ZL
<1>2. v \o Nested = Append(Append(Append(Append(v, "["), "["), "-"), "]")
  BY <1>0, ConcatTuple DEF Nested
<1>3. Append(v, "[") \in Seq(Ops)
  BY <1>0, ConcatTuple
<1>4. v \o ZL \in Seq(Ops) /\ v \o Nested \in Seq(Ops)
  BY OpsNeeded, ConcatProperties
<1> QED
  BY <1>1, <1>2, <1>3, <1>4

\* Another bracket closed around [-].
LEMMA NestedLoop ==
  ASSUME NEW v \in Seq(Ops)
  PROVE  AddLoop(v \o Nested, "]") = v \o ZL
<1> DEFINE a == v \o Nested
           n == Len(v)
           m == n + 4
           l == n + 1
<1>1. a \in Seq(Ops) /\ Len(a) = m /\ n \in Nat
      /\ (\A k \in 1 .. n : a[k] = v[k]) /\ (\A k \in 1 .. 4 : a[n + k] = Nested[k])
  <2>1. Nested \in Seq(Ops) /\ Len(Nested) = 4
    BY OpsNeeded
  <2>2. /\ a \in Seq(Ops) /\ Len(a) = Len(v) + Len(Nested)
        /\ \A k \in 1 .. Len(v) + Len(Nested) : a[k] = IF k <= Len(v) THEN v[k] ELSE Nested[k - Len(v)]
    BY <2>1, ConcatProperties
  <2>3. n \in Nat
    OBVIOUS
  <2> HIDE DEF a
  <2>4. \A k \in 1 .. 4 : n + k \in 1 .. n + 4 /\ ~(n + k <= n) /\ (n + k) - n = k
    BY <2>3
  <2> QED
    BY <2>1, <2>2, <2>3, <2>4
<1> HIDE DEF a
<1>2. SubSeq(a, l, m) = Nested
  <2> DEFINE b == SubSeq(a, l, m)
  <2>1. l \in Int /\ m \in Int /\ l <= m /\ m - l + 1 = 4 /\ \A k \in l .. m : a[k] \in Ops
    BY <1>1
  <2>2. /\ b \in Seq(Ops) /\ Len(b) = IF l <= m THEN m - l + 1 ELSE 0
        /\ \A k \in 1 .. m - l + 1 : b[k] = a[l + k - 1]
    <3> HIDE DEF l, m
    <3> QED
      BY <2>1, SubSeqProperties
  <2>3. \A k \in 1 .. 4 : l + k - 1 = n + k
    BY <1>1
  <2> HIDE DEF b, l, m
  <2>4. b \in Seq(Ops) /\ Len(b) = 4 /\ \A k \in 1 .. 4 : b[k] = Nested[k]
    BY <2>1, <2>2, <2>3, <1>1
  <2>5. b = Nested
    <3>1. Nested \in Seq(Ops) /\ Len(Nested) = 4
      BY OpsNeeded
    <3> QED
      BY ONLY <2>4, <3>1, SeqEqual
  <2> QED
    BY <2>5 DEF b
<1>3. SubSeq(a, 1, n) = v
  <2>1. n \in 0 .. Len(a)
    BY <1>1
  <2> DEFINE b == SubSeq(a, 1, n)
  <2>2. b \in Seq(Ops) /\ Len(b) = n /\ \A k \in 1 .. n : b[k] = a[k]
    BY <1>1, <2>1, Prefix
  <2> HIDE DEF b
  <2>3. b = v
    <3>1. Len(b) = Len(v) /\ \A k \in 1 .. Len(b) : b[k] = v[k]
      BY <2>2, <1>1
    <3> QED
      BY <2>2, <3>1, SeqEqual
  <2> QED
    BY <2>3 DEF b
<1>4. Len(a) - 3 = l /\ Len(a) - 4 = n /\ Len(a) >= 4
  BY <1>1
<1>5. EndsNested(a)
  BY <1>1, <1>2, <1>4 DEF EndsNested
<1>6. AddLoop(a, "]") = SubSeq(a, 1, n) \o Tail(Nested)
  BY <1>4, <1>5 DEF AddLoop
<1> QED
  BY <1>3, <1>6, OpsNeeded DEF a

\* After a decrement there is no loop to collapse.
LEMMA FirstClose ==
  ASSUME NEW v \in Seq(Ops)
  PROVE  AddLoop(Append(v, "-"), "]") = Append(Append(v, "-"), "]")
<1> DEFINE a == Append(v, "-")
<1>0. "-" \in Ops /\ a \in Seq(Ops) /\ a[Len(a)] = "-" /\ Len(a) \in Nat
  <2>1. "-" \in Ops
    BY OpsNeeded
  <2> QED
    BY <2>1, AppendProperties
<1> HIDE DEF a
<1>1. ~EndsNested(a)
  <2> SUFFICES ASSUME EndsNested(a) PROVE FALSE
    OBVIOUS
  <2> DEFINE m == Len(a)
             l == m - 3
             b == SubSeq(a, l, m)
  <2>1. m >= 4 /\ b = Nested /\ m \in Nat
    BY <1>0 DEF EndsNested
  <2>2. l \in Int /\ m \in Int /\ l <= m /\ m - l + 1 = 4 /\ l + 4 - 1 = m /\ \A k \in l .. m : a[k] \in Ops
    BY <1>0, <2>1
  <2>3. \A k \in 1 .. m - l + 1 : b[k] = a[l + k - 1]
    <3> HIDE DEF l, m
    <3> QED
      BY <2>2, SubSeqProperties
  <2>4. b[4] = a[m]
    <3>1. 4 \in 1 .. m - l + 1
      BY <2>2
    <3> QED
      BY <3>1, <2>2, <2>3
  <2>5. Nested[4] = "]"
    BY DEF Nested
  <2> QED
    BY <1>0, <2>1, <2>4, <2>5
<1> QED
  BY <1>1 DEF AddLoop, a

-----------------------------------------------------------------------------
\* Opening brackets cancel nothing.
LEMMA ReduceOpens ==
  ASSUME NEW x \in Seq(Ops)
  PROVE  \A n \in Nat : Reduce(x \o Run("[", n)) = Reduce(x) \o Run("[", n)
<1> DEFINE r == Reduce(x)
           T == {n \in Nat : Reduce(x \o Run("[", n)) = r \o Run("[", n)}
<1>0. "[" \in Ops /\ r \in Seq(Ops)
  BY OpsNeeded, ReduceType
<1>r. r = Reduce(x)
  OBVIOUS
<1> HIDE DEF r
<1>1. 0 \in T
  <2>1. x \o <<>> = x /\ r \o <<>> = r
    BY <1>0, ConcatEmptySeq
  <2> QED
    BY <2>1, <1>r, RunUnit
<1>2. ASSUME NEW n \in Nat, n \in T PROVE n + 1 \in T
  <2> DEFINE u == Run("[", n)
  <2>1. Run("[", n + 1) = Append(u, "[")
    BY RunAppend
  <2>2. u \in Seq(Ops)
    BY <1>0, RunType
  <2>3. Reduce(x \o u) = r \o u
    BY <1>2
  <2> HIDE DEF u
  <2>4. x \o Append(u, "[") = Append(x \o u, "[") /\ x \o u \in Seq(Ops)
    BY <1>0, <2>2, ConcatAppend
  <2>5. r \o Append(u, "[") = Append(r \o u, "[")
    BY <1>0, <2>2, ConcatAppend
  <2>6. Reduce(Append(x \o u, "[")) = AddChar(r \o u, "[")
    BY <1>0, <2>3, <2>4, ReduceAppend
  <2>7. AddChar(r \o u, "[") = Append(r \o u, "[")
    <3>1. \A c : <<c, "[">> \notin Cancelling
      BY DEF Cancelling
    <3> QED
      BY <3>1 DEF AddChar
  <2>8. Reduce(x \o Run("[", n + 1)) = r \o Run("[", n + 1)
    BY ONLY <2>1, <2>4, <2>5, <2>6, <2>7
  <2> QED
    BY <2>8
<1>3. Nat \subseteq T
  <2> HIDE DEF T
  <2> QED
    BY <1>1, <1>2, SetInduction
<1> QED
  BY <1>3 DEF r

\* Closing brackets after a decrement cancel nothing.
LEMMA ReduceCloses ==
  ASSUME NEW x \in Seq(Ops), NEW p \in Seq(Ops), Reduce(x) = Append(p, "-")
  PROVE  \A n \in Nat : Reduce(x \o Run("]", n)) = Append(p, "-") \o Run("]", n)
<1> DEFINE r == Append(p, "-")
           T == {n \in Nat : Reduce(x \o Run("]", n)) = r \o Run("]", n)}
<1>0. "]" \in Ops /\ "-" \in Ops /\ r \in Seq(Ops)
  <2>1. "]" \in Ops /\ "-" \in Ops
    BY OpsNeeded
  <2> QED
    BY <2>1, AppendProperties
<1>l. Last(r) = "-"
  <2>1. p \in Seq(Ops) /\ "-" \in Ops
    BY <1>0
  <2> QED
    BY ONLY <2>1, FrontAppend
<1>r. r = Reduce(x)
  OBVIOUS
<1> HIDE DEF r
<1>1. 0 \in T
  <2>1. x \o <<>> = x /\ r \o <<>> = r
    BY <1>0, ConcatEmptySeq
  <2> QED
    BY <2>1, <1>r, RunUnit
<1>2. ASSUME NEW n \in Nat, n \in T PROVE n + 1 \in T
  <2> DEFINE u == Run("]", n)
  <2>1. Run("]", n + 1) = Append(u, "]")
    BY RunAppend
  <2>2. u \in Seq(Ops)
    BY <1>0, RunType
  <2>3. Reduce(x \o u) = r \o u
    BY <1>2
  <2>l. Last(r \o u) \in {"-", "]"}
    <3>1. CASE n = 0
      <4>1. u = <<>>
        BY <3>1, RunUnit
      <4>2. r \o u = r
        BY <4>1, <1>0, ConcatEmptySeq
      <4> QED
        BY <4>2, <1>l
    <3>2. CASE n # 0
      <4>1. n - 1 \in Nat /\ (n - 1) + 1 = n
        BY <3>2
      <4> DEFINE m == n - 1
                 w == Run("]", m)
      <4>2. u = Append(w, "]")
        <5>1. m \in Nat /\ m + 1 = n
          BY <4>1
        <5> HIDE DEF m
        <5> QED
          BY <5>1, RunAppend
      <4>3. w \in Seq(Ops)
        BY <4>1, <1>0, RunType
      <4> HIDE DEF u, w
      <4>4. r \o Append(w, "]") = Append(r \o w, "]") /\ r \o w \in Seq(Ops)
        BY ONLY <4>3, <1>0, ConcatAppend
      <4>5. Last(Append(r \o w, "]")) = "]"
        <5> DEFINE z == r \o w
        <5>1. z \in Seq(Ops)
          BY <4>4
        <5> HIDE DEF z
        <5>2. Last(Append(z, "]")) = "]"
          BY ONLY <5>1, <1>0, FrontAppend
        <5> QED
          BY <5>2 DEF z
      <4> QED
        BY <4>2, <4>4, <4>5
    <3> QED
      BY <3>1, <3>2
  <2> HIDE DEF u
  <2>4. x \o Append(u, "]") = Append(x \o u, "]") /\ x \o u \in Seq(Ops)
    BY <1>0, <2>2, ConcatAppend
  <2>5. r \o Append(u, "]") = Append(r \o u, "]")
    BY <1>0, <2>2, ConcatAppend
  <2>6. Reduce(Append(x \o u, "]")) = AddChar(r \o u, "]")
    BY <1>0, <2>3, <2>4, ReduceAppend
  <2>7. AddChar(r \o u, "]") = Append(r \o u, "]")
    <3>1. \A c \in {"-", "]"} : <<c, "]">> \notin Cancelling
      BY DEF Cancelling
    <3> QED
      BY <3>1, <2>l DEF AddChar
  <2>8. Reduce(x \o Run("]", n + 1)) = r \o Run("]", n + 1)
    BY ONLY <2>1, <2>4, <2>5, <2>6, <2>7
  <2> QED
    BY <2>8
<1>3. Nat \subseteq T
  <2> HIDE DEF T
  <2> QED
    BY <1>1, <1>2, SetInduction
<1> QED
  BY <1>3 DEF r

\* A zeroing loop inside a others, as text.
Loops(x, a) == Append(x \o Run("[", a), "-") \o Run("]", a)

LEMMA LoopsType ==
  ASSUME NEW x \in Seq(Ops), NEW a \in Nat
  PROVE  /\ x \o Run("[", a) \in Seq(Ops) /\ Append(x \o Run("[", a), "-") \in Seq(Ops)
         /\ Loops(x, a) \in Seq(Ops) /\ Run("[", a) \in Seq(Ops) /\ Run("]", a) \in Seq(Ops)
<1>0. "[" \in Ops /\ "-" \in Ops /\ "]" \in Ops
  BY OpsNeeded
<1>1. Run("[", a) \in Seq(Ops) /\ Run("]", a) \in Seq(Ops)
  BY <1>0, RunType
<1> DEFINE u == Run("[", a)
           v == Run("]", a)
           w == x \o u
           y == Append(w, "-")
<1> HIDE DEF u, v
<1>2. w \in Seq(Ops)
  BY <1>1, ConcatProperties DEF u
<1> HIDE DEF w
<1>3. y \in Seq(Ops)
  BY <1>0, <1>2, AppendProperties
<1> HIDE DEF y
<1>4. y \o v \in Seq(Ops)
  BY <1>1, <1>3, ConcatProperties DEF v
<1> QED
  BY <1>1, <1>2, <1>3, <1>4 DEF Loops, u, v, w, y

LEMMA ReduceLoops ==
  ASSUME NEW x \in Seq(Ops), NEW a \in Nat, a >= 1
  PROVE  /\ Reduce(Loops(x, a)) = Loops(Reduce(x), a)
         /\ \E p \in Seq(Ops) : Loops(Reduce(x), a) = Append(p, "]")
<1> DEFINE r == Reduce(x)
           u == Run("[", a)
           v == Run("]", a)
           m == a - 1
           u1 == Run("[", m)
           v1 == Run("]", m)
           y == Append(x \o u, "-")
           z == Append(r \o u, "-")
<1>0. "[" \in Ops /\ "-" \in Ops /\ "]" \in Ops /\ r \in Seq(Ops) /\ m \in Nat /\ m + 1 = a
  BY OpsNeeded, ReduceType
<1>1. Reduce(x \o u) = r \o u
  BY ReduceOpens
<1>2. /\ x \o u \in Seq(Ops) /\ r \o u \in Seq(Ops) /\ y \in Seq(Ops) /\ z \in Seq(Ops)
      /\ u \in Seq(Ops) /\ v \in Seq(Ops)
  <2>1. x \o u \in Seq(Ops) /\ y \in Seq(Ops) /\ u \in Seq(Ops) /\ v \in Seq(Ops)
    BY LoopsType
  <2>2. r \o u \in Seq(Ops) /\ z \in Seq(Ops)
    <3> HIDE DEF r
    <3> QED
      BY <1>0, LoopsType
  <2> QED
    BY <2>1, <2>2
<1>3. Loops(x, a) = y \o v /\ Loops(r, a) = z \o v
  BY DEF Loops
<1>4. u = Append(u1, "[") /\ v = Append(v1, "]")
  <2> HIDE DEF m
  <2> QED
    BY <1>0, RunAppend
<1>5. u1 \in Seq(Ops) /\ v1 \in Seq(Ops)
  BY <1>0, RunType
<1> HIDE DEF r, u, v, u1, v1, m
<1>6. r \o u = Append(r \o u1, "[") /\ r \o u1 \in Seq(Ops)
  BY <1>0, <1>4, <1>5, ConcatAppend
<1>7. Last(r \o u) = "["
  <2> DEFINE q == r \o u1
  <2>1. q \in Seq(Ops) /\ r \o u = Append(q, "[")
    BY <1>6
  <2> HIDE DEF q
  <2> QED
    BY <2>1, <1>0, FrontAppend
<1>8. Reduce(y) = z
  <2>1. Reduce(y) = AddChar(r \o u, "-")
    BY <1>0, <1>1, <1>2, ReduceAppend
  <2>2. <<"[", "-">> \notin Cancelling
    BY DEF Cancelling
  <2> QED
    BY <2>1, <2>2, <1>7 DEF AddChar
<1>9. Reduce(y \o v) = z \o v
  <2> DEFINE q == r \o u
  <2>1. q \in Seq(Ops) /\ Reduce(y) = Append(q, "-") /\ y \in Seq(Ops) /\ z = Append(q, "-")
    BY <1>2, <1>8
  <2> HIDE DEF q, y, z
  <2>2. \A n \in Nat : Reduce(y \o Run("]", n)) = Append(q, "-") \o Run("]", n)
    BY <2>1, ReduceCloses
  <2> QED
    BY <2>1, <2>2 DEF v
<1>10. z \o v = Append(z \o v1, "]") /\ z \o v1 \in Seq(Ops)
  <2> HIDE DEF z
  <2> QED
    BY <1>0, <1>2, <1>4, <1>5, ConcatAppend
<1> QED
  BY <1>3, <1>9, <1>10 DEF r

-----------------------------------------------------------------------------
LEMMA CollapseOpens ==
  ASSUME NEW p \in Seq(Ops)
  PROVE  \A n \in Nat : CollapseZeroing(p \o Run("[", n)) = CollapseZeroing(p) \o Run("[", n)
<1> DEFINE r == CollapseZeroing(p)
           T == {n \in Nat : CollapseZeroing(p \o Run("[", n)) = r \o Run("[", n)}
<1>0. "[" \in Ops /\ r \in Seq(Ops)
  BY OpsNeeded, CollapseType
<1>r. r = CollapseZeroing(p)
  OBVIOUS
<1> HIDE DEF r
<1>1. 0 \in T
  <2>1. p \o <<>> = p /\ r \o <<>> = r
    BY <1>0, ConcatEmptySeq
  <2> QED
    BY <2>1, <1>r, RunUnit
<1>2. ASSUME NEW n \in Nat, n \in T PROVE n + 1 \in T
  <2> DEFINE u == Run("[", n)
  <2>1. Run("[", n + 1) = Append(u, "[")
    BY RunAppend
  <2>2. u \in Seq(Ops)
    BY <1>0, RunType
  <2>3. CollapseZeroing(p \o u) = r \o u
    BY <1>2
  <2> HIDE DEF u
  <2>4. p \o Append(u, "[") = Append(p \o u, "[") /\ p \o u \in Seq(Ops)
    BY <1>0, <2>2, ConcatAppend
  <2>5. r \o Append(u, "[") = Append(r \o u, "[")
    BY <1>0, <2>2, ConcatAppend
  <2>6. CollapseZeroing(Append(p \o u, "[")) = AddLoop(r \o u, "[")
    BY <1>0, <2>3, <2>4, CollapseAppend
  <2>7. AddLoop(r \o u, "[") = Append(r \o u, "[")
    BY DEF AddLoop
  <2>8. CollapseZeroing(p \o Run("[", n + 1)) = r \o Run("[", n + 1)
    BY ONLY <2>1, <2>4, <2>5, <2>6, <2>7
  <2> QED
    BY <2>8
<1>3. Nat \subseteq T
  <2> HIDE DEF T
  <2> QED
    BY <1>1, <1>2, SetInduction
<1> QED
  BY <1>3 DEF r

LEMMA CollapseLoops ==
  ASSUME NEW p \in Seq(Ops), NEW a \in Nat, a >= 1
  PROVE  CollapseZeroing(Loops(p, a)) = CollapseZeroing(p) \o ZL
<1> DEFINE r == CollapseZeroing(p)
           u == Run("[", a)
           y == Append(p \o u, "-")
           F(j) == CollapseZeroing(y \o Run("]", j + 1))
           G(k) == (r \o Run("[", k)) \o ZL
           T == {j \in Nat : j <= a - 1 => F(j) = G(a - 1 - j)}
<1>0. "[" \in Ops /\ "-" \in Ops /\ "]" \in Ops /\ r \in Seq(Ops)
  BY OpsNeeded, CollapseType
<1>1. CollapseZeroing(p \o u) = r \o u
  BY CollapseOpens
<1>2. p \o u \in Seq(Ops) /\ y \in Seq(Ops) /\ r \o u \in Seq(Ops)
  <2>1. p \o u \in Seq(Ops) /\ y \in Seq(Ops)
    BY LoopsType
  <2>2. r \o u \in Seq(Ops)
    <3> HIDE DEF r
    <3> QED
      BY <1>0, LoopsType
  <2> QED
    BY <2>1, <2>2
<1>3. CollapseZeroing(y) = Append(r \o u, "-")
  <2>1. CollapseZeroing(y) = AddLoop(r \o u, "-")
    <3> HIDE DEF r, u
    <3> QED
      BY <1>0, <1>1, <1>2, CollapseAppend
  <2> QED
    BY <2>1 DEF AddLoop
<1> HIDE DEF r, y
<1>4. ASSUME NEW k \in Nat
      PROVE  /\ r \o Run("[", k) \in Seq(Ops)
             /\ r \o Run("[", k + 1) = Append(r \o Run("[", k), "[")
  <2> DEFINE v == Run("[", k)
  <2>1. Run("[", k + 1) = Append(v, "[") /\ v \in Seq(Ops)
    BY <1>0, RunAppend, RunType
  <2> HIDE DEF v
  <2>2. r \o Append(v, "[") = Append(r \o v, "[") /\ r \o v \in Seq(Ops)
    BY <1>0, <2>1, ConcatAppend
  <2> QED
    BY <2>1, <2>2 DEF v
<1>5. 0 \in T
  <2> DEFINE m == a - 1
             v == r \o Run("[", m)
  <2>1. m \in Nat /\ m + 1 = a
    OBVIOUS
  <2>2. r \o u = Append(v, "[") /\ v \in Seq(Ops)
    <3>1. r \o Run("[", m + 1) = Append(r \o Run("[", m), "[") /\ r \o Run("[", m) \in Seq(Ops)
      <4> HIDE DEF m
      <4> QED
        BY <2>1, <1>4
    <3> QED
      BY <3>1, <2>1
  <2> HIDE DEF v
  <2>3. Run("]", 0 + 1) = <<"]">>
    BY RunUnit
  <2>4. y \o <<"]">> = Append(y, "]")
    BY <1>0, <1>2, AppendIsConcat
  <2>5. CollapseZeroing(Append(y, "]")) = AddLoop(Append(r \o u, "-"), "]")
    <3> HIDE DEF u
    <3> QED
      BY <1>0, <1>2, <1>3, CollapseAppend
  <2>6. AddLoop(Append(r \o u, "-"), "]") = Append(Append(r \o u, "-"), "]")
    <3> DEFINE w == r \o u
    <3>1. w \in Seq(Ops)
      BY <1>2
    <3> HIDE DEF w
    <3>2. AddLoop(Append(w, "-"), "]") = Append(Append(w, "-"), "]")
      BY <3>1, FirstClose
    <3> QED
      BY <3>2 DEF w
  <2>7. Append(Append(Append(v, "["), "-"), "]") = v \o ZL
    BY <2>2, LoopAppend
  <2>8. F(0) = G(m)
    BY <2>2, <2>3, <2>4, <2>5, <2>6, <2>7 DEF v
  <2>9. a - 1 - 0 = m
    OBVIOUS
  <2> HIDE DEF m, F, G
  <2> QED
    BY <2>8, <2>9
<1>6. ASSUME NEW j \in Nat, j \in T PROVE j + 1 \in T
  <2> SUFFICES ASSUME j + 1 <= a - 1 PROVE F(j + 1) = G(a - 1 - (j + 1))
    OBVIOUS
  <2> DEFINE k == a - 1 - (j + 1)
             m == j + 1
             c == Run("]", m)
             v == r \o Run("[", k)
             x == y \o c
  <2>1. k \in Nat /\ a - 1 - j = k + 1 /\ m \in Nat /\ j <= a - 1
    OBVIOUS
  <2>2. F(j) = G(k + 1)
    <3> HIDE DEF F, G, k
    <3> QED
      BY <2>1, <1>6
  <2>3. Run("]", m + 1) = Append(c, "]") /\ c \in Seq(Ops)
    <3> HIDE DEF m
    <3> QED
      BY <2>1, <1>0, RunAppend, RunType
  <2>4. F(j) = CollapseZeroing(x)
    OBVIOUS
  <2>5. G(k + 1) = Append(v, "[") \o ZL /\ v \in Seq(Ops)
    <3> HIDE DEF k
    <3> QED
      BY <2>1, <1>4
  <2>6. Append(v, "[") \o ZL = v \o Nested
    <3> HIDE DEF v
    <3> QED
      BY <2>5, LoopAppend
  <2>7. F(j + 1) = CollapseZeroing(y \o Run("]", m + 1))
    OBVIOUS
  <2>8. G(k) = v \o ZL
    OBVIOUS
  <2> HIDE DEF F, G, k, m, c, v
  <2>9. y \o Append(c, "]") = Append(x, "]") /\ x \in Seq(Ops)
    BY <1>0, <1>2, <2>3, ConcatAppend
  <2> HIDE DEF x
  <2>10. CollapseZeroing(Append(x, "]")) = AddLoop(CollapseZeroing(x), "]")
    BY <1>0, <2>9, CollapseAppend
  <2>11. AddLoop(v \o Nested, "]") = v \o ZL
    BY <2>5, NestedLoop
  <2>12. F(j + 1) = G(k)
    BY ONLY <2>2, <2>3, <2>4, <2>5, <2>6, <2>7, <2>8, <2>9, <2>10, <2>11
  <2> QED
    BY <2>12 DEF k
<1>7. Nat \subseteq T
  <2> HIDE DEF T
  <2> QED
    BY <1>5, <1>6, SetInduction
<1>8. F(a - 1) = G(0)
  <2>1. a - 1 \in Nat /\ a - 1 <= a - 1 /\ a - 1 - (a - 1) = 0
    OBVIOUS
  <2>2. a - 1 \in T
    BY <1>7, <2>1
  <2> HIDE DEF F, G
  <2> QED
    BY <2>1, <2>2
<1>9. F(a - 1) = CollapseZeroing(Loops(p, a))
  <2>1. (a - 1) + 1 = a
    OBVIOUS
  <2> QED
    BY <2>1 DEF Loops, y
<1>10. G(0) = r \o ZL
  BY <1>0, RunUnit, ConcatEmptySeq
<1> QED
  BY <1>8, <1>9, <1>10 DEF r

\* Two texts no continuation tells apart.
Same(s, t) == /\ s \in Seq(Ops) /\ t \in Seq(Ops) /\ Yields(s, t)
              /\ \A u \in Seq(Ops) : CollapseZeroing(Reduce(s \o u)) = CollapseZeroing(Reduce(t \o u))

LEMMA SameRefl == \A s \in Seq(Ops) : Same(s, s)
  BY YieldsRefl DEF Same, Streams

LEMMA SameReads ==
  ASSUME NEW s, NEW t, Same(s, t)
  PROVE  CollapseZeroing(Reduce(s)) = CollapseZeroing(Reduce(t))
<1>1. <<>> \in Seq(Ops) /\ s \o <<>> = s /\ t \o <<>> = t
  BY ConcatEmptySeq DEF Same
<1> QED
  BY <1>1 DEF Same

LEMMA SameAppend ==
  ASSUME NEW s, NEW t, Same(s, t), NEW v \in Seq(Ops)
  PROVE  Same(s \o v, t \o v)
<1>1. s \in Seq(Ops) /\ t \in Seq(Ops) /\ s \o v \in Seq(Ops) /\ t \o v \in Seq(Ops)
  BY ConcatProperties DEF Same
<1>2. ASSUME NEW u \in Seq(Ops)
      PROVE  CollapseZeroing(Reduce((s \o v) \o u)) = CollapseZeroing(Reduce((t \o v) \o u))
  <2>0. s \in Seq(Ops) /\ t \in Seq(Ops) /\ v \in Seq(Ops) /\ u \in Seq(Ops)
    BY <1>1
  <2>a. (s \o v) \o u = s \o (v \o u)
    BY ONLY <2>0, ConcatAssociative
  <2>b. (t \o v) \o u = t \o (v \o u)
    BY ONLY <2>0, ConcatAssociative
  <2>c. v \o u \in Seq(Ops)
    BY ONLY <2>0, ConcatProperties
  <2>1. (s \o v) \o u = s \o (v \o u) /\ (t \o v) \o u = t \o (v \o u) /\ v \o u \in Seq(Ops)
    BY <2>a, <2>b, <2>c
  <2> QED
    BY <2>1 DEF Same
<1>3. Yields(s \o v, t \o v)
  BY YieldsBefore DEF Same, Streams
<1> QED
  BY <1>1, <1>2, <1>3 DEF Same

\* Nested loops around [-] do what [-] does.
LEMMA LoopsYield ==
  ASSUME NEW x \in Seq(Ops), NEW a \in Nat, a >= 1
  PROVE  Yields(Loops(x, a), x \o ZL)
<1> DEFINE o == Run("[", a)
           c == Run("]", a)
           m == <<"-">>
<1>1. x \in Streams /\ o \in Streams /\ c \in Streams /\ m \in Streams
  <2>1. "-" \in Ops
    BY OpsNeeded
  <2>2. m \in Streams
    BY <2>1 DEF Streams
  <2>3. o \in Seq(Ops) /\ c \in Seq(Ops)
    BY LoopsType
  <2> QED
    BY <2>2, <2>3 DEF Streams
<1>2. Yields(Cat(o, Cat(m, c)), ClearLoop)
  <2> DEFINE n == a - 1
  <2>1. n \in Nat /\ n + 1 = a
    OBVIOUS
  <2> HIDE DEF n
  <2>2. Yields(Cat(Run("[", n + 1), Cat(<<"-">>, Run("]", n + 1))), ClearLoop)
    BY <2>1, YieldsNests
  <2> QED
    BY <2>1, <2>2
<1>3. ClearLoop = ZL
  BY ClearIsZL
<1>4. Loops(x, a) = Cat(Cat(Cat(x, o), m), c)
  <2>1. x \o o \in Seq(Ops) /\ "-" \in Ops
    BY <1>1, OpsNeeded, LoopsType
  <2>2. Append(x \o o, "-") = (x \o o) \o <<"-">>
    BY <2>1, AppendIsConcat
  <2> QED
    BY <2>2 DEF Loops, Cat
<1> HIDE DEF o, c, m
<1>5. Cat(Cat(Cat(x, o), m), c) = Cat(x, Cat(o, Cat(m, c)))
  <2>1. Cat(m, c) \in Streams /\ Cat(o, m) \in Streams
    BY <1>1, CatType
  <2>2. Cat(Cat(x, o), m) = Cat(x, Cat(o, m)) /\ Cat(Cat(o, m), c) = Cat(o, Cat(m, c))
    BY <1>1, CatAssoc
  <2>3. Cat(Cat(x, Cat(o, m)), c) = Cat(x, Cat(Cat(o, m), c))
    BY <1>1, <2>1, CatAssoc
  <2> QED
    BY <2>2, <2>3
<1>6. Yields(x \o Cat(o, Cat(m, c)), x \o ZL)
  BY <1>1, <1>2, <1>3, YieldsAfter
<1> QED
  BY <1>4, <1>5, <1>6 DEF Cat

\* [-] inside any number of loops is [-], whatever comes before and after.
LEMMA LoopsSame ==
  ASSUME NEW x \in Seq(Ops), NEW a \in Nat, a >= 1
  PROVE  Same(Loops(x, a), x \o ZL)
<1> DEFINE s == Loops(x, a)
           t == Loops(x, 1)
           r == Reduce(x)
<1>1. t = x \o ZL
  <2>1. Run("[", 1) = <<"[">> /\ Run("]", 1) = <<"]">>
    BY RunUnit
  <2>2. "[" \in Ops /\ "-" \in Ops /\ "]" \in Ops
    BY OpsNeeded
  <2>3. x \o <<"[">> = Append(x, "[") /\ Append(x, "[") \in Seq(Ops)
    BY <2>2, AppendIsConcat, AppendProperties
  <2>4. Append(Append(x, "["), "-") \in Seq(Ops)
    BY <2>2, <2>3, AppendProperties
  <2>5. Append(Append(x, "["), "-") \o <<"]">> = Append(Append(Append(x, "["), "-"), "]")
    BY <2>2, <2>4, AppendIsConcat
  <2> QED
    BY <2>1, <2>3, <2>5, LoopAppend DEF Loops
<1>2. s \in Seq(Ops) /\ t \in Seq(Ops) /\ r \in Seq(Ops)
  BY LoopsType, ReduceType
<1>3. Reduce(s) = Loops(r, a) /\ Reduce(t) = Loops(r, 1)
  BY ReduceLoops
<1>4. PICK p \in Seq(Ops) : Loops(r, a) = Append(p, "]")
  BY ReduceLoops
<1>5. PICK q \in Seq(Ops) : Loops(r, 1) = Append(q, "]")
  BY ReduceLoops
<1>6. CollapseZeroing(Loops(r, a)) = CollapseZeroing(Loops(r, 1))
  <2> HIDE DEF r, s, t
  <2>1. CollapseZeroing(Loops(r, a)) = CollapseZeroing(r) \o ZL
    BY <1>2, CollapseLoops
  <2>2. 1 \in Nat /\ 1 >= 1
    OBVIOUS
  <2>3. CollapseZeroing(Loops(r, 1)) = CollapseZeroing(r) \o ZL
    BY <1>2, <2>2, CollapseLoops
  <2> QED
    BY <2>1, <2>3
<1>7. Loops(r, a) \in Seq(Ops) /\ Loops(r, 1) \in Seq(Ops)
  <2> HIDE DEF r
  <2> QED
    BY <1>2, LoopsType
<1> HIDE DEF s, t, r
<1>8. ASSUME NEW u \in Seq(Ops)
      PROVE  CollapseZeroing(Reduce(s \o u)) = CollapseZeroing(Reduce(t \o u))
  <2> DEFINE v == Reduce(u)
  <2>1. v \in Seq(Ops)
    BY ReduceType
  <2>2. Reduce(s \o u) = Loops(r, a) \o v
    <3>1. Reduce(s) = Append(p, "]")
      BY <1>3, <1>4
    <3>2. \A y \in Seq(Ops) : Reduce(s \o y) = Append(p, "]") \o Reduce(y)
      BY <3>1, <1>2, ReduceApart
    <3> QED
      BY <3>2, <1>4
  <2>3. Reduce(t \o u) = Loops(r, 1) \o v
    <3>1. Reduce(t) = Append(q, "]")
      BY <1>3, <1>5
    <3>2. \A y \in Seq(Ops) : Reduce(t \o y) = Append(q, "]") \o Reduce(y)
      BY <3>1, <1>2, ReduceApart
    <3> QED
      BY <3>2, <1>5
  <2> HIDE DEF v
  <2>4. CollapseZeroing(Loops(r, a) \o v) = CollapseZeroing(Loops(r, 1) \o v)
    BY <2>1, <1>6, <1>7, CollapseCongruent
  <2> QED
    BY <2>2, <2>3, <2>4
<1>9. Same(s, t)
  BY <1>1, <1>2, <1>8, LoopsYield DEF Same, s
<1> QED
  BY <1>1, <1>9 DEF s

-----------------------------------------------------------------------------
\* The text of the first k slots.
Upto(m, k) == Spelled(SubSeq(m, 1, k))

LEMMA UptoStep ==
  ASSUME NEW m \in Seq(Token)
  PROVE  /\ Upto(m, 0) = <<>>
         /\ \A k \in 0 .. Len(m) : Upto(m, k) \in Seq(Ops)
         /\ \A k \in 1 .. Len(m) : Upto(m, k) = Upto(m, k - 1) \o Meaning(m[k])
<1>1. Upto(m, 0) = <<>>
  <2>1. SubSeq(m, 1, 0) = <<>>
    <3>1. 0 \in 0 .. Len(m) /\ \A r \in Seq(Token) : Len(r) = 0 => r = <<>>
      OBVIOUS
    <3> QED
      BY <3>1, Prefix
  <2> QED
    BY <2>1, SpelledEmpty DEF Upto
<1>2. \A k \in 0 .. Len(m) : SubSeq(m, 1, k) \in Seq(Token)
  BY Prefix
<1>3. \A k \in 0 .. Len(m) : Upto(m, k) \in Seq(Ops)
  BY <1>2, SpelledType DEF Upto
<1>4. ASSUME NEW k \in 1 .. Len(m) PROVE Upto(m, k) = Upto(m, k - 1) \o Meaning(m[k])
  <2> DEFINE j == k - 1
             r == SubSeq(m, 1, j)
  <2>1. j \in Nat /\ j + 1 = k /\ j + 1 <= Len(m) /\ j \in 0 .. Len(m) /\ m[k] \in Token
    OBVIOUS
  <2>2. r \in Seq(Token)
    BY <1>2, <2>1
  <2>3. SubSeq(m, 1, j + 1) = Append(r, m[j + 1])
    <3> HIDE DEF j
    <3> QED
      BY <2>1, TakeNext
  <2>4. SubSeq(m, 1, k) = Append(r, m[k])
    BY <2>1, <2>3
  <2> HIDE DEF r
  <2>5. Spelled(Append(r, m[k])) = Spelled(r) \o Meaning(m[k])
    BY <2>1, <2>2, SpelledAppend
  <2> QED
    BY <2>4, <2>5 DEF Upto, r
<1> QED
  BY <1>1, <1>3, <1>4

\* Slots that stand for nothing.
LEMMA UptoFlat ==
  ASSUME NEW m \in Seq(Token), NEW l \in Nat, NEW r \in Nat, r <= Len(m),
         \A k \in l + 1 .. r : Meaning(m[k]) = <<>>
  PROVE  \A k \in l .. r : Upto(m, k) = Upto(m, l)
<1> DEFINE T == {j \in Nat : l + j <= r => Upto(m, l + j) = Upto(m, l)}
<1>1. 0 \in T
  OBVIOUS
<1>2. ASSUME NEW j \in Nat, j \in T PROVE j + 1 \in T
  <2> SUFFICES ASSUME l + (j + 1) <= r PROVE Upto(m, l + (j + 1)) = Upto(m, l)
    OBVIOUS
  <2> DEFINE k == l + (j + 1)
  <2>1. k \in 1 .. Len(m) /\ k \in l + 1 .. r /\ k - 1 = l + j /\ l \in 0 .. Len(m) /\ l + j <= r
    OBVIOUS
  <2>2. Upto(m, k - 1) = Upto(m, l)
    BY <1>2, <2>1
  <2>3. Upto(m, l) \in Seq(Ops) /\ Meaning(m[k]) = <<>>
    BY <2>1, UptoStep
  <2>4. Upto(m, k) = Upto(m, k - 1) \o Meaning(m[k])
    <3> HIDE DEF k
    <3> QED
      BY <2>1, UptoStep
  <2>5. Upto(m, l) \o <<>> = Upto(m, l)
    BY <2>3, ConcatEmptySeq
  <2>6. Upto(m, k) = Upto(m, l)
    BY ONLY <2>2, <2>3, <2>4, <2>5
  <2> QED
    BY <2>6
<1>3. Nat \subseteq T
  <2> HIDE DEF T
  <2> QED
    BY <1>1, <1>2, SetInduction
<1> QED
  <2> SUFFICES ASSUME NEW k \in l .. r PROVE Upto(m, k) = Upto(m, l)
    OBVIOUS
  <2>1. k - l \in Nat /\ l + (k - l) = k
    OBVIOUS
  <2>2. k - l \in T
    BY <1>3, <2>1
  <2> QED
    BY <2>1, <2>2

\* The text of the first slots depends on them only.
LEMMA UptoPrefix ==
  ASSUME NEW m \in Seq(Token), NEW w \in Seq(Token), NEW n \in 0 .. Len(m), n <= Len(w),
         \A k \in 1 .. n : m[k] = w[k]
  PROVE  Upto(m, n) = Upto(w, n)
<1>1. SubSeq(m, 1, n) = SubSeq(w, 1, n)
  BY TakeSame
<1> QED
  BY <1>1 DEF Upto

\* Two vectors that no continuation tells apart at r, and that are the same
\* after it.
LEMMA UptoSame ==
  ASSUME NEW m \in Seq(Token), NEW w \in Seq(Token), NEW n \in Nat, n <= Len(m), n <= Len(w),
         NEW r \in 0 .. n, Same(Upto(m, r), Upto(w, r)), \A k \in r + 1 .. n : m[k] = w[k]
  PROVE  Same(Upto(m, n), Upto(w, n))
<1> DEFINE T == {j \in Nat : r + j <= n => Same(Upto(m, r + j), Upto(w, r + j))}
<1>1. 0 \in T
  <2>1. r + 0 = r
    OBVIOUS
  <2> QED
    BY <2>1
<1>2. ASSUME NEW j \in Nat, j \in T PROVE j + 1 \in T
  <2> SUFFICES ASSUME r + (j + 1) <= n PROVE Same(Upto(m, r + (j + 1)), Upto(w, r + (j + 1)))
    OBVIOUS
  <2> DEFINE k == r + (j + 1)
             i0 == k - 1
             a == Upto(m, i0)
             b == Upto(w, i0)
             v == Meaning(m[k])
  <2>1. k \in 1 .. Len(m) /\ k \in 1 .. Len(w) /\ k \in r + 1 .. n /\ i0 = r + j /\ r + j <= n
        /\ m[k] \in Token /\ w[k] = m[k]
    OBVIOUS
  <2>2. Same(a, b)
    BY <1>2, <2>1
  <2>3. v \in Seq(Ops)
    BY <2>1, MeaningType
  <2>4. Upto(m, k) = a \o v /\ Upto(w, k) = b \o v
    <3> HIDE DEF k
    <3> QED
      BY <2>1, UptoStep
  <2> HIDE DEF a, b, v
  <2>5. Same(a \o v, b \o v)
    BY <2>2, <2>3, SameAppend
  <2> QED
    BY <2>4, <2>5
<1>3. Nat \subseteq T
  <2> HIDE DEF T
  <2> QED
    BY <1>1, <1>2, SetInduction
<1>4. n - r \in Nat /\ r + (n - r) = n
  OBVIOUS
<1>5. n - r \in T
  BY <1>3, <1>4
<1> QED
  BY <1>4, <1>5

LEMMA ZeroedMeaning == Meaning(Zeroed) = <<>>
<1>1. Meaning(Zeroed) = Run(Zeroed.op, 0)
  BY ZeroedType, MeaningPlain DEF NoOp
<1> QED
  BY <1>1, RunUnit

LEMMA PeeledMeaning ==
  ASSUME NEW t \in Token, t.op \in {"[", "]"}, t.len > 0
  PROVE  /\ Meaning(Peeled(t)) = Run(t.op, t.len - 1) /\ Meaning(t) = Run(t.op, t.len)
         /\ t.len - 1 \in Nat
<1>1. t.len \in Nat /\ t.op \in Ops /\ t.len - 1 \in Nat
  BY WeightOf
<1>2. Meaning(t) = Run(t.op, t.len)
  BY MeaningPlain
<1>3. CASE t.len = 1
  <2>1. Peeled(t) = Zeroed /\ t.len - 1 = 0
    BY <1>3 DEF Peeled
  <2> QED
    BY <1>1, <1>2, <2>1, ZeroedMeaning, RunUnit
<1>4. CASE t.len # 1
  <2> DEFINE n == t.len - 1
             o == t.op
             p == Tok(o, n)
  <2>1. Peeled(t) = p
    BY <1>4 DEF Peeled
  <2>2. n \in Nat /\ o \in Ops /\ o \in {"[", "]"}
    BY <1>1
  <2> HIDE DEF n, o
  <2>3. p \in Token /\ p.op = o /\ p.len = n
    BY <2>2, TokType
  <2> HIDE DEF p
  <2>4. Meaning(p) = Run(p.op, p.len)
    <3>1. p.op \notin {"Z", "A", "S", "M"}
      BY <2>2, <2>3
    <3> QED
      BY <2>3, <3>1, MeaningPlain
  <2> QED
    BY <1>1, <1>2, <2>1, <2>3, <2>4 DEF n, o
<1> QED
  BY <1>3, <1>4

\* Replace spells what t spells, inside what is left of the brackets.
LEMMA ReplaceText ==
  ASSUME NEW m, NEW n \in Nat, Sound(m, n), NEW l \in 1 .. n, NEW r \in l + 2 .. n,
         m[l].op = "[", m[r].op = "]", \A k \in l + 1 .. r - 1 : Neutral(m[k]),
         NEW t, Neutral(t)
  PROVE  LET w == Replace(m, l, r, t)
         IN  Upto(w, r) = ((Upto(m, l - 1) \o Run("[", m[l].len - 1)) \o Meaning(t))
                            \o Run("]", m[r].len - 1)
<1> DEFINE w == Replace(m, l, r, t)
           x == Upto(m, l - 1)
           a == Run("[", m[l].len - 1)
           b == Run("]", m[r].len - 1)
           v == Meaning(t)
<1>0. m \in Seq(Token) /\ n <= Len(m) /\ Len(m) \in Nat /\ DOMAIN m = 1 .. Len(m)
      /\ \A k \in 1 .. n : m[k] \in Token
  BY DEF Sound
<1>1. r \in 1 .. n /\ l \in Nat /\ r \in Nat /\ l + 2 <= r /\ m[l] \in Token /\ m[r] \in Token
      /\ m[l].len > 0 /\ m[r].len > 0 /\ l + 1 \in 1 .. n /\ t \in Token
  BY <1>0 DEF Sound, Neutral
<1>2. /\ m[l].len = 1 => w[l] = t /\ w[l + 1] = Zeroed
      /\ m[l].len # 1 => w[l] = Peeled(m[l]) /\ w[l + 1] = t
  BY <1>0, <1>1 DEF Replace
<1>3. \A k \in l + 2 .. r - 1 : w[k] = Zeroed
  BY <1>0, <1>1 DEF Replace
<1>4. w[r] = Peeled(m[r])
  BY <1>0, <1>1 DEF Replace
<1>5. \A k \in 1 .. l - 1 : m[k] = w[k]
  BY <1>0, <1>1 DEF Replace
<1>6. w \in Seq(Token) /\ Len(w) = Len(m)
  <2>1. Sound(w, n) /\ Len(w) = Len(m)
    BY ReplaceSound
  <2> HIDE DEF w
  <2> QED
    BY <2>1 DEF Sound
<1> HIDE DEF w
<1>7. Meaning(Peeled(m[l])) = a /\ Meaning(Peeled(m[r])) = b
      /\ m[l].len - 1 \in Nat /\ m[r].len - 1 \in Nat
  BY <1>1, PeeledMeaning
<1>8. Upto(w, l - 1) = x
  <2> DEFINE j == l - 1
  <2>1. j \in 0 .. Len(m) /\ j <= Len(w) /\ \A k \in 1 .. j : m[k] = w[k]
    BY <1>0, <1>5, <1>6
  <2> HIDE DEF j
  <2>2. Upto(m, j) = Upto(w, j)
    BY <1>0, <1>6, <2>1, UptoPrefix
  <2> QED
    BY <2>2 DEF j
<1>9. x \in Seq(Ops) /\ v \in Seq(Ops) /\ a \in Seq(Ops) /\ b \in Seq(Ops)
  <2>1. l - 1 \in 0 .. Len(m)
    BY <1>0
  <2>2. x \in Seq(Ops)
    BY <1>0, <2>1, UptoStep
  <2>3. v \in Seq(Ops)
    BY <1>1, MeaningType
  <2>4. a \in Seq(Ops) /\ b \in Seq(Ops)
    BY <1>7, RunType, OpsNeeded
  <2> QED
    BY <2>2, <2>3, <2>4
<1>10. \A k \in 1 .. Len(w) : Upto(w, k) = Upto(w, k - 1) \o Meaning(w[k])
  BY <1>6, UptoStep
<1>11. /\ l \in 1 .. Len(w) /\ l + 1 \in 1 .. Len(w) /\ r \in 1 .. Len(w) /\ (l + 1) - 1 = l
  BY <1>0, <1>1, <1>6
<1>12. Upto(w, l + 1) = (x \o a) \o v
  <2>1. Upto(w, l) = x \o Meaning(w[l]) /\ Upto(w, l + 1) = Upto(w, l) \o Meaning(w[l + 1])
    BY <1>8, <1>10, <1>11
  <2>2. CASE m[l].len = 1
    <3>1. a = <<>>
      BY <2>2, RunUnit
    <3>2. Upto(w, l + 1) = (x \o v) \o <<>>
      BY <1>2, <2>1, <2>2, ZeroedMeaning
    <3>3. x \o a = x
      BY <3>1, <1>9, ConcatEmptySeq
    <3> HIDE DEF x, v, a
    <3>4. x \o v \in Seq(Ops)
      BY <1>9, ConcatProperties
    <3>5. (x \o v) \o <<>> = x \o v
      BY <3>4, ConcatEmptySeq
    <3> QED
      BY <3>2, <3>3, <3>5
  <2>3. CASE m[l].len # 1
    BY <1>2, <1>7, <2>1, <2>3
  <2> QED
    BY <2>2, <2>3
<1>13. Upto(w, r - 1) = Upto(w, l + 1)
  <2> DEFINE p == l + 1
             q == r - 1
  <2>1. \A k \in p + 1 .. q : Meaning(w[k]) = <<>>
    <3> SUFFICES ASSUME NEW k \in p + 1 .. q PROVE Meaning(w[k]) = <<>>
      OBVIOUS
    <3>1. k \in l + 2 .. r - 1
      BY <1>1
    <3> QED
      BY <3>1, <1>3, ZeroedMeaning
  <2>2. p \in Nat /\ q \in Nat /\ q <= Len(w) /\ q \in p .. q
    BY <1>0, <1>1, <1>6
  <2> HIDE DEF p, q
  <2>3. Upto(w, q) = Upto(w, p)
    BY <1>6, <2>1, <2>2, UptoFlat
  <2> QED
    BY <2>3 DEF p, q
<1>14. Upto(w, r) = Upto(w, r - 1) \o b
  BY <1>4, <1>7, <1>10, <1>11
<1> QED
  BY <1>12, <1>13, <1>14 DEF w

LEMMA PutText ==
  ASSUME NEW m, NEW n \in Nat, Sound(m, n), NEW l \in 1 .. n, NEW r \in l + 1 .. n,
         NEW t \in Token, Put(m, l, r, t) \in Seq(Token), Len(Put(m, l, r, t)) = Len(m)
  PROVE  Upto(Put(m, l, r, t), r) = Upto(m, l - 1) \o Meaning(t)
<1> DEFINE w == Put(m, l, r, t)
           x == Upto(m, l - 1)
<1>0. m \in Seq(Token) /\ n <= Len(m) /\ Len(m) \in Nat /\ DOMAIN m = 1 .. Len(m)
  BY DEF Sound
<1>1. r \in 1 .. n /\ l \in Nat /\ r \in Nat /\ l + 1 <= r
  BY <1>0
<1>2. w[l] = t /\ \A k \in l + 1 .. r : w[k] = Zeroed
  BY <1>0, <1>1 DEF Put
<1>5. \A k \in 1 .. l - 1 : m[k] = w[k]
  BY <1>0, <1>1 DEF Put
<1>6. w \in Seq(Token) /\ Len(w) = Len(m)
  OBVIOUS
<1> HIDE DEF w
<1>8. Upto(w, l - 1) = x
  <2> DEFINE j == l - 1
  <2>1. j \in 0 .. Len(m) /\ j <= Len(w) /\ \A k \in 1 .. j : m[k] = w[k]
    BY <1>0, <1>5, <1>6
  <2> HIDE DEF j
  <2>2. Upto(m, j) = Upto(w, j)
    BY <1>0, <1>6, <2>1, UptoPrefix
  <2> QED
    BY <2>2 DEF j
<1>9. Upto(w, l) = x \o Meaning(t)
  <2>1. l \in 1 .. Len(w)
    BY <1>0, <1>6
  <2> QED
    BY <1>2, <1>6, <1>8, <2>1, UptoStep
<1>10. Upto(w, r) = Upto(w, l)
  <2>1. \A k \in l + 1 .. r : Meaning(w[k]) = <<>>
    BY <1>2, ZeroedMeaning
  <2>2. r <= Len(w) /\ r \in l .. r
    BY <1>0, <1>1, <1>6
  <2> QED
    BY <1>1, <1>6, <2>1, <2>2, UptoFlat
<1> QED
  BY <1>9, <1>10 DEF w

-----------------------------------------------------------------------------
(* What a rewrite leaves behind.                                           *)

Alive(m, n) == \A k \in 1 .. n : ~Dead(m[k])
Singles(m, n) == \A k \in 1 .. n - 1 : m[k].op = "[" /\ m[k + 1].op = "-" => m[k + 1].len = 1
Plain(m, n) == \A k \in 1 .. n : /\ m[k].op = "C" => ~(m[k].len > 0)
                                 /\ m[k].op = "M" => ~(m[k].len > 1)

\* Compacting m makes no bracket meet a decrement of more than one, and no
\* slot it drops spells anything.
Tame(m, n) == \A j \in 1 .. n : \A k \in j + 1 .. n :
  (/\ m[j].op = "[" /\ m[k].op = "-" /\ m[k].len # 1
   /\ ~Dead(m[j]) /\ ~Dead(m[k])) => \E q \in j + 1 .. k - 1 : ~Dead(m[q])
Hollow(m, n) == \A k \in 1 .. n : Dead(m[k]) => Meaning(m[k]) = <<>>

\* w is m with the slots from l to r rewritten, which held a loop or a Z.
Window(m, w, n, l, r) ==
  /\ l \in 1 .. n /\ r \in l + 1 .. n
  /\ \A k \in 1 .. n : k \notin l .. r => w[k] = m[k]
  /\ \A k \in l .. r : m[k].op \notin {"C", "M"}

\* The new token stands at l, or after a bracket that is left; only closing
\* brackets are left after it.
Settled(w, l, r) ==
  /\ \E p \in l .. r : /\ ~Dead(w[p]) /\ w[p].op \notin {"[", "-"}
                       /\ \A k \in p + 1 .. r : Dead(w[k]) \/ w[k].op = "]"
                       /\ \A k \in l .. p - 1 : w[k].op # "-"
  /\ \A k \in l .. r : Dead(w[k]) => Meaning(w[k]) = <<>>

LEMMA PlainBefore ==
  ASSUME NEW m, NEW w, NEW n \in Nat, NEW l, NEW r, Window(m, w, n, l, r), Plain(w, n)
  PROVE  Plain(m, n)
<1> SUFFICES ASSUME NEW k \in 1 .. n
             PROVE  (m[k].op = "C" => ~(m[k].len > 0)) /\ (m[k].op = "M" => ~(m[k].len > 1))
  BY DEF Plain
<1>1. CASE k \in l .. r
  <2>1. m[k].op \notin {"C", "M"}
    BY <1>1 DEF Window
  <2> QED
    BY <2>1
<1>2. CASE k \notin l .. r
  <2>1. w[k] = m[k]
    BY <1>2 DEF Window
  <2> QED
    BY <2>1 DEF Plain
<1> QED
  BY <1>1, <1>2

LEMMA AliveTame ==
  ASSUME NEW m, NEW n \in Nat, Alive(m, n), Singles(m, n)
  PROVE  Tame(m, n) /\ Hollow(m, n)
<1>1. Hollow(m, n)
  BY DEF Alive, Hollow
<1>2. ASSUME NEW j \in 1 .. n, NEW k \in j + 1 .. n, m[j].op = "[", m[k].op = "-", m[k].len # 1
      PROVE  \E q \in j + 1 .. k - 1 : ~Dead(m[q])
  <2>1. CASE k = j + 1
    <3>1. j \in 1 .. n - 1
      BY <2>1
    <3> QED
      BY <3>1, <2>1, <1>2 DEF Singles
  <2>2. CASE k # j + 1
    <3>1. j + 1 \in j + 1 .. k - 1 /\ j + 1 \in 1 .. n
      BY <2>2
    <3> QED
      BY <3>1 DEF Alive
  <2> QED
    BY <2>1, <2>2
<1> QED
  BY <1>1, <1>2 DEF Tame

LEMMA SettledTame ==
  ASSUME NEW m, NEW w, NEW n \in Nat, NEW l, NEW r, Window(m, w, n, l, r), Settled(w, l, r),
         Alive(m, n), Singles(m, n)
  PROVE  Tame(w, n) /\ Hollow(w, n)
<1>0. l \in 1 .. n /\ r \in l + 1 .. n /\ l \in Nat /\ r \in Nat
  BY DEF Window
<1>1. \A k \in 1 .. n : k \notin l .. r => w[k] = m[k] /\ ~Dead(w[k])
  BY DEF Window, Alive
<1>2. Hollow(w, n)
  BY <1>1 DEF Hollow, Settled
<1>3. PICK p \in l .. r : /\ ~Dead(w[p]) /\ w[p].op \notin {"[", "-"}
                          /\ \A k \in p + 1 .. r : Dead(w[k]) \/ w[k].op = "]"
                          /\ \A k \in l .. p - 1 : w[k].op # "-"
  BY DEF Settled
<1>4. ASSUME NEW j \in 1 .. n, NEW k \in j + 1 .. n, w[j].op = "[", w[k].op = "-", w[k].len # 1,
             ~Dead(w[j]), ~Dead(w[k])
      PROVE  \E q \in j + 1 .. k - 1 : ~Dead(w[q])
  <2>0. k \in 1 .. n /\ p \in Nat
    BY <1>0
  <2>1. k \notin l .. r
    <3>1. k \in l .. r => k \in l .. p - 1 \/ k = p \/ k \in p + 1 .. r
      BY <1>0, <2>0
    <3> QED
      BY <3>1, <1>3, <1>4
  <2>2. j \notin p .. r
    <3>1. j \in p .. r => j = p \/ j \in p + 1 .. r
      BY <1>0, <2>0
    <3> QED
      BY <3>1, <1>3, <1>4
  <2>3. CASE j < p /\ r < k
    <3>1. p \in j + 1 .. k - 1
      BY <2>0, <2>3, <1>0
    <3> QED
      BY <3>1, <1>3
  <2>4. CASE k < l \/ r < j
    <3>1. j \notin l .. r /\ k \notin l .. r /\ (j + 1 \notin l .. r)
      BY <2>4, <1>0, <2>0
    <3>2. w[j] = m[j] /\ w[k] = m[k]
      BY <3>1, <1>1, <2>0
    <3>3. CASE k = j + 1
      <4>1. j \in 1 .. n - 1
        BY <3>3
      <4> QED
        BY <4>1, <3>2, <3>3, <1>4 DEF Singles
    <3>4. CASE k # j + 1
      <4>1. j + 1 \in j + 1 .. k - 1 /\ j + 1 \in 1 .. n
        BY <3>4
      <4> QED
        BY <4>1, <3>1, <1>1
    <3> QED
      BY <3>3, <3>4
  <2>5. (j < p /\ r < k) \/ k < l \/ r < j
    BY <1>0, <2>0, <2>1, <2>2
  <2> QED
    BY <2>3, <2>4, <2>5
<1> QED
  BY <1>2, <1>4 DEF Tame

\* A token that can be dropped is dead only by its length.
LEMMA PeeledDead ==
  ASSUME NEW t \in Token, t.op \in {"[", "]"}, t.len > 0
  PROVE  /\ Dead(Peeled(t)) => Peeled(t) = Zeroed
         /\ Peeled(t).op \in {t.op, NoOp}
         /\ ~Dead(Peeled(t)) => Peeled(t).op = t.op
<1>0. t.len \in Nat /\ t.op \in Ops
  BY WeightOf
<1>1. CASE t.len = 1
  BY <1>1, ZeroedType DEF Peeled, Dead
<1>2. CASE t.len # 1
  <2> DEFINE n == t.len - 1
             o == t.op
             p == Tok(o, n)
  <2>1. Peeled(t) = p
    BY <1>2 DEF Peeled
  <2>2. n \in Nat /\ n > 0 /\ o \in Ops /\ o # NoOp
    BY <1>0, <1>2 DEF NoOp
  <2> HIDE DEF n, o
  <2>3. p.op = o /\ p.len = n
    BY <2>2, TokType
  <2> HIDE DEF p
  <2>4. ~Dead(p)
    BY <2>2, <2>3 DEF Dead
  <2> QED
    BY <2>1, <2>3, <2>4 DEF o
<1> QED
  BY <1>1, <1>2

LEMMA ReplaceSettled ==
  ASSUME NEW m, NEW n \in Nat, Sound(m, n), NEW l \in 1 .. n, NEW r \in l + 2 .. n,
         m[l].op = "[", m[r].op = "]", NEW t, t.op \notin {"[", "-"}, ~Dead(t)
  PROVE  LET w == Replace(m, l, r, t)
         IN  Settled(w, l, r) /\ (w[l] = t \/ w[l + 1] = t) /\ w[l + 1].op # "-"
             /\ \A k \in 1 .. n : k \notin l .. r => w[k] = m[k]
<1> DEFINE w == Replace(m, l, r, t)
<1>0. m \in Seq(Token) /\ n <= Len(m) /\ Len(m) \in Nat /\ DOMAIN m = 1 .. Len(m)
      /\ \A k \in 1 .. n : m[k] \in Token
  BY DEF Sound
<1>1. r \in 1 .. n /\ l \in Nat /\ r \in Nat /\ l + 2 <= r /\ m[l] \in Token /\ m[r] \in Token
      /\ m[l].len > 0 /\ m[r].len > 0 /\ l + 1 \in 1 .. n
  BY <1>0 DEF Sound
<1>2. /\ m[l].len = 1 => w[l] = t /\ w[l + 1] = Zeroed
      /\ m[l].len # 1 => w[l] = Peeled(m[l]) /\ w[l + 1] = t
  BY <1>0, <1>1 DEF Replace
<1>3. \A k \in l + 2 .. r - 1 : w[k] = Zeroed
  BY <1>0, <1>1 DEF Replace
<1>4. w[r] = Peeled(m[r])
  BY <1>0, <1>1 DEF Replace
<1>5. \A k \in 1 .. n : k \notin l .. r => w[k] = m[k]
  BY <1>0, <1>1 DEF Replace
<1> HIDE DEF w
<1>6. Dead(Zeroed) /\ Meaning(Zeroed) = <<>> /\ Zeroed.op = NoOp
  BY ZeroedType, ZeroedMeaning DEF Dead
<1>7. /\ Dead(w[r]) => w[r] = Zeroed
      /\ ~Dead(w[r]) => w[r].op = "]"
  BY <1>1, <1>4, PeeledDead
<1>8. \A k \in l + 2 .. r : Dead(w[k]) \/ w[k].op = "]"
  <2> SUFFICES ASSUME NEW k \in l + 2 .. r PROVE Dead(w[k]) \/ w[k].op = "]"
    OBVIOUS
  <2>1. k = r \/ k \in l + 2 .. r - 1
    BY <1>1
  <2> QED
    BY <2>1, <1>3, <1>6, <1>7
<1>9. \A k \in l + 2 .. r : Dead(w[k]) => Meaning(w[k]) = <<>>
  <2> SUFFICES ASSUME NEW k \in l + 2 .. r PROVE Dead(w[k]) => Meaning(w[k]) = <<>>
    OBVIOUS
  <2>1. k = r \/ k \in l + 2 .. r - 1
    BY <1>1
  <2> QED
    BY <2>1, <1>3, <1>6, <1>7
<1>10. \A k \in l .. r : k = l \/ k = l + 1 \/ k \in l + 2 .. r
  BY <1>1
<1>11. CASE m[l].len = 1
  <2>1. \A k \in l + 1 .. r : k = l + 1 \/ k \in l + 2 .. r
    BY <1>1
  <2>2. w[l] = t /\ w[l + 1] = Zeroed /\ l \in l .. r
    BY <1>1, <1>2, <1>11
  <2>3. \A k \in l + 1 .. r : Dead(w[k]) \/ w[k].op = "]"
    BY <2>1, <2>2, <1>6, <1>8
  <2>4. \A k \in l .. l - 1 : w[k].op # "-"
    BY <1>1
  <2>5. \A k \in l .. r : Dead(w[k]) => Meaning(w[k]) = <<>>
    BY <2>2, <1>6, <1>9, <1>10
  <2>6. Settled(w, l, r)
    BY <2>2, <2>3, <2>4, <2>5 DEF Settled
  <2> QED
    BY <2>2, <2>6, <1>5, <1>6 DEF w, NoOp
<1>12. CASE m[l].len # 1
  <2>2. w[l] = Peeled(m[l]) /\ w[l + 1] = t /\ l + 1 \in l .. r
    BY <1>1, <1>2, <1>12
  <2>3. \A k \in (l + 1) + 1 .. r : Dead(w[k]) \/ w[k].op = "]"
    <3>1. \A k \in (l + 1) + 1 .. r : k \in l + 2 .. r
      BY <1>1
    <3> QED
      BY <3>1, <1>8
  <2>4. (Dead(w[l]) => w[l] = Zeroed) /\ w[l].op # "-"
    <3>1. (Dead(w[l]) => w[l] = Zeroed) /\ w[l].op \in {"[", NoOp}
      BY <2>2, <1>1, PeeledDead
    <3> QED
      BY <3>1 DEF NoOp
  <2>5. \A k \in l .. r : Dead(w[k]) => Meaning(w[k]) = <<>>
    BY <2>2, <2>4, <1>6, <1>9, <1>10
  <2>6. \A k \in l .. (l + 1) - 1 : w[k].op # "-"
    <3>1. \A k \in l .. (l + 1) - 1 : k = l
      BY <1>1
    <3> QED
      BY <3>1, <2>4
  <2>7. Settled(w, l, r)
    BY <2>2, <2>3, <2>5, <2>6 DEF Settled
  <2> QED
    BY <2>2, <2>7, <1>5 DEF w
<1> QED
  BY <1>11, <1>12

LEMMA PutSettled ==
  ASSUME NEW m, NEW n \in Nat, Sound(m, n), NEW l \in 1 .. n, NEW r \in l + 1 .. n,
         NEW t, t.op \notin {"[", "-"}, ~Dead(t)
  PROVE  LET w == Put(m, l, r, t)
         IN  Settled(w, l, r) /\ w[l + 1].op # "-"
             /\ \A k \in 1 .. n : k \notin l .. r => w[k] = m[k]
<1> DEFINE w == Put(m, l, r, t)
<1>0. n <= Len(m) /\ Len(m) \in Nat /\ DOMAIN m = 1 .. Len(m)
  BY DEF Sound
<1>1. r \in 1 .. n /\ l \in Nat /\ r \in Nat /\ l + 1 <= r /\ l + 1 \in l + 1 .. r /\ l \in l .. r
  BY <1>0
<1>2. w[l] = t /\ \A k \in l + 1 .. r : w[k] = Zeroed
  BY <1>0, <1>1 DEF Put
<1>5. \A k \in 1 .. n : k \notin l .. r => w[k] = m[k]
  BY <1>0, <1>1 DEF Put
<1> HIDE DEF w
<1>6. Dead(Zeroed) /\ Meaning(Zeroed) = <<>> /\ Zeroed.op = NoOp
  BY ZeroedType, ZeroedMeaning DEF Dead
<1>7. \A k \in l .. r : Dead(w[k]) => Meaning(w[k]) = <<>>
  <2>1. \A k \in l .. r : k = l \/ k \in l + 1 .. r
    BY <1>1
  <2> QED
    BY <2>1, <1>2, <1>6
<1>8. \A k \in l .. l - 1 : w[k].op # "-"
  BY <1>1
<1>9. Settled(w, l, r)
  BY <1>1, <1>2, <1>6, <1>7, <1>8 DEF Settled
<1> QED
  BY <1>1, <1>2, <1>5, <1>6, <1>9 DEF w, NoOp

-----------------------------------------------------------------------------
(* Each pattern reads as what replaces it.                                 *)

\* A loop spelled inside what is left of its brackets is the loop.
LEMMA BracketedText ==
  ASSUME NEW x \in Seq(Ops), NEW a \in Nat, NEW b \in Nat, NEW body \in Seq(Ops)
  PROVE  ((x \o Run("[", a)) \o ((<<"[">> \o body) \o <<"]">>)) \o Run("]", b)
           = ((x \o Run("[", a + 1)) \o body) \o Run("]", b + 1)
<1> DEFINE u == Run("[", a)
           v == Run("]", b)
           o == <<"[">>
           c == <<"]">>
<1>0. u \in Seq(Ops) /\ v \in Seq(Ops) /\ o \in Seq(Ops) /\ c \in Seq(Ops)
  <2>1. "[" \in Ops /\ "]" \in Ops
    BY OpsNeeded
  <2> QED
    BY <2>1, RunType, Tuples
<1>1. Run("[", a + 1) = u \o o /\ Run("]", b + 1) = c \o v
  <2>1. b + 1 = 1 + b /\ 1 \in Nat
    OBVIOUS
  <2>2. Run("[", a + 1) = u \o Run("[", 1)
    BY <2>1, RunSplit
  <2>3. Run("]", 1 + b) = Run("]", 1) \o v
    BY <2>1, RunSplit
  <2> QED
    BY <2>1, <2>2, <2>3, RunUnit
<1> HIDE DEF u, v, o, c
<1>a. \A d \in Seq(Ops) : \A e \in Seq(Ops) : \A f \in Seq(Ops) : (d \o e) \o f = d \o (e \o f)
  BY ConcatAssociative
<1>b. \A d \in Seq(Ops) : \A e \in Seq(Ops) : d \o e \in Seq(Ops)
  BY ConcatProperties
<1>2. /\ x \o u \in Seq(Ops) /\ o \o body \in Seq(Ops) /\ u \o o \in Seq(Ops)
      /\ (o \o body) \o c \in Seq(Ops)
  BY <1>0, <1>b
<1> DEFINE xu == x \o u
           ob == o \o body
<1>c. xu \in Seq(Ops) /\ ob \in Seq(Ops)
  BY <1>2
<1>t. c \in Seq(Ops) /\ o \in Seq(Ops)
  BY <1>0
<1> HIDE DEF xu, ob
<1>3. xu \o (ob \o c) = (xu \o ob) \o c
  BY <1>c, <1>t, <1>a
<1>4. xu \o (o \o body) = (xu \o o) \o body
  BY <1>c, <1>t, <1>a
<1>5. (x \o u) \o o = x \o (u \o o)
  BY <1>0, <1>a, Zenon
<1> DEFINE y == (x \o (u \o o)) \o body
<1>6. y \in Seq(Ops)
  BY <1>2, <1>b
<1>7. (y \o c) \o v = y \o (c \o v)
  <2> HIDE DEF y
  <2> QED
    BY <1>6, <1>0, <1>a
<1> QED
  BY <1>1, <1>3, <1>4, <1>5, <1>7 DEF u, v, o, c, xu, ob

LEMMA ReplaceSame ==
  ASSUME NEW m, NEW n \in Nat, Sound(m, n), NEW l \in 1 .. n, NEW r \in l + 2 .. n,
         m[l].op = "[", m[r].op = "]", \A k \in l + 1 .. r - 1 : Neutral(m[k]),
         NEW t, Neutral(t), NEW body \in Seq(Ops),
         Upto(m, r - 1) = Upto(m, l) \o body,
         Meaning(t) = (<<"[">> \o body) \o <<"]">>
  PROVE  Same(Upto(m, r), Upto(Replace(m, l, r, t), r))
<1> DEFINE w == Replace(m, l, r, t)
           x == Upto(m, l - 1)
           a == m[l].len - 1
           b == m[r].len - 1
<1>0. m \in Seq(Token) /\ n <= Len(m) /\ Len(m) \in Nat
  BY DEF Sound
<1>1. /\ r \in 1 .. Len(m) /\ l \in 1 .. Len(m) /\ m[l] \in Token /\ m[r] \in Token
      /\ m[l].len > 0 /\ m[r].len > 0 /\ l - 1 \in 0 .. Len(m) /\ r \in 0 .. Len(m)
  BY <1>0 DEF Sound
<1>2. /\ Meaning(m[l]) = Run("[", m[l].len) /\ a \in Nat /\ a + 1 = m[l].len
      /\ Meaning(m[r]) = Run("]", m[r].len) /\ b \in Nat /\ b + 1 = m[r].len
  <2> DEFINE p == m[l]
             q == m[r]
  <2>1. /\ p \in Token /\ p.op = "[" /\ p.op \in {"[", "]"} /\ p.len > 0
        /\ q \in Token /\ q.op = "]" /\ q.op \in {"[", "]"} /\ q.len > 0
    BY <1>1
  <2> HIDE DEF p, q
  <2>2. Meaning(p) = Run("[", p.len) /\ p.len - 1 \in Nat /\ p.len \in Nat
    BY ONLY <2>1, PeeledMeaning, WeightOf
  <2>3. Meaning(q) = Run("]", q.len) /\ q.len - 1 \in Nat /\ q.len \in Nat
    BY ONLY <2>1, PeeledMeaning, WeightOf
  <2>a. \A k \in Nat : (k - 1) + 1 = k
    OBVIOUS
  <2>4. (p.len - 1) + 1 = p.len /\ (q.len - 1) + 1 = q.len
    BY ONLY <2>2, <2>3, <2>a
  <2> QED
    BY <2>2, <2>3, <2>4 DEF p, q
<1>3. Upto(m, l) = x \o Run("[", a + 1) /\ Upto(m, r) = Upto(m, r - 1) \o Run("]", b + 1)
      /\ x \in Seq(Ops) /\ Upto(m, r) \in Seq(Ops)
  BY <1>0, <1>1, <1>2, UptoStep
<1>4. Upto(w, r) = ((x \o Run("[", a)) \o Meaning(t)) \o Run("]", b)
  BY ReplaceText
<1> HIDE DEF x, a, b, w
<1>c. ((x \o Run("[", a)) \o ((<<"[">> \o body) \o <<"]">>)) \o Run("]", b)
        = ((x \o Run("[", a + 1)) \o body) \o Run("]", b + 1)
  BY <1>2, <1>3, BracketedText
<1>5. Upto(w, r) = ((x \o Run("[", a + 1)) \o body) \o Run("]", b + 1)
  BY ONLY <1>c, <1>4, Meaning(t) = (<<"[">> \o body) \o <<"]">>
<1>6. Upto(w, r) = Upto(m, r)
  BY <1>3, <1>5
<1> QED
  BY <1>3, <1>6, SameRefl DEF w

\* [-] with as many brackets on either side.
LEMMA ZeroPutSame ==
  ASSUME NEW m, NEW n \in Nat, Sound(m, n), NEW l \in 1 .. n, l + 2 <= n,
         m[l].op = "[", m[l + 1].op = "-", m[l + 2].op = "]", m[l + 1].len = 1,
         m[l].len = m[l + 2].len, NEW t \in Token, t.op = "Z",
         Put(m, l, l + 2, t) \in Seq(Token), Len(Put(m, l, l + 2, t)) = Len(m)
  PROVE  Same(Upto(m, l + 2), Upto(Put(m, l, l + 2, t), l + 2))
<1> DEFINE w == Put(m, l, l + 2, t)
           x == Upto(m, l - 1)
           a == m[l].len
           y == x \o Run("[", a)
           p == l + 1
           q == l + 2
<1>0. m \in Seq(Token) /\ n <= Len(m) /\ Len(m) \in Nat
  BY DEF Sound
<1>1. /\ l \in 1 .. Len(m) /\ p \in 1 .. Len(m) /\ q \in 1 .. Len(m) /\ p - 1 = l /\ q - 1 = p
      /\ m[l] \in Token /\ m[p] \in Token /\ m[q] \in Token /\ a > 0 /\ a \in Nat /\ a >= 1
      /\ l - 1 \in 0 .. Len(m) /\ q \in l + 1 .. n
  <2>1. /\ l \in 1 .. Len(m) /\ p \in 1 .. Len(m) /\ q \in 1 .. Len(m) /\ p - 1 = l /\ q - 1 = p
        /\ l - 1 \in 0 .. Len(m) /\ q \in l + 1 .. n
    BY <1>0
  <2>2. m[l] \in Token /\ m[p] \in Token /\ m[q] \in Token
    BY <1>0, <2>1
  <2>3. a > 0 /\ a \in Nat
    BY <2>2, WeightOf DEF Sound
  <2> QED
    BY <2>1, <2>2, <2>3
<1>2. m[p].op = "-" /\ m[p].len = 1 /\ m[q].op = "]" /\ m[q].len = a
  OBVIOUS
<1>3. Meaning(m[l]) = Run("[", a) /\ Meaning(m[p]) = <<"-">> /\ Meaning(m[q]) = Run("]", a)
  <2>1. Meaning(m[l]) = Run("[", a)
    BY <1>1, MeaningPlain
  <2>2. Meaning(m[p]) = Run("-", 1) /\ Meaning(m[q]) = Run("]", a)
    <3> HIDE DEF p, q, a
    <3>1. Meaning(m[p]) = Run(m[p].op, m[p].len)
      BY <1>1, <1>2, MeaningPlain
    <3>2. Meaning(m[q]) = Run(m[q].op, m[q].len)
      BY <1>1, <1>2, MeaningPlain
    <3> QED
      BY <1>2, <3>1, <3>2
  <2> QED
    BY <2>1, <2>2, RunUnit
<1>4. x \in Seq(Ops) /\ Upto(m, l) = y
      /\ Upto(m, p) = Upto(m, l) \o <<"-">> /\ Upto(m, q) = Upto(m, p) \o Run("]", a)
  <2> HIDE DEF p, q, a
  <2>1. \A k \in 1 .. Len(m) : Upto(m, k) = Upto(m, k - 1) \o Meaning(m[k])
    BY <1>0, UptoStep
  <2>2. x \in Seq(Ops)
    BY <1>0, <1>1, UptoStep
  <2> QED
    BY <1>1, <1>3, <2>1, <2>2
<1>5. Upto(w, q) = x \o Meaning(t)
  BY <1>1, PutText
<1>6. Meaning(t) = ZL
  BY MeaningAssigned
<1> HIDE DEF x, a, p, q, w
<1>7. Upto(m, q) = Loops(x, a)
  <2>1. Run("[", a) \in Seq(Ops) /\ "-" \in Ops
    BY <1>1, OpsNeeded, RunType
  <2>2. y \in Seq(Ops)
    <3> DEFINE u == Run("[", a)
    <3>1. u \in Seq(Ops)
      BY <2>1
    <3> HIDE DEF u
    <3>2. x \o u \in Seq(Ops)
      BY ONLY <3>1, <1>4, ConcatProperties
    <3> QED
      BY <3>2 DEF u
  <2> HIDE DEF y
  <2>3. y \o <<"-">> = Append(y, "-")
    BY <2>1, <2>2, AppendIsConcat
  <2> QED
    BY <1>4, <2>3 DEF Loops, y
<1>8. Same(Loops(x, a), x \o ZL)
  BY <1>1, <1>4, LoopsSame
<1> QED
  BY <1>5, <1>6, <1>7, <1>8 DEF q, w

\* Z and the addition after it.
LEMMA FoldPutSame ==
  ASSUME NEW m, NEW n \in Nat, Sound(m, n), NEW l \in 1 .. n, l + 1 <= n,
         m[l].op = "Z", NEW o \in {"+", "-"}, m[l + 1].op = o,
         NEW t \in Token, Meaning(t) = ZL \o Run(o, m[l + 1].len),
         Put(m, l, l + 1, t) \in Seq(Token), Len(Put(m, l, l + 1, t)) = Len(m)
  PROVE  Same(Upto(m, l + 1), Upto(Put(m, l, l + 1, t), l + 1))
<1> DEFINE w == Put(m, l, l + 1, t)
           x == Upto(m, l - 1)
           p == l + 1
           v == Run(o, m[p].len)
<1>0. m \in Seq(Token) /\ n <= Len(m) /\ Len(m) \in Nat
  BY DEF Sound
<1>1. /\ l \in 1 .. Len(m) /\ p \in 1 .. Len(m) /\ p - 1 = l /\ p \in 0 .. Len(m)
      /\ m[l] \in Token /\ m[p] \in Token /\ l - 1 \in 0 .. Len(m) /\ p \in l + 1 .. n
  BY <1>0
<1>2. Meaning(m[l]) = ZL /\ Meaning(m[p]) = v /\ v \in Seq(Ops) /\ ZL \in Seq(Ops)
  <2>1. Meaning(m[l]) = ZL
    BY <1>1, MeaningAssigned
  <2>2. m[p].op = o /\ m[p].len \in Nat /\ o \in Ops
    BY <1>1, WeightOf, OpsNeeded
  <2> HIDE DEF p
  <2>3. Meaning(m[p]) = Run(m[p].op, m[p].len)
    BY <1>1, <2>2, MeaningPlain
  <2>4. v \in Seq(Ops)
    <3> DEFINE e == m[p].len
    <3>1. e \in Nat
      BY <2>2
    <3> HIDE DEF e
    <3>2. Run(o, e) \in Seq(Ops)
      BY <3>1, <2>2, RunType
    <3> QED
      BY <3>2 DEF e
  <2> QED
    BY <2>1, <2>2, <2>3, <2>4, OpsNeeded
<1>3. x \in Seq(Ops) /\ Upto(m, l) = x \o ZL /\ Upto(m, p) = Upto(m, l) \o v /\ Upto(m, p) \in Seq(Ops)
  <2> HIDE DEF p, v
  <2>1. \A k \in 1 .. Len(m) : Upto(m, k) = Upto(m, k - 1) \o Meaning(m[k])
    BY <1>0, UptoStep
  <2>2. x \in Seq(Ops) /\ Upto(m, p) \in Seq(Ops)
    BY <1>0, <1>1, UptoStep
  <2> QED
    BY <1>1, <1>2, <2>1, <2>2
<1>4. Upto(w, p) = x \o Meaning(t)
  BY <1>1, PutText
<1>5. Meaning(t) = ZL \o v
  OBVIOUS
<1> HIDE DEF x, p, v, w
<1>6. x \o (ZL \o v) = (x \o ZL) \o v
  BY ONLY <1>2, <1>3, ConcatAssociative
<1>7. Upto(w, p) = Upto(m, p)
  BY <1>3, <1>4, <1>5, <1>6
<1> QED
  BY <1>3, <1>7, SameRefl DEF w, p

-----------------------------------------------------------------------------
(* Every pattern, as a rewrite.                                            *)

\* The slots of w differ from those of m in a window at l only, and reading up
\* to its end gives the same program, unless a copy or a move by several cells
\* has been written.
Rewritten(m, w, n, l) ==
  \/ w = m
  \/ \E r \in Nat : /\ Window(m, w, n, l, r)
                    /\ Alive(m, n) /\ Singles(m, n) /\ Plain(w, n)
                         => Settled(w, l, r) /\ Same(Upto(m, r), Upto(w, r))

LEMMA OpsTwo ==
  ASSUME NEW m, NEW l \in Nat, OpsAt(m, l, <<"[", "-">>)
  PROVE  m[l].op = "[" /\ m[l + 1].op = "-"
<1>1. DOMAIN <<"[", "-">> = 1 .. 2
  OBVIOUS
<1>2. \A k \in 1 .. 2 : m[l + k - 1].op = <<"[", "-">>[k]
  BY <1>1 DEF OpsAt
<1>3. l + 1 - 1 = l /\ l + 2 - 1 = l + 1
  OBVIOUS
<1> QED
  BY <1>2, <1>3

LEMMA OpsThree ==
  ASSUME NEW m, NEW l \in Nat, OpsAt(m, l, <<"[", "-", "]">>)
  PROVE  m[l].op = "[" /\ m[l + 1].op = "-" /\ m[l + 2].op = "]"
<1>1. DOMAIN <<"[", "-", "]">> = 1 .. 3
  OBVIOUS
<1>2. \A k \in 1 .. 3 : m[l + k - 1].op = <<"[", "-", "]">>[k]
  BY <1>1 DEF OpsAt
<1>3. l + 1 - 1 = l /\ l + 2 - 1 = l + 1 /\ l + 3 - 1 = l + 2
  OBVIOUS
<1> QED
  BY <1>2, <1>3

LEMMA OpsSix ==
  ASSUME NEW m, NEW l \in Nat, OpsAt(m, l, <<"[", "-", ">", "+", "<", "]">>)
  PROVE  /\ m[l].op = "[" /\ m[l + 1].op = "-" /\ m[l + 2].op = ">" /\ m[l + 3].op = "+"
         /\ m[l + 4].op = "<" /\ m[l + 5].op = "]"
<1>1. DOMAIN <<"[", "-", ">", "+", "<", "]">> = 1 .. 6
  OBVIOUS
<1>2. \A k \in 1 .. 6 : m[l + k - 1].op = <<"[", "-", ">", "+", "<", "]">>[k]
  BY <1>1 DEF OpsAt
<1>3. /\ l + 1 - 1 = l /\ l + 2 - 1 = l + 1 /\ l + 3 - 1 = l + 2 /\ l + 4 - 1 = l + 3
      /\ l + 5 - 1 = l + 4 /\ l + 6 - 1 = l + 5
  OBVIOUS
<1> QED
  BY <1>2, <1>3

\* After one rewrite at l no other pattern is found there.
LEMMA NoPattern ==
  ASSUME NEW m, NEW l \in Nat, m[l + 1].op # "-"
  PROVE  MoveLoop(m, l) = m /\ CopyLoop(m, l) = m
<1>1. ~OpsAt(m, l, <<"[", "-", ">", "+", "<", "]">>)
  BY OpsSix
<1>2. ~OpsAt(m, l, <<"[", "-">>)
  BY OpsTwo
<1> QED
  BY <1>1, <1>2 DEF MoveLoop, CopyLoop

LEMMA ReplaceOutside ==
  ASSUME NEW m, NEW n \in Nat, n <= Len(m), m \in Seq(Token), NEW l \in 1 .. n, NEW r \in l + 2 .. n,
         NEW t, t.op # "-"
  PROVE  LET w == Replace(m, l, r, t)
         IN  /\ w[l] = t \/ w[l + 1] = t
             /\ w[l + 1].op # "-"
             /\ \A k \in 1 .. n : k \notin l .. r => w[k] = m[k]
<1> DEFINE w == Replace(m, l, r, t)
<1>0. Len(m) \in Nat /\ DOMAIN m = 1 .. Len(m)
  OBVIOUS
<1>1. r \in 1 .. n /\ l \in Nat /\ r \in Nat /\ l + 2 <= r /\ l + 1 \in 1 .. n
  BY <1>0
<1>2. /\ m[l].len = 1 => w[l] = t /\ w[l + 1] = Zeroed
      /\ m[l].len # 1 => w[l + 1] = t
  BY <1>0, <1>1 DEF Replace
<1>5. \A k \in 1 .. n : k \notin l .. r => w[k] = m[k]
  BY <1>0, <1>1 DEF Replace
<1> HIDE DEF w
<1>6. Zeroed.op # "-"
  BY ZeroedType DEF NoOp
<1> QED
  BY <1>2, <1>5, <1>6 DEF w

LEMMA ZeroOnce == ZL = (<<"[">> \o <<"-">>) \o <<"]">> /\ <<"-">> \in Seq(Ops)
<1> DEFINE a == <<"[">>
           b == <<"[", "-">>
<1>0. "[" \in Ops /\ "-" \in Ops /\ "]" \in Ops
  BY OpsNeeded
<1>1. a \in Seq(Ops) /\ b \in Seq(Ops) /\ b = Append(a, "-") /\ <<"-">> \in Seq(Ops)
      /\ ZL = Append(b, "]")
  BY <1>0, Tuples DEF ZL
<1> HIDE DEF a, b
<1>2. a \o <<"-">> = Append(a, "-")
  BY <1>0, <1>1, ConcatTuple
<1>3. b \o <<"]">> = Append(b, "]")
  BY <1>0, <1>1, ConcatTuple
<1> QED
  BY <1>1, <1>2, <1>3 DEF a

LEMMA ZeroLoopRewrites ==
  ASSUME NEW m, NEW n \in Nat, Sound(m, n), NEW l \in 1 .. n, l + 2 <= n
  PROVE  LET w == ZeroLoop(m, l)
         IN  w = m \/ (/\ Window(m, w, n, l, l + 2) /\ w[l + 1].op # "-"
                       /\ Settled(w, l, l + 2) /\ Same(Upto(m, l + 2), Upto(w, l + 2)))
<1> DEFINE t == Tok("Z", 1)
           w == ZeroLoop(m, l)
           r == l + 2
<1>0. m \in Seq(Token) /\ n <= Len(m) /\ Len(m) \in Nat
      /\ \A k \in 1 .. n : m[k] \in Token
  BY DEF Sound
<1>1. l \in Nat /\ r \in l + 1 .. n /\ r \in l + 2 .. n /\ l + 1 \in 1 .. n /\ r \in 1 .. n
      /\ r - 1 = l + 1
  OBVIOUS
<1>t. t \in Token /\ t.op = "Z" /\ t.len = 1
  <2>1. "Z" \in Ops /\ 1 \in Nat
    BY DEF Ops, RewriteOps
  <2> QED
    BY <2>1, TokType
<1>d. ~Dead(t) /\ Neutral(t)
  <2> HIDE DEF t
  <2> QED
    BY <1>t DEF Dead, NoOp, Neutral
<1>2. CASE ~(OpsAt(m, l, <<"[", "-", "]">>) /\ m[l + 1].len = 1)
  BY <1>2 DEF ZeroLoop
<1>3. CASE OpsAt(m, l, <<"[", "-", "]">>) /\ m[l + 1].len = 1
  <2>1. m[l].op = "[" /\ m[l + 1].op = "-" /\ m[r].op = "]" /\ m[l + 1].len = 1
    BY <1>1, <1>3, OpsThree
  <2>2. \A k \in l .. r : m[k].op \notin {"C", "M"}
    <3>1. \A k \in l .. r : k = l \/ k = l + 1 \/ k = r
      BY <1>1
    <3> QED
      BY <2>1, <3>1
  <2>3. CASE m[l].len = m[r].len
    <3>1. w = Put(m, l, r, t)
      BY <1>3, <2>3 DEF ZeroLoop
    <3>2. Settled(w, l, r) /\ w[l + 1].op # "-"
          /\ \A k \in 1 .. n : k \notin l .. r => w[k] = m[k]
      <4> HIDE DEF t, r, w
      <4> QED
        BY <1>1, <1>t, <1>d, <3>1, PutSettled
    <3>3. w \in Seq(Token) /\ Len(w) = Len(m)
      BY ZeroLoopSound DEF Sound
    <3>4. Same(Upto(m, r), Upto(w, r))
      <4> HIDE DEF t, w
      <4>1. Put(m, l, l + 2, t) \in Seq(Token) /\ Len(Put(m, l, l + 2, t)) = Len(m)
        BY <3>1, <3>3
      <4>2. Same(Upto(m, l + 2), Upto(Put(m, l, l + 2, t), l + 2))
        BY <1>t, <2>1, <2>3, <4>1, ZeroPutSame
      <4> QED
        BY <3>1, <4>2
    <3> QED
      BY <1>1, <2>2, <3>2, <3>4 DEF Window
  <2>4. CASE m[l].len # m[r].len
    <3>1. w = Replace(m, l, r, t)
      BY <1>3, <2>4 DEF ZeroLoop
    <3>2. Settled(w, l, r) /\ w[l + 1].op # "-"
          /\ \A k \in 1 .. n : k \notin l .. r => w[k] = m[k]
      <4> HIDE DEF t, r, w
      <4> QED
        BY <1>1, <1>t, <1>d, <2>1, <3>1, ReplaceSettled
    <3>3. \A k \in l + 1 .. r - 1 : Neutral(m[k])
      <4>1. Neutral(m[l + 1]) /\ \A k \in l + 1 .. r - 1 : k = l + 1
        BY <1>0, <1>1, <2>1 DEF Neutral
      <4> QED
        BY <4>1
    <3>4. Upto(m, r - 1) = Upto(m, l) \o <<"-">>
      <4> DEFINE p == l + 1
      <4>1. p \in 1 .. Len(m) /\ p - 1 = l /\ r - 1 = p /\ m[p] \in Token
        BY <1>0, <1>1
      <4>2. m[p].op = "-" /\ m[p].len = 1
        BY <2>1
      <4> HIDE DEF p
      <4>3. Meaning(m[p]) = Run(m[p].op, m[p].len)
        BY <4>1, <4>2, MeaningPlain
      <4>4. Meaning(m[p]) = <<"-">>
        BY <4>2, <4>3, RunUnit
      <4> QED
        BY <1>0, <4>1, <4>4, UptoStep
    <3>5. Meaning(t) = (<<"[">> \o <<"-">>) \o <<"]">> /\ <<"-">> \in Seq(Ops)
      <4>1. Meaning(t) = ZL
        <5> HIDE DEF t
        <5> QED
          BY <1>t, MeaningAssigned
      <4> QED
        BY <4>1, ZeroOnce
    <3>6. Same(Upto(m, r), Upto(w, r))
      <4> HIDE DEF t, r, w
      <4> QED
        BY <1>1, <1>d, <2>1, <3>1, <3>3, <3>4, <3>5, ReplaceSame
    <3> QED
      BY <1>1, <2>2, <3>2, <3>6 DEF Window
  <2> QED
    BY <2>3, <2>4
<1> QED
  BY <1>2, <1>3

LEMMA MoveLoopRewrites ==
  ASSUME NEW m, NEW n \in Nat, Sound(m, n), NEW l \in 1 .. n, l + 5 <= n
  PROVE  Rewritten(m, MoveLoop(m, l), n, l)
<1> DEFINE ops == <<"[", "-", ">", "+", "<", "]">>
           d == m[l + 2].len
           t == Tok("M", d)
           w == MoveLoop(m, l)
           r == l + 5
<1>0. m \in Seq(Token) /\ n <= Len(m) /\ Len(m) \in Nat
      /\ \A k \in 1 .. n : m[k] \in Token
  BY DEF Sound
<1>1. /\ l \in Nat /\ r \in Nat /\ r \in l + 1 .. n /\ r \in l + 2 .. n /\ r - 1 = l + 4
      /\ l + 1 \in 1 .. n /\ l + 2 \in 1 .. n /\ l + 3 \in 1 .. n /\ l + 4 \in 1 .. n /\ r \in 1 .. n
  OBVIOUS
<1>2. CASE w = m
  BY <1>2 DEF Rewritten
<1>3. CASE OpsAt(m, l, ops) /\ m[l + 2].len = m[l + 3].len /\ m[l + 3].len = m[l + 4].len
  <2>1. /\ m[l].op = "[" /\ m[l + 1].op = "-" /\ m[l + 2].op = ">" /\ m[l + 3].op = "+"
        /\ m[l + 4].op = "<" /\ m[r].op = "]"
    BY <1>1, <1>3, OpsSix
  <2>2. w = Replace(m, l, r, t)
    BY <1>3 DEF MoveLoop
  <2>3. d \in Nat
    BY <1>0, <1>1, WeightOf
  <2>d. d = m[l + 2].len
    OBVIOUS
  <2> HIDE DEF d
  <2>4. t \in Token /\ t.op = "M" /\ t.len = d
    <3>1. "M" \in Ops
      BY DEF Ops, RewriteOps
    <3> QED
      BY <2>3, <3>1, TokType
  <2> HIDE DEF t, w, r
  <2>5. /\ w[l] = t \/ w[l + 1] = t
        /\ \A k \in 1 .. n : k \notin l .. r => w[k] = m[k]
    BY <1>0, <1>1, <2>2, <2>4, ReplaceOutside
  <2>6. Window(m, w, n, l, r)
    <3>1. \A k \in l .. r : k = l \/ k = l + 1 \/ k = l + 2 \/ k = l + 3 \/ k = l + 4 \/ k = r
      BY <1>1
    <3>2. \A k \in l .. r : m[k].op \notin {"C", "M"}
      BY <2>1, <3>1
    <3> QED
      BY <1>1, <2>5, <3>2 DEF Window
  <2>7. ASSUME Alive(m, n), Singles(m, n), Plain(w, n)
        PROVE  Settled(w, l, r) /\ Same(Upto(m, r), Upto(w, r))
    <3>1. ~Dead(t)
      <4>1. ~Dead(m[l + 2])
        BY <1>1, <2>7 DEF Alive
      <4> QED
        BY <2>d, <2>4, <4>1 DEF Dead, NoOp
    <3>2. Settled(w, l, r)
      BY <1>1, <2>1, <2>2, <2>4, <3>1, ReplaceSettled
    <3>3. d = 1
      <4>1. ~(t.len > 1)
        BY <1>1, <2>4, <2>5, <2>7 DEF Plain
      <4>2. t.len # 0
        BY <3>1 DEF Dead
      <4> QED
        BY <2>3, <2>4, <4>1, <4>2
    <3>4. m[l + 1].len = 1
      <4>1. l \in 1 .. n - 1
        BY <1>1
      <4> QED
        BY <4>1, <2>1, <2>7 DEF Singles
    <3>5. Meaning(t) = (<<"[">> \o Body) \o <<"]">> /\ Body \in Seq(Ops)
      BY <2>4, <3>3, MoveOnce
    <3>6. \A k \in l + 1 .. r - 1 : Neutral(m[k])
      <4>1. \A k \in l + 1 .. r - 1 : k \in 1 .. n /\ (k = l + 1 \/ k = l + 2 \/ k = l + 3 \/ k = l + 4)
        BY <1>1
      <4> QED
        BY <4>1, <1>0, <2>1 DEF Neutral
    <3>7. Upto(m, r - 1) = Upto(m, l) \o Body
      <4> DEFINE u == Upto(m, l)
      <4>1. ASSUME NEW k \in 1 .. n, NEW o \in {"-", ">", "+", "<"}, m[k].op = o, m[k].len = 1
            PROVE  Upto(m, k) = Append(Upto(m, k - 1), o) /\ Upto(m, k) \in Seq(Ops)
        <5> DEFINE x == Upto(m, k - 1)
        <5>1. m[k] \in Token /\ k \in 1 .. Len(m) /\ k - 1 \in 0 .. Len(m) /\ k \in 0 .. Len(m)
          BY <1>0
        <5>2. Meaning(m[k]) = Run(m[k].op, m[k].len)
          BY <4>1, <5>1, MeaningPlain
        <5>3. Meaning(m[k]) = <<o>>
          BY <4>1, <5>2, RunUnit
        <5>4. Upto(m, k) = x \o <<o>> /\ x \in Seq(Ops) /\ Upto(m, k) \in Seq(Ops)
          BY <1>0, <5>1, <5>3, UptoStep
        <5> HIDE DEF x
        <5>5. x \o <<o>> = Append(x, o)
          <6>1. o \in Ops
            BY OpsNeeded
          <6> QED
            BY <5>4, <6>1, AppendIsConcat
        <5> QED
          BY <5>4, <5>5 DEF x
      <4>2. (l + 1) - 1 = l /\ (l + 2) - 1 = l + 1 /\ (l + 3) - 1 = l + 2 /\ (l + 4) - 1 = l + 3
        BY <1>1
      <4>3. m[l + 2].len = 1 /\ m[l + 3].len = 1 /\ m[l + 4].len = 1
        BY <1>3, <2>d, <3>3
      <4>4. Upto(m, l + 1) = Append(u, "-")
        BY <1>1, <2>1, <3>4, <4>1, <4>2
      <4>5. Upto(m, l + 2) = Append(Upto(m, l + 1), ">")
        BY <1>1, <2>1, <4>1, <4>2, <4>3
      <4>6. Upto(m, l + 3) = Append(Upto(m, l + 2), "+")
        BY <1>1, <2>1, <4>1, <4>2, <4>3
      <4>7. Upto(m, l + 4) = Append(Upto(m, l + 3), "<")
        BY <1>1, <2>1, <4>1, <4>2, <4>3
      <4>8. u \in Seq(Ops)
        <5>1. l \in 0 .. Len(m)
          BY <1>0
        <5> QED
          BY <1>0, <5>1, UptoStep
      <4> HIDE DEF u
      <4>9. u \o Body = Append(Append(Append(Append(u, "-"), ">"), "+"), "<")
        <5>1. "-" \in Ops /\ ">" \in Ops /\ "+" \in Ops /\ "<" \in Ops
          BY OpsNeeded
        <5> QED
          BY ONLY <4>8, <5>1, ConcatTuple DEF Body
      <4> QED
        BY <1>1, <4>4, <4>5, <4>6, <4>7, <4>9 DEF u
    <3>8. Neutral(t)
      BY <2>4 DEF Neutral
    <3>9. Same(Upto(m, r), Upto(w, r))
      BY <1>1, <2>1, <2>2, <3>5, <3>6, <3>7, <3>8, ReplaceSame
    <3> QED
      BY <3>2, <3>9
  <2> QED
    BY <1>1, <2>6, <2>7 DEF Rewritten, w
<1> QED
  BY <1>2, <1>3 DEF MoveLoop

-----------------------------------------------------------------------------
LEMMA RightTotalNone ==
  ASSUME NEW m, NEW l
  PROVE  RightTotal(m, l, 0) = 0
<1> DEFINE S(g) == g = [k \in 0 .. 0 |-> IF k = 0 THEN 0 ELSE g[k - 1] + m[l + 2 * k].len]
           D == CHOOSE g : S(g)
           f == [k \in 0 .. 0 |-> 0]
<1>1. S(f)
  <2>1. \A k \in 0 .. 0 : k = 0
    OBVIOUS
  <2> QED
    BY <2>1
<1>2. S(D)
  BY <1>1
<1>3. D[0] = 0
  <2> HIDE DEF D
  <2>1. 0 \in 0 .. 0
    OBVIOUS
  <2> QED
    BY <1>2, <2>1
<1> QED
  BY <1>3 DEF RightTotal

LEMMA CopyLoopRewrites ==
  ASSUME size \in Nat, NEW m, Sound(m, size), NEW l \in 1 .. size, l + 1 <= size
  PROVE  Rewritten(m, CopyLoop(m, l), size, l)
<1> DEFINE d == Dests(m, l)
           ret == l + 2 + 2 * d
           t == Tok("C", d)
           w == CopyLoop(m, l)
           r == ret + 1
<1>1. CASE w = m
  BY <1>1 DEF Rewritten
<1>2. CASE /\ OpsAt(m, l, <<"[", "-">>) /\ ret <= size /\ m[ret].op = "<" /\ m[r].op = "]"
           /\ m[ret].len = RightTotal(m, l, d)
           /\ w = Replace(m, l, r, t)
  <2>0. m \in Seq(Token) /\ size <= Len(m) /\ l \in Nat
    BY DEF Sound
  <2>1. d \in Nat
    BY <2>0, DestsFound
  <2>r. ret = l + 2 + 2 * Dests(m, l)
    OBVIOUS
  <2>z. d = 0 => ret = l + 2 /\ m[ret].len = 0
    <3>1. d = 0 => ret = l + 2 /\ m[ret].len = RightTotal(m, l, 0)
      BY <1>2
    <3> QED
      BY <3>1, RightTotalNone
  <2>p. r = ret + 1
    OBVIOUS
  <2> HIDE DEF d
  <2>t. t \in Token /\ t.op = "C" /\ t.len = d
    <3>3. "C" \in Ops
      BY DEF Ops, RewriteOps
    <3> QED
      BY <2>1, <3>3, TokType
  <2> HIDE DEF ret, t, w, r
  <2>2. /\ m[l].op = "[" /\ ret \in Nat /\ ret >= l + 2
        /\ \A k \in l + 1 .. ret : Neutral(m[k]) /\ m[k].op \in {"-", ">", "+", "<"}
        /\ ret + 1 <= size
    BY <1>2, <2>r, CopyBody
  <2>3. r \in l + 2 .. size /\ r \in l + 1 .. size /\ r - 1 = ret /\ r \in Nat
    BY <2>0, <2>2, <2>p
  <2>4. /\ w[l] = t \/ w[l + 1] = t
        /\ \A k \in 1 .. size : k \notin l .. r => w[k] = m[k]
    BY <1>2, <2>0, <2>3, <2>t, ReplaceOutside
  <2>5. Window(m, w, size, l, r)
    <3>1. \A k \in l .. r : k = l \/ k = r \/ k \in l + 1 .. ret
      BY <2>0, <2>2, <2>3
    <3>2. \A k \in l .. r : m[k].op \notin {"C", "M"}
      BY <1>2, <2>2, <3>1
    <3> QED
      BY <2>3, <2>4, <3>2 DEF Window
  <2>6. ~(Alive(m, size) /\ Plain(w, size))
    <3> SUFFICES ASSUME Alive(m, size), Plain(w, size) PROVE FALSE
      OBVIOUS
    <3>1. ~(t.len > 0)
      <4>1. l + 1 \in 1 .. size
        OBVIOUS
      <4> QED
        BY <2>4, <2>t, <4>1 DEF Plain
    <3>2. d = 0
      BY <2>1, <2>t, <3>1
    <3>3. m[ret].len = 0 /\ ret \in 1 .. size
      BY <2>0, <2>2, <2>z, <3>2
    <3> QED
      BY <3>3 DEF Alive, Dead
  <2> QED
    BY <2>3, <2>5, <2>6 DEF Rewritten, w
<1> QED
  BY <1>1, <1>2 DEF CopyLoop

LEMMA OpenLoopRewrites ==
  ASSUME size \in Nat, NEW m, Sound(m, size), NEW l \in 1 .. size
  PROVE  Rewritten(m, OpenLoop(m, l), size, l)
<1> DEFINE z == ZeroLoop(m, l)
<1>1. CASE l + 2 > size
  BY <1>1 DEF OpenLoop, Rewritten
<1>2. CASE ~(l + 2 > size)
  <2>1. l + 2 <= size /\ l + 1 <= size /\ l \in Nat /\ l + 2 \in Nat
    BY <1>2
  <2>2. z = m \/ (/\ Window(m, z, size, l, l + 2) /\ z[l + 1].op # "-"
                  /\ Settled(z, l, l + 2) /\ Same(Upto(m, l + 2), Upto(z, l + 2)))
    BY <2>1, ZeroLoopRewrites
  <2>3. Rewritten(m, z, size, l)
    <3> HIDE DEF z
    <3> QED
      BY <2>1, <2>2 DEF Rewritten
  <2>4. CASE l + 5 > size
    BY <1>2, <2>3, <2>4 DEF OpenLoop
  <2>5. CASE ~(l + 5 > size)
    <3>0. l + 5 <= size /\ OpenLoop(m, l) = CopyLoop(MoveLoop(z, l), l)
      BY <1>2, <2>5 DEF OpenLoop
    <3> HIDE DEF z
    <3>1. CASE z # m
      <4>1. MoveLoop(z, l) = z /\ CopyLoop(z, l) = z
        BY <2>1, <2>2, <3>1, NoPattern
      <4> QED
        BY <2>3, <3>0, <4>1
    <3>2. CASE z = m /\ MoveLoop(m, l) = m
      BY <2>1, <3>0, <3>2, CopyLoopRewrites
    <3>3. CASE z = m /\ MoveLoop(m, l) # m
      <4> DEFINE v == MoveLoop(m, l)
                 t == Tok("M", m[l + 2].len)
                 r == l + 5
      <4>1. v = Replace(m, l, r, t)
        BY <3>3 DEF MoveLoop
      <4>2. v[l + 1].op # "-"
        <5>1. t.op # "-"
          BY DEF Tok
        <5>2. m \in Seq(Token) /\ size <= Len(m) /\ r \in l + 2 .. size
          BY <2>1, <3>0 DEF Sound
        <5> HIDE DEF t, r, v
        <5> QED
          BY <4>1, <5>1, <5>2, ReplaceOutside
      <4>3. CopyLoop(v, l) = v
        <5> HIDE DEF v
        <5> QED
          BY <2>1, <4>2, NoPattern
      <4>4. Rewritten(m, v, size, l)
        BY <3>0, MoveLoopRewrites
      <4> QED
        BY <3>0, <3>3, <4>3, <4>4
    <3> QED
      BY <3>1, <3>2, <3>3
  <2> QED
    BY <2>4, <2>5
<1> QED
  BY <1>1, <1>2

LEMMA FoldZeroWindow ==
  ASSUME size \in Nat, NEW m, Sound(m, size), NEW l \in 1 .. size, m[l].op = "Z"
  PROVE  LET w == FoldZero(m, l)
             r == l + 1
         IN  w = m \/ (/\ Window(m, w, size, l, r) /\ Same(Upto(m, r), Upto(w, r))
                       /\ m[r].len > 0 => Settled(w, l, r)
                       /\ m[r].op \in {"+", "-"})
<1> DEFINE Goal == LET w == FoldZero(m, l)
                       r == l + 1
                   IN  w = m \/ (/\ Window(m, w, size, l, r) /\ Same(Upto(m, r), Upto(w, r))
                                 /\ m[r].len > 0 => Settled(w, l, r)
                                 /\ m[r].op \in {"+", "-"})
<1>0. m \in Seq(Token) /\ size <= Len(m) /\ \A k \in 1 .. size : m[k] \in Token /\ k \in 1 .. Len(m)
  BY DEF Sound
<1>1. CASE FoldZero(m, l) = m
  BY <1>1
<1>2. ASSUME NEW o \in {"+", "-"}, NEW q \in {"A", "S"}, (o = "+" /\ q = "A") \/ (o = "-" /\ q = "S"),
             l + 1 <= size, m[l + 1].op = o,
             FoldZero(m, l) = Put(m, l, l + 1, Tok(q, m[l + 1].len))
      PROVE  Goal
  <2> DEFINE d == m[l + 1].len
             t == Tok(q, d)
             w == FoldZero(m, l)
             r == l + 1
  <2>0. r \in 1 .. size /\ r \in Nat /\ r \in l + 1 .. size /\ l \in Nat
    BY <1>2
  <2>1. d \in Nat
    BY <1>0, <2>0, WeightOf
  <2>w. w = Put(m, l, r, t)
    BY <1>2
  <2>s. w \in Seq(Token) /\ Len(w) = Len(m)
    BY FoldZeroSound DEF Sound
  <2>d. d = m[r].len
    OBVIOUS
  <2> HIDE DEF d
  <2>2. t \in Token /\ t.op = q /\ t.len = d
    <3>1. q \in Ops
      BY DEF Ops, RewriteOps
    <3> QED
      BY <2>1, <3>1, TokType
  <2> HIDE DEF t
  <2>3. Meaning(t) = ZL \o Run(o, d)
    <3>1. /\ t.op = "A" => Meaning(t) = ZL \o Run("+", t.len)
          /\ t.op = "S" => Meaning(t) = ZL \o Run("-", t.len)
      BY <2>2, MeaningAssigned
    <3> QED
      BY <1>2, <2>2, <3>1
  <2> HIDE DEF w
  <2>4. Same(Upto(m, r), Upto(w, r))
    <3>1. Meaning(t) = ZL \o Run(o, m[l + 1].len)
      BY <2>3, <2>d
    <3>2. Put(m, l, l + 1, t) \in Seq(Token) /\ Len(Put(m, l, l + 1, t)) = Len(m)
      BY <2>w, <2>s
    <3>3. Same(Upto(m, l + 1), Upto(Put(m, l, l + 1, t), l + 1))
      BY <1>2, <2>2, <3>1, <3>2, FoldPutSame
    <3> QED
      BY <2>w, <3>3
  <2>5. Window(m, w, size, l, r)
    <3>1. \A k \in 1 .. size : k \notin l .. r => w[k] = m[k]
      <4>1. DOMAIN m = 1 .. Len(m)
        BY <1>0
      <4> QED
        BY <4>1, <1>0, <2>w DEF Put
    <3>2. \A k \in l .. r : k = l \/ k = r
      BY <2>0
    <3>3. \A k \in l .. r : m[k].op \notin {"C", "M"}
      BY <1>2, <3>2
    <3> QED
      BY <2>0, <3>1, <3>3 DEF Window
  <2>6. m[r].len > 0 => Settled(w, l, r)
    <3> SUFFICES ASSUME m[r].len > 0 PROVE Settled(w, l, r)
      OBVIOUS
    <3>1. ~Dead(t)
      <4>1. m[r].len # 0
        OBVIOUS
      <4> QED
        BY <2>2, <2>d, <4>1 DEF Dead, NoOp
    <3>2. t.op \notin {"[", "-"}
      BY <2>2
    <3> HIDE DEF r
    <3> QED
      BY <2>0, <2>w, <3>1, <3>2, PutSettled
  <2> QED
    BY <1>2, <2>4, <2>5, <2>6 DEF w
<1> QED
  <2>1. \/ FoldZero(m, l) = m
        \/ /\ l + 1 <= size /\ m[l + 1].op = "+"
           /\ FoldZero(m, l) = Put(m, l, l + 1, Tok("A", m[l + 1].len))
        \/ /\ l + 1 <= size /\ m[l + 1].op = "-"
           /\ FoldZero(m, l) = Put(m, l, l + 1, Tok("S", m[l + 1].len))
    BY DEF FoldZero
  <2> QED
    BY <2>1, <1>1, <1>2

LEMMA FoldZeroRewrites ==
  ASSUME size \in Nat, NEW m, Sound(m, size), NEW l \in 1 .. size, m[l].op = "Z"
  PROVE  Rewritten(m, FoldZero(m, l), size, l)
<1> DEFINE w == FoldZero(m, l)
           r == l + 1
<1>1. CASE w = m
  BY <1>1 DEF Rewritten
<1>2. CASE w # m
  <2>1. Window(m, w, size, l, r) /\ Same(Upto(m, r), Upto(w, r)) /\ (m[r].len > 0 => Settled(w, l, r))
    BY <1>2, FoldZeroWindow
  <2> HIDE DEF w
  <2>2. r \in 1 .. size /\ r \in Nat /\ m[r].len \in Nat
    <3>1. r \in 1 .. size /\ r \in Nat
      BY <2>1 DEF Window
    <3>2. m[r] \in Token
      BY <3>1 DEF Sound
    <3> QED
      BY <3>1, <3>2, WeightOf
  <2>3. Alive(m, size) => m[r].len > 0
    BY <2>2 DEF Alive, Dead
  <2> QED
    BY <2>1, <2>2, <2>3 DEF Rewritten, w
<1> QED
  BY <1>1, <1>2

\* What a rewrite owes the compaction after it, and the program before it.
LEMMA RewrittenGood ==
  ASSUME NEW m, NEW w, NEW n \in Nat, Sound(m, n), Sound(w, n), NEW l, Rewritten(m, w, n, l),
         Plain(w, n)
  PROVE  /\ Plain(m, n)
         /\ Alive(m, n) /\ Singles(m, n)
              => Same(Upto(m, n), Upto(w, n)) /\ Tame(w, n) /\ Hollow(w, n)
<1>0. m \in Seq(Token) /\ w \in Seq(Token) /\ n <= Len(m) /\ n <= Len(w) /\ n \in 0 .. Len(m)
  BY DEF Sound
<1>1. CASE w = m
  <2>1. Upto(m, n) \in Seq(Ops)
    BY <1>0, UptoStep
  <2> QED
    BY <1>1, <2>1, SameRefl, AliveTame
<1>2. ASSUME NEW r \in Nat, Window(m, w, n, l, r),
             Alive(m, n) /\ Singles(m, n) /\ Plain(w, n)
               => Settled(w, l, r) /\ Same(Upto(m, r), Upto(w, r))
      PROVE  /\ Plain(m, n)
             /\ Alive(m, n) /\ Singles(m, n)
                  => Same(Upto(m, n), Upto(w, n)) /\ Tame(w, n) /\ Hollow(w, n)
  <2>1. Plain(m, n)
    BY <1>2, PlainBefore
  <2>2. ASSUME Alive(m, n), Singles(m, n)
        PROVE  Same(Upto(m, n), Upto(w, n)) /\ Tame(w, n) /\ Hollow(w, n)
    <3>1. Tame(w, n) /\ Hollow(w, n)
      BY <1>2, <2>2, SettledTame
    <3>2. r \in 0 .. n /\ \A k \in r + 1 .. n : m[k] = w[k]
      <4>1. l \in 1 .. n /\ r \in l + 1 .. n
        BY <1>2 DEF Window
      <4>2. \A k \in r + 1 .. n : k \in 1 .. n /\ k \notin l .. r
        BY <4>1
      <4> QED
        BY <1>2, <4>1, <4>2 DEF Window
    <3>3. Same(Upto(m, n), Upto(w, n))
      BY <1>0, <1>2, <2>2, <3>2, UptoSame
    <3> QED
      BY <3>1, <3>3
  <2> QED
    BY <2>1, <2>2
<1> QED
  BY <1>1, <1>2 DEF Rewritten

-----------------------------------------------------------------------------
(* What compacting keeps.                                                  *)

LEMMA Appended ==
  ASSUME NEW ts \in Seq(Token), NEW t \in Token
  PROVE  LET us == Append(ts, t)
         IN  /\ us \in Seq(Token) /\ Len(us) = Len(ts) + 1 /\ us[Len(ts) + 1] = t
             /\ Len(ts) \in Nat /\ \A k \in 1 .. Len(ts) : us[k] = ts[k]
             /\ \A k \in 1 .. Len(us) : k \in 1 .. Len(ts) \/ k = Len(ts) + 1
<1> DEFINE us == Append(ts, t)
<1>1. /\ us \in Seq(Token) /\ Len(us) = Len(ts) + 1 /\ us[Len(ts) + 1] = t
      /\ Len(ts) \in Nat /\ \A k \in 1 .. Len(ts) : us[k] = ts[k]
  BY AppendProperties
<1> HIDE DEF us
<1> QED
  BY <1>1 DEF us

\* Every live token and no other, and the last of them last.
Keeps(ts, us) ==
  /\ Alive(us, Len(us))
  /\ \A k \in 1 .. Len(ts) : ~Dead(ts[k]) => \E j \in 1 .. Len(us) : us[j] = ts[k]
  /\ Len(us) > 0 => \E q \in 1 .. Len(ts) : /\ ts[q] = us[Len(us)] /\ ~Dead(ts[q])
                                           /\ \A k \in q + 1 .. Len(ts) : Dead(ts[k])

LEMMA LivingKeeps == \A ts \in Seq(Token) : Keeps(ts, Living(ts))
<1> DEFINE T == {ts \in Seq(Token) : Keeps(ts, Living(ts))}
<1>1. <<>> \in T
  <2>1. Living(<<>>) = <<>> /\ Len(<<>>) = 0 /\ <<>> \in Seq(Token)
    BY LivingEmpty
  <2>2. Keeps(<<>>, <<>>)
    BY <2>1 DEF Keeps, Alive
  <2> QED
    BY <2>1, <2>2
<1>2. ASSUME NEW vs \in Seq(Token), vs \in T, NEW t \in Token PROVE Append(vs, t) \in T
  <2> DEFINE ws == Append(vs, t)
             us == Living(vs)
             xs == Append(us, t)
             y == Living(ws)
             n == Len(vs)
             m == Len(us)
  <2>0. us \in Seq(Token)
    BY LivingType
  <2>1. /\ ws \in Seq(Token) /\ Len(ws) = n + 1 /\ ws[n + 1] = t
        /\ n \in Nat /\ \A k \in 1 .. n : ws[k] = vs[k]
        /\ \A k \in 1 .. Len(ws) : k \in 1 .. n \/ k = n + 1
    BY Appended
  <2>2. /\ xs \in Seq(Token) /\ Len(xs) = m + 1 /\ xs[m + 1] = t
        /\ m \in Nat /\ \A k \in 1 .. m : xs[k] = us[k]
        /\ \A k \in 1 .. Len(xs) : k \in 1 .. m \/ k = m + 1
    <3> HIDE DEF us
    <3> QED
      BY <2>0, Appended
  <2>3. y = IF Dead(t) THEN us ELSE xs
    BY LivingAppend DEF Kept
  <2>4. Keeps(vs, us)
    BY <1>2
  <2> HIDE DEF ws, us, xs, y
  <2>5. CASE Dead(t)
    <3>1. y = us
      BY <2>3, <2>5
    <3>2. \A k \in 1 .. Len(ws) : ~Dead(ws[k]) => \E j \in 1 .. m : us[j] = ws[k]
      BY <2>1, <2>4, <2>5 DEF Keeps
    <3>3. ASSUME m > 0
          PROVE  \E q \in 1 .. Len(ws) : /\ ws[q] = us[m] /\ ~Dead(ws[q])
                                         /\ \A k \in q + 1 .. Len(ws) : Dead(ws[k])
      <4>1. PICK q \in 1 .. n : /\ vs[q] = us[m] /\ ~Dead(vs[q])
                                /\ \A k \in q + 1 .. n : Dead(vs[k])
        BY <2>4, <3>3 DEF Keeps
      <4>2. q \in 1 .. Len(ws) /\ ws[q] = vs[q]
        BY <2>1
      <4>3. ASSUME NEW k \in q + 1 .. Len(ws) PROVE Dead(ws[k])
        <5>1. k = n + 1 \/ (k \in q + 1 .. n /\ k \in 1 .. n)
          BY <2>1
        <5> QED
          BY <5>1, <4>1, <2>1, <2>5
      <4> QED
        BY <4>1, <4>2, <4>3
    <3>4. Keeps(ws, us)
      BY <2>4, <3>2, <3>3 DEF Keeps
    <3> QED
      BY <2>1, <3>1, <3>4 DEF ws, y
  <2>6. CASE ~Dead(t)
    <3>1. y = xs
      BY <2>3, <2>6
    <3>2. Alive(xs, Len(xs))
      BY <2>2, <2>4, <2>6 DEF Keeps, Alive
    <3>3. ASSUME NEW k \in 1 .. Len(ws), ~Dead(ws[k]) PROVE \E j \in 1 .. Len(xs) : xs[j] = ws[k]
      <4>1. CASE k = n + 1
        <5>1. m + 1 \in 1 .. Len(xs) /\ xs[m + 1] = ws[k]
          BY <4>1, <2>1, <2>2
        <5> QED
          BY <5>1
      <4>2. CASE k \in 1 .. n
        <5>1. ws[k] = vs[k]
          BY <4>2, <2>1
        <5>2. PICK j \in 1 .. m : us[j] = vs[k]
          BY <5>1, <4>2, <3>3, <2>4 DEF Keeps
        <5>3. j \in 1 .. Len(xs) /\ xs[j] = us[j]
          BY <2>2
        <5> QED
          BY <5>1, <5>2, <5>3
      <4> QED
        BY <4>1, <4>2, <2>1
    <3>4. \E q \in 1 .. Len(ws) : /\ ws[q] = xs[Len(xs)] /\ ~Dead(ws[q])
                                  /\ \A k \in q + 1 .. Len(ws) : Dead(ws[k])
      <4>1. n + 1 \in 1 .. Len(ws) /\ ws[n + 1] = xs[Len(xs)] /\ ~Dead(ws[n + 1])
        BY <2>1, <2>2, <2>6
      <4>2. \A k \in (n + 1) + 1 .. Len(ws) : Dead(ws[k])
        BY <2>1
      <4> QED
        BY <4>1, <4>2
    <3>5. Keeps(ws, xs)
      BY <3>2, <3>3, <3>4 DEF Keeps
    <3> QED
      BY <2>1, <3>1, <3>5 DEF ws, y
  <2> QED
    BY <2>5, <2>6
<1>3. Seq(Token) \subseteq T
  <2> HIDE DEF T
  <2> QED
    BY <1>1, <1>2, SeqInduction
<1> QED
  BY <1>3

\* Dropping dead tokens that spell nothing changes no text.
LEMMA LivingSpelled ==
  \A ts \in Seq(Token) : Hollow(ts, Len(ts)) => Spelled(Living(ts)) = Spelled(ts)
<1> DEFINE P(ts) == Hollow(ts, Len(ts)) => Spelled(Living(ts)) = Spelled(ts)
           T == {ts \in Seq(Token) : P(ts)}
<1>1. <<>> \in T
  <2>1. Living(<<>>) = <<>> /\ <<>> \in Seq(Token)
    BY LivingEmpty
  <2> QED
    BY <2>1
<1>2. ASSUME NEW vs \in Seq(Token), vs \in T, NEW t \in Token PROVE Append(vs, t) \in T
  <2> DEFINE ws == Append(vs, t)
             us == Living(vs)
             xs == Append(us, t)
             n == Len(vs)
  <2>0. us \in Seq(Token)
    BY LivingType
  <2>1. /\ ws \in Seq(Token) /\ Len(ws) = n + 1 /\ ws[n + 1] = t
        /\ n \in Nat /\ \A k \in 1 .. n : ws[k] = vs[k]
    BY Appended
  <2>2. Living(ws) = IF Dead(t) THEN us ELSE xs
    BY LivingAppend DEF Kept
  <2>3. Spelled(ws) = Spelled(vs) \o Meaning(t)
    BY SpelledAppend
  <2>4. Spelled(xs) = Spelled(us) \o Meaning(t)
    <3> HIDE DEF us
    <3> QED
      BY <2>0, SpelledAppend
  <2>5. Spelled(vs) \in Seq(Ops)
    BY SpelledType
  <2> HIDE DEF ws, us, xs
  <2>6. ASSUME Hollow(ws, n + 1) PROVE Spelled(Living(ws)) = Spelled(ws)
    <3>1. Hollow(vs, n)
      <4> SUFFICES ASSUME NEW k \in 1 .. n, Dead(vs[k]) PROVE Meaning(vs[k]) = <<>>
        BY DEF Hollow
      <4>1. k \in 1 .. n + 1 /\ ws[k] = vs[k]
        BY <2>1
      <4> QED
        BY <4>1, <2>6 DEF Hollow
    <3>2. Spelled(us) = Spelled(vs)
      BY <1>2, <3>1 DEF us
    <3>3. CASE Dead(t)
      <4>1. n + 1 \in 1 .. n + 1 /\ ws[n + 1] = t
        BY <2>1
      <4>2. Meaning(t) = <<>>
        BY <4>1, <3>3, <2>6 DEF Hollow
      <4>3. Spelled(vs) \o <<>> = Spelled(vs)
        BY <2>5, ConcatEmptySeq
      <4> QED
        BY <2>2, <2>3, <3>2, <3>3, <4>2, <4>3
    <3>4. CASE ~Dead(t)
      BY <2>2, <2>3, <2>4, <3>2, <3>4
    <3> QED
      BY <3>3, <3>4
  <2> QED
    BY <2>1, <2>6 DEF ws
<1>3. Seq(Token) \subseteq T
  <2> HIDE DEF T
  <2> QED
    BY <1>1, <1>2, SeqInduction
<1> QED
  BY <1>3

LEMMA LivingSingles ==
  \A ts \in Seq(Token) : Tame(ts, Len(ts)) => Singles(Living(ts), Len(Living(ts)))
<1> DEFINE P(ts) == Tame(ts, Len(ts)) => Singles(Living(ts), Len(Living(ts)))
           T == {ts \in Seq(Token) : P(ts)}
<1>1. <<>> \in T
  <2>1. Living(<<>>) = <<>> /\ <<>> \in Seq(Token) /\ Len(<<>>) = 0
    BY LivingEmpty
  <2>2. Singles(<<>>, 0)
    BY DEF Singles
  <2> QED
    BY <2>1, <2>2
<1>2. ASSUME NEW vs \in Seq(Token), vs \in T, NEW t \in Token PROVE Append(vs, t) \in T
  <2> DEFINE ws == Append(vs, t)
             us == Living(vs)
             xs == Append(us, t)
             n == Len(vs)
             m == Len(us)
  <2>0. us \in Seq(Token)
    BY LivingType
  <2>1. /\ ws \in Seq(Token) /\ Len(ws) = n + 1 /\ ws[n + 1] = t
        /\ n \in Nat /\ \A k \in 1 .. n : ws[k] = vs[k]
    BY Appended
  <2>2. /\ xs \in Seq(Token) /\ Len(xs) = m + 1 /\ xs[m + 1] = t
        /\ m \in Nat /\ \A k \in 1 .. m : xs[k] = us[k]
    <3> HIDE DEF us
    <3> QED
      BY <2>0, Appended
  <2>3. Living(ws) = IF Dead(t) THEN us ELSE xs
    BY LivingAppend DEF Kept
  <2>4. Keeps(vs, us)
    BY LivingKeeps
  <2>5. Tame(vs, n) => Singles(us, m)
    BY <1>2
  <2> HIDE DEF ws, us, xs
  <2>6. ASSUME Tame(ws, n + 1) PROVE Singles(Living(ws), Len(Living(ws)))
    <3>1. Tame(vs, n)
      <4> SUFFICES ASSUME NEW j \in 1 .. n, NEW k \in j + 1 .. n,
                          vs[j].op = "[", vs[k].op = "-", vs[k].len # 1, ~Dead(vs[j]), ~Dead(vs[k])
                   PROVE  \E q \in j + 1 .. k - 1 : ~Dead(vs[q])
        BY DEF Tame
      <4>1. j \in 1 .. n + 1 /\ k \in j + 1 .. n + 1 /\ ws[j] = vs[j] /\ ws[k] = vs[k]
        BY <2>1
      <4>2. PICK q \in j + 1 .. k - 1 : ~Dead(ws[q])
        BY <4>1, <2>6 DEF Tame
      <4>3. q \in 1 .. n
        BY <2>1
      <4> QED
        BY <4>2, <4>3, <2>1
    <3>2. Singles(us, m)
      BY <2>5, <3>1
    <3>3. CASE Dead(t)
      BY <2>3, <3>2, <3>3
    <3>4. CASE ~Dead(t)
      <4>1. Singles(xs, m + 1)
        <5> SUFFICES ASSUME NEW k \in 1 .. (m + 1) - 1, xs[k].op = "[", xs[k + 1].op = "-"
                     PROVE  xs[k + 1].len = 1
          BY DEF Singles
        <5>1. CASE k \in 1 .. m - 1
          <6>1. xs[k] = us[k] /\ xs[k + 1] = us[k + 1]
            BY <5>1, <2>2
          <6> QED
            BY <5>1, <6>1, <3>2 DEF Singles
        <5>2. CASE k = m
          <6>1. xs[k] = us[m] /\ xs[k + 1] = t /\ m > 0
            BY <5>2, <2>2
          <6>2. PICK q \in 1 .. n : /\ vs[q] = us[m] /\ ~Dead(vs[q])
                                    /\ \A j \in q + 1 .. n : Dead(vs[j])
            BY <6>1, <2>4 DEF Keeps
          <6>3. q \in 1 .. n + 1 /\ n + 1 \in q + 1 .. n + 1 /\ ws[q] = vs[q] /\ ws[n + 1] = t
            BY <2>1
          <6>4. ~(\E j \in q + 1 .. (n + 1) - 1 : ~Dead(ws[j]))
            <7>1. \A j \in q + 1 .. (n + 1) - 1 : j \in q + 1 .. n /\ j \in 1 .. n
              BY <2>1
            <7> QED
              BY <7>1, <6>2, <2>1
          <6>5. ~(ws[q].op = "[" /\ ws[n + 1].op = "-" /\ ws[n + 1].len # 1)
            BY <6>2, <6>3, <6>4, <3>4, <2>6 DEF Tame
          <6> QED
            BY <6>1, <6>2, <6>3, <6>5
        <5> QED
          BY <5>1, <5>2, <2>2
      <4> QED
        BY <2>2, <2>3, <3>4, <4>1
    <3> QED
      BY <3>3, <3>4
  <2> QED
    BY <2>1, <2>6 DEF ws
<1>3. Seq(Token) \subseteq T
  <2> HIDE DEF T
  <2> QED
    BY <1>1, <1>2, SeqInduction
<1> QED
  BY <1>3

-----------------------------------------------------------------------------
(* The invariant of the readings.                                          *)

LEMMA PrefixAlike ==
  ASSUME NEW a, NEW b, NEW n \in Nat, \A k \in 1 .. n : a[k] = b[k]
  PROVE  /\ Alive(a, n) => Alive(b, n)
         /\ Singles(a, n) => Singles(b, n)
         /\ Plain(a, n) => Plain(b, n)
         /\ Tame(a, n) => Tame(b, n)
         /\ Hollow(a, n) => Hollow(b, n)
<1>1. Alive(a, n) => Alive(b, n)
  BY DEF Alive
<1>2. Plain(a, n) => Plain(b, n)
  BY DEF Plain
<1>3. Hollow(a, n) => Hollow(b, n)
  BY DEF Hollow
<1>4. Singles(a, n) => Singles(b, n)
  <2>1. \A k \in 1 .. n - 1 : k \in 1 .. n /\ k + 1 \in 1 .. n
    OBVIOUS
  <2> QED
    BY <2>1 DEF Singles
<1>5. ASSUME Tame(a, n), NEW j \in 1 .. n, NEW k \in j + 1 .. n,
             b[j].op = "[", b[k].op = "-", b[k].len # 1, ~Dead(b[j]), ~Dead(b[k])
      PROVE  \E q \in j + 1 .. k - 1 : ~Dead(b[q])
  <2>1. k \in 1 .. n /\ a[j] = b[j]
    OBVIOUS
  <2>2. a[k] = b[k]
    BY <2>1
  <2>3. PICK q \in j + 1 .. k - 1 : ~Dead(a[q])
    BY <1>5, <2>1, <2>2 DEF Tame
  <2>4. q \in 1 .. n
    OBVIOUS
  <2> QED
    BY <2>3, <2>4
<1> QED
  BY <1>1, <1>2, <1>3, <1>4, <1>5 DEF Tame

LEMMA CompactedGood ==
  ASSUME size \in Nat, NEW w, Sound(w, size), Compacted(w)
  PROVE  /\ Alive(slots', size')
         /\ Plain(slots', size') => Plain(w, size)
         /\ Tame(w, size) => Singles(slots', size')
         /\ Hollow(w, size) => Upto(slots', size') = Upto(w, size)
<1> DEFINE ts == SubSeq(w, 1, size)
           us == Living(ts)
           m == Len(us)
<1>0. w \in Seq(Token) /\ size \in 0 .. Len(w)
  BY DEF Sound
<1>1. ts \in Seq(Token) /\ Len(ts) = size /\ \A k \in 1 .. size : ts[k] = w[k]
  BY SoundPrefix
<1>t. Upto(w, size) = Spelled(ts)
  BY DEF Upto
<1>2. slots' = us \o SubSeq(w, m + 1, Len(w)) /\ size' = m
  BY DEF Compacted
<1> HIDE DEF ts
<1>3. us \in Seq(Token) /\ m <= size
  BY <1>1, LivingType, LivingSound
<1>4. /\ Keeps(ts, us)
      /\ Hollow(ts, size) => Spelled(us) = Spelled(ts)
      /\ Tame(ts, size) => Singles(us, m)
  BY <1>1, LivingKeeps, LivingSpelled, LivingSingles
<1> HIDE DEF us
<1>5. /\ slots' \in Seq(Token) /\ Len(slots') = Len(w)
      /\ \A k \in 1 .. m : slots'[k] = us[k]
  BY <1>0, <1>2, <1>3, Slid
<1>6. /\ Hollow(w, size) => Hollow(ts, size)
      /\ Tame(w, size) => Tame(ts, size)
      /\ Plain(ts, size) => Plain(w, size)
  BY <1>1, PrefixAlike
<1>m. m \in Nat /\ size' = m
  BY <1>2, <1>3
<1> HIDE DEF m
<1> DEFINE s == slots'
<1>s. s \in Seq(Token) /\ Len(s) = Len(w) /\ \A k \in 1 .. m : s[k] = us[k]
  BY <1>5
<1> HIDE DEF s
<1>7. /\ Alive(us, m) => Alive(s, m)
      /\ Singles(us, m) => Singles(s, m)
      /\ Plain(s, m) => Plain(us, m)
  <2>1. \A k \in 1 .. m : us[k] = s[k]
    BY <1>s
  <2> QED
    BY <1>s, <1>m, <2>1, PrefixAlike
<1>8. Alive(s, m)
  BY <1>4, <1>7 DEF Keeps, m
<1>9. Plain(us, m) => Plain(ts, size)
  <2> SUFFICES ASSUME Plain(us, m), NEW k \in 1 .. size
               PROVE  /\ ts[k].op = "C" => ~(ts[k].len > 0)
                      /\ ts[k].op = "M" => ~(ts[k].len > 1)
    BY DEF Plain
  <2>0. ts[k] \in Token /\ ts[k].len \in Nat
    <3>1. ts[k] \in Token
      BY <1>1
    <3> QED
      BY <3>1, WeightOf
  <2>1. CASE Dead(ts[k])
    BY <2>0, <2>1 DEF Dead, NoOp
  <2>2. CASE ~Dead(ts[k])
    <3>1. PICK j \in 1 .. m : us[j] = ts[k]
      BY <1>1, <1>4, <2>2 DEF Keeps, m
    <3> QED
      BY <3>1 DEF Plain
  <2> QED
    BY <2>1, <2>2
<1>10. Upto(s, m) = Spelled(us)
  <2> DEFINE v == SubSeq(s, 1, m)
  <2>1. m \in 0 .. Len(s) /\ Len(us) = m
    BY <1>0, <1>3, <1>m, <1>s DEF m
  <2>2. v \in Seq(Token) /\ Len(v) = m /\ \A k \in 1 .. m : v[k] = s[k]
    BY <1>s, <2>1, Prefix
  <2> HIDE DEF v
  <2>3. \A k \in 1 .. Len(v) : v[k] = us[k]
    BY <2>2, <1>s
  <2>4. v = us
    BY <1>3, <2>1, <2>2, <2>3, SeqEqual
  <2> QED
    BY <2>4 DEF Upto, v
<1> QED
  BY <1>t, <1>m, <1>4, <1>6, <1>7, <1>8, <1>9, <1>10 DEF s

\* Programs lex hands over with no token that means nothing, whose loops count
\* down by one.
Handed(p) == Alive(p, Len(p)) /\ SingleDecrements

\* As long as no copy and no move by several cells has been written, the vector
\* reads as the program it was and does what it did, nothing in it is dead, and
\* a bracket is followed by no decrement of more than one.
RInv ==
  /\ IInv
  /\ Handed(input) /\ Plain(slots, size) =>
       /\ Reading(out) = Reading(input)
       /\ Yields(Spelled(input), Spelled(out))
       /\ Alive(slots, size) /\ Singles(slots, size)

LEMMA ReadingOut ==
  ASSUME NEW m, NEW n
  PROVE  Reading(SubSeq(m, 1, n)) = CollapseZeroing(Reduce(Upto(m, n)))
  BY DEF Reading, Upto

LEMMA InitRInv == Init => RInv
<1> SUFFICES ASSUME Init PROVE RInv
  OBVIOUS
<1>1. IInv
  BY InitIInv
<1> DEFINE g == [k \in 1 .. Slack |-> Garbage]
           v == input
<1>2. v \in Seq(Token) /\ g \in Seq(Token) /\ Len(g) = Slack /\ slots = v \o g /\ size = Len(v)
  BY ProgramsAssumption, SlackAssumption, GarbageType DEF Init
<1> HIDE DEF g, v
<1>3. v \o g \in Seq(Token) /\ Len(v \o g) = Len(v) + Len(g)
      /\ \A k \in 1 .. Len(v) : (v \o g)[k] = v[k]
  <2>1. v \in Seq(Token) /\ g \in Seq(Token)
    BY <1>2
  <2> QED
    BY ONLY <2>1, ConcatProperties
<1>4. size \in Nat /\ size \in 0 .. Len(v) /\ size <= Len(slots) /\ slots \in Seq(Token)
      /\ \A k \in 1 .. size : v[k] = slots[k]
  BY <1>2, <1>3, SlackAssumption
<1>5. out = v
  <2> DEFINE s == slots
             n == size
             o == SubSeq(s, 1, n)
  <2>1. s \in Seq(Token) /\ n \in 0 .. Len(s) /\ n = Len(v) /\ \A k \in 1 .. n : v[k] = s[k]
    BY <1>2, <1>4
  <2>d. o = out
    BY DEF out
  <2> HIDE DEF s, n
  <2>2. o \in Seq(Token) /\ Len(o) = n /\ \A k \in 1 .. n : o[k] = s[k]
    BY <2>1, Prefix
  <2> HIDE DEF o
  <2>3. \A k \in 1 .. Len(o) : o[k] = v[k]
    BY <2>1, <2>2
  <2>4. o = v
    BY <1>2, <2>1, <2>2, <2>3, SeqEqual
  <2> QED
    BY <2>4, <2>d
<1>6. ASSUME Handed(v) PROVE Alive(slots, size) /\ Singles(slots, size)
  <2>1. Alive(v, size)
    BY <1>2, <1>6 DEF Handed
  <2>2. Singles(v, size)
    BY <1>2, <1>6 DEF Handed, SingleDecrements, Singles, v
  <2> DEFINE s == slots
             n == size
  <2>3. n \in Nat /\ (\A k \in 1 .. n : v[k] = s[k]) /\ Alive(v, n) /\ Singles(v, n)
    BY <1>4, <2>1, <2>2
  <2> HIDE DEF s, n
  <2>4. Alive(s, n) /\ Singles(s, n)
    BY ONLY <2>3, PrefixAlike
  <2> QED
    BY <2>4 DEF s, n
<1>7. Yields(Spelled(v), Spelled(v))
  <2>1. Upto(v, Len(v)) \in Seq(Ops) /\ Len(v) \in 0 .. Len(v)
    BY <1>2, UptoStep
  <2>2. SubSeq(v, 1, Len(v)) = v
    BY <1>2, <1>5 DEF out
  <2>3. Spelled(v) \in Streams
    BY <2>1, <2>2 DEF Upto, Streams
  <2> QED
    BY <2>3, YieldsRefl
<1> QED
  BY <1>1, <1>5, <1>6, <1>7 DEF RInv, v

\* One visit: a rewrite, then the compaction.
LEMMA VisitRInv ==
  ASSUME RInv, IInv', NEW m, NEW l, Sound(m, size), Rewritten(slots, m, size, l),
         Compacted(m), UNCHANGED input
  PROVE  RInv'
<1> SUFFICES ASSUME Handed(input), Plain(slots', size')
             PROVE  /\ Reading(out') = Reading(input)
                    /\ Yields(Spelled(input), Spelled(out'))
                    /\ Alive(slots', size') /\ Singles(slots', size')
  <2>1. Handed(input)' <=> Handed(input)
    BY DEF Handed, SingleDecrements
  <2>2. Reading(out)' = Reading(out')
    OBVIOUS
  <2>3. /\ Reading(input)' = Reading(input)
        /\ Yields(Spelled(input), Spelled(out))' <=> Yields(Spelled(input), Spelled(out'))
    OBVIOUS
  <2> QED
    BY <2>1, <2>2, <2>3 DEF RInv
<1>0. size \in Nat /\ Sound(slots, size)
  BY DEF RInv, IInv, Sound
<1>1. /\ Alive(slots', size') /\ Plain(m, size)
      /\ Tame(m, size) => Singles(slots', size')
      /\ Hollow(m, size) => Upto(slots', size') = Upto(m, size)
  BY <1>0, CompactedGood
<1> DEFINE w == slots
           n == size
<1>2. /\ Plain(w, n)
      /\ Alive(w, n) /\ Singles(w, n)
           => Same(Upto(w, n), Upto(m, n)) /\ Tame(m, n) /\ Hollow(m, n)
  <2>1. n \in Nat /\ Sound(w, n) /\ Sound(m, n) /\ Rewritten(w, m, n, l) /\ Plain(m, n)
    BY <1>0, <1>1
  <2> HIDE DEF w, n
  <2> QED
    BY ONLY <2>1, RewrittenGood
<1>3. Reading(out) = Reading(input) /\ Alive(w, n) /\ Singles(w, n)
      /\ Yields(Spelled(input), Spelled(out))
  BY <1>2 DEF RInv
<1>4. Same(Upto(w, n), Upto(m, n)) /\ Singles(slots', size') /\ Upto(slots', size') = Upto(m, n)
  BY <1>1, <1>2, <1>3
<1>5. CollapseZeroing(Reduce(Upto(w, n))) = CollapseZeroing(Reduce(Upto(m, n)))
  <2> DEFINE a == Upto(w, n)
             b == Upto(m, n)
  <2>1. Same(a, b)
    BY <1>4
  <2> HIDE DEF a, b
  <2>2. CollapseZeroing(Reduce(a)) = CollapseZeroing(Reduce(b))
    BY ONLY <2>1, SameReads
  <2> QED
    BY <2>2 DEF a, b
<1>6. Reading(out) = CollapseZeroing(Reduce(Upto(w, n)))
      /\ Reading(out') = CollapseZeroing(Reduce(Upto(slots', size')))
  BY DEF Reading, Upto, out
<1>7. Yields(Spelled(input), Spelled(out'))
  <2>1. Spelled(out) = Upto(w, n) /\ Spelled(out') = Upto(m, n)
    BY <1>4 DEF Upto, out
  <2>2. Yields(Upto(w, n), Upto(m, n))
    BY <1>4 DEF Same
  <2> HIDE DEF w, n
  <2> QED
    BY <1>3, <2>1, <2>2, YieldsTrans
<1> QED
  BY <1>1, <1>3, <1>4, <1>5, <1>6, <1>7

LEMMA StepRInv == RInv /\ [Next]_vars => RInv'
<1> SUFFICES ASSUME RInv, [Next]_vars PROVE RInv'
  OBVIOUS
<1>0. IInv /\ IInv'
  BY StepIInv DEF RInv
<1>1. Sound(slots, size) /\ size \in Nat /\ i \in Nat
  BY <1>0 DEF IInv, TypeOK, Sound
<1>2. Visiting => i + 1 \in 1 .. size
  BY <1>1 DEF Visiting
<1>3. ASSUME UNCHANGED <<input, slots, size>> PROVE RInv'
  <2>1. Handed(input)' <=> Handed(input)
    BY <1>3 DEF Handed, SingleDecrements
  <2>2. out' = out
    BY <1>3 DEF out
  <2>3. /\ Reading(out)' = Reading(out') /\ Reading(input)' = Reading(input)
        /\ Yields(Spelled(input), Spelled(out))' <=> Yields(Spelled(input), Spelled(out))
    BY <1>3, <2>2
  <2>4. /\ Plain(slots, size)' <=> Plain(slots, size)
        /\ Alive(slots, size)' <=> Alive(slots, size)
        /\ Singles(slots, size)' <=> Singles(slots, size)
    BY <1>3
  <2> QED
    BY <1>0, <2>1, <2>2, <2>3, <2>4 DEF RInv
<1>4. CASE VisitLoop
  <2> DEFINE l == i + 1
             m == OpenLoop(slots, l)
  <2>1. Visiting /\ UNCHANGED input /\ Compacted(m)
    BY <1>4 DEF VisitLoop
  <2>2. l \in 1 .. size
    BY <1>2, <2>1
  <2> HIDE DEF l
  <2>4. Sound(m, size) /\ Rewritten(slots, m, size, l)
    BY <1>1, <2>2, OpenLoopSound, OpenLoopRewrites
  <2> HIDE DEF m
  <2> QED
    BY <1>0, <2>1, <2>4, VisitRInv
<1>5. CASE VisitZero
  <2> DEFINE l == i + 1
             m == FoldZero(slots, l)
  <2>1. Visiting /\ UNCHANGED input /\ Compacted(m) /\ slots[l].op = "Z"
    BY <1>5 DEF VisitZero, cur
  <2>2. l \in 1 .. size
    BY <1>2, <2>1
  <2> HIDE DEF l
  <2>4. Sound(m, size) /\ Rewritten(slots, m, size, l)
    BY <1>1, <2>1, <2>2, FoldZeroSound, FoldZeroRewrites
  <2> HIDE DEF m
  <2> QED
    BY <1>0, <2>1, <2>4, VisitRInv
<1>6. CASE VisitOther
  <2>1. UNCHANGED input /\ Compacted(slots)
    BY <1>6 DEF VisitOther
  <2>2. Rewritten(slots, slots, size, 1)
    BY DEF Rewritten
  <2> QED
    BY <1>0, <1>1, <2>1, <2>2, VisitRInv
<1>7. CASE SkipDead \/ EndPass \/ Finish \/ Stop \/ UNCHANGED vars
  BY <1>3, <1>7 DEF SkipDead, EndPass, Finish, Stop, vars
<1> QED
  BY <1>4, <1>5, <1>6, <1>7 DEF Next

\* Whatever the pass has rewritten and compacted so far, the tokens read back
\* as the program lex returned, unless a copy or a move by several cells was
\* written; and no rewrite has depended on the slot past the vector
\* (optm.c:10-139, lv_vec_get.c:17).
THEOREM RewritesReadBack == Spec => []RewritesExact
<1>1. Spec => []RInv
  BY InitRInv, StepRInv, PTL DEF Spec
<1>2. RInv => RewritesExact
  <2> SUFFICES ASSUME RInv PROVE RewritesExact
    OBVIOUS
  <2>0. ~stray /\ input \in Seq(Token) /\ Sound(slots, size)
    BY DEF RInv, IInv, TypeOK
  <2> SUFFICES ASSUME \A k \in DOMAIN input : ~Dead(input[k]), SingleDecrements,
                      ~Changes("C", 0), ~Changes("M", 1)
               PROVE  Reading(out) = Reading(input)
    BY <2>0 DEF RewritesExact
  <2>1. Handed(input)
    BY <2>0 DEF Handed, Alive
  <2>2. \A k \in 1 .. size : out[k] = slots[k]
    BY <2>0, SoundPrefix DEF out
  <2>3. Plain(slots, size)
    BY <2>2 DEF Plain, Changes
  <2> QED
    BY <2>1, <2>3 DEF RInv
<1> QED
  BY <1>1, <1>2, PTL

\* Wherever the text of the program lex returned stands, on every machine, the
\* text the tokens stand for at any moment of the pass can take its place: what
\* ends still ends, with the same output and cells. With no copy and no move by
\* several cells, from a program whose loops count down by one (optm.c:10-139).
RewritesKeep ==
  Handed(input) /\ Plain(slots, size) => Yields(Spelled(input), Spelled(out))

THEOREM RewritesKeepBehaviour == Spec => []RewritesKeep
<1>1. Spec => []RInv
  BY InitRInv, StepRInv, PTL DEF Spec
<1>2. RInv => RewritesKeep
  BY DEF RInv, RewritesKeep
<1> QED
  BY <1>1, <1>2, PTL

-----------------------------------------------------------------------------
(* The loop a blank tape passes over.                                      *)

LEMMA RunCons ==
  ASSUME NEW c \in Ops, NEW j \in Nat, NEW s \in Streams
  PROVE  Run(c, j + 1) \o s = <<c>> \o (Run(c, j) \o s) /\ Run(c, j) \o s \in Streams
<1>1. /\ Run(c, j + 1) = Cat(<<c>>, Run(c, j)) /\ Run(c, j) \in Streams /\ <<c>> \in Streams
  BY RunEnds
<1>2. Cat(Run(c, j + 1), s) = Cat(<<c>>, Cat(Run(c, j), s)) /\ Cat(Run(c, j), s) \in Streams
  BY <1>1, CatAssoc, CatType
<1> QED
  BY <1>2 DEF Cat

LEMMA PassRuns ==
  ASSUME NEW e, NEW s \in Streams, NEW l, NEW d
  PROVE  /\ \A j \in Nat : \A k \in Nat \ {0} :
              Reaches(e, Conf(Run("[", j) \o s, l, k, d), Conf(s, l, k + j, d))
         /\ \A j \in Nat : \A k \in Nat :
              k >= j => Reaches(e, Conf(Run("]", j) \o s, l, k, d), Conf(s, l, k - j, d))
<1> DEFINE T == {j \in Nat : /\ \A k \in Nat \ {0} :
                                  Reaches(e, Conf(Run("[", j) \o s, l, k, d), Conf(s, l, k + j, d))
                             /\ \A k \in Nat :
                                  k >= j => Reaches(e, Conf(Run("]", j) \o s, l, k, d), Conf(s, l, k - j, d))}
<1>0. "[" \in Ops /\ "]" \in Ops
  BY OpsKnown
<1>1. 0 \in T
  <2>1. Run("[", 0) \o s = s /\ Run("]", 0) \o s = s
    BY <1>0, RunUnit, TextEmpty
  <2>2. \A k \in Nat : k + 0 = k /\ k - 0 = k
    OBVIOUS
  <2> QED
    BY <2>1, <2>2, LeadsRefl
<1>2. ASSUME NEW j \in Nat, j \in T PROVE j + 1 \in T
  <2>1. ASSUME NEW k \in Nat \ {0}
        PROVE  Reaches(e, Conf(Run("[", j + 1) \o s, l, k, d), Conf(s, l, k + (j + 1), d))
    <3> DEFINE u == Run("[", j) \o s
    <3>1. Run("[", j + 1) \o s = <<"[">> \o u /\ u \in Streams
      BY <1>0, RunCons
    <3>2. Reaches(e, Conf(u, l, k + 1, d), Conf(s, l, (k + 1) + j, d))
      <4>1. k + 1 \in Nat \ {0}
        OBVIOUS
      <4> QED
        BY <1>2, <4>1
    <3> HIDE DEF u
    <3>3. Reaches(e, Conf(<<"[">> \o u, l, k, d), Conf(u, l, k + 1, d))
      BY <3>1, PassOpening
    <3>4. (k + 1) + j = k + (j + 1)
      OBVIOUS
    <3> QED
      BY <3>1, <3>2, <3>3, <3>4, LeadsTrans
  <2>2. ASSUME NEW k \in Nat, k >= j + 1
        PROVE  Reaches(e, Conf(Run("]", j + 1) \o s, l, k, d), Conf(s, l, k - (j + 1), d))
    <3> DEFINE u == Run("]", j) \o s
    <3>1. Run("]", j + 1) \o s = <<"]">> \o u /\ u \in Streams
      BY <1>0, RunCons
    <3>2. Reaches(e, Conf(u, l, k - 1, d), Conf(s, l, (k - 1) - j, d))
      <4>1. k - 1 \in Nat /\ k - 1 >= j
        BY <2>2
      <4> QED
        BY <1>2, <4>1
    <3> HIDE DEF u
    <3>3. Reaches(e, Conf(<<"]">> \o u, l, k, d), Conf(u, l, k - 1, d))
      <4>1. k \in Nat \ {0}
        BY <2>2
      <4> QED
        BY <3>1, <4>1, PassClosing
    <3>4. (k - 1) - j = k - (j + 1)
      OBVIOUS
    <3> QED
      BY <3>1, <3>2, <3>3, <3>4, LeadsTrans
  <2> QED
    BY <2>1, <2>2
<1>3. Nat \subseteq T
  <2> HIDE DEF T
  <2> QED
    BY <1>1, <1>2, SetInduction
<1> QED
  BY <1>3

\* Where the cell is zero, a bracketed text that does not open or close more
\* is passed over, and so many of its brackets as are left open.
LEMMA FirstLoop ==
  ASSUME NEW e, NEW x \in Streams, Over(x), NEW v \in Streams, NEW d, Here(d) = 0,
         NEW a \in Nat \ {0}, NEW c \in Nat, c <= a, NEW l
  PROVE  Reaches(e, Conf(Run("[", a) \o (x \o (Run("]", c) \o v)), l, 0, d), Conf(v, l, a - c, d))
<1> DEFINE z == Run("]", c) \o v
           y == x \o z
           j == a - 1
           u == Run("[", j) \o y
<1>0. "[" \in Ops /\ "]" \in Ops /\ j \in Nat /\ j + 1 = a /\ 1 + j = a
  BY OpsKnown
<1>1. z \in Streams /\ y \in Streams
  BY <1>0, RunText, TextJoined
<1> HIDE DEF z, j
<1>2. Reaches(e, Conf(z, l, a, d), Conf(v, l, a - c, d))
  BY PassRuns DEF z
<1>3. Reaches(e, Conf(y, l, a, d), Conf(z, l, a, d))
  BY <1>1 DEF Over
<1> HIDE DEF y
<1>4. Reaches(e, Conf(u, l, 1, d), Conf(y, l, a, d))
  <2>1. 1 \in Nat \ {0}
    OBVIOUS
  <2>2. Reaches(e, Conf(Run("[", j) \o y, l, 1, d), Conf(y, l, 1 + j, d))
    BY <1>0, <1>1, <2>1, PassRuns
  <2> QED
    BY <1>0, <2>2
<1>5. Run("[", a) \o y = <<"[">> \o u /\ u \in Streams
  <2>1. Run("[", j + 1) \o y = <<"[">> \o (Run("[", j) \o y) /\ Run("[", j) \o y \in Streams
    BY <1>0, <1>1, RunCons
  <2> QED
    BY <1>0, <2>1
<1> HIDE DEF u
<1>6. Reaches(e, Conf(<<"[">> \o u, l, 0, d), Conf(u, l, 1, d))
  <2>1. May(e, Conf(<<"[">> \o u, l, 0, d)) /\ Step(e, Conf(<<"[">> \o u, l, 0, d)) = Conf(u, l, 1, d)
    BY <1>5, StepLoop
  <2> QED
    BY <2>1, LeadsTo
<1>7. Reaches(e, Conf(u, l, 1, d), Conf(v, l, a - c, d))
  BY <1>2, <1>3, <1>4, LeadsTrans
<1>8. Reaches(e, Conf(<<"[">> \o u, l, 0, d), Conf(v, l, a - c, d))
  BY <1>6, <1>7, LeadsTrans
<1> QED
  BY <1>5, <1>8 DEF y, z

LEMMA BlankType ==
  ASSUME NEW e \in Machines, NEW in \in Seq(CellValues(e))
  PROVE  Blank(in) \in Datas(e) /\ Here(Blank(in)) = 0
<1>1. e.size \in Nat \ {0}
  BY DEF Machines
<1>2. <<>> \in Tapes(e)
  <2>1. {} \in SUBSET Nat
    OBVIOUS
  <2>2. <<>> \in [{} -> 1 .. e.values - 1]
    OBVIOUS
  <2> QED
    BY <2>1, <2>2 DEF Tapes
<1>3. <<>> \in Seq(CellValues(e)) /\ 0 \in Nat /\ 0 < e.size
  BY <1>1
<1>4. Blank(in) \in [head : Nat, tape : Tapes(e), in : Seq(CellValues(e)), out : Seq(CellValues(e))]
      /\ Blank(in).head = 0 /\ Blank(in).tape = <<>>
  BY <1>2, <1>3 DEF Blank
<1>5. Here(Blank(in)) = 0
  <2>1. 0 \notin DOMAIN <<>>
    OBVIOUS
  <2> QED
    BY <1>4, <2>1 DEF Here, CellOf
<1> QED
  BY <1>3, <1>4, <1>5 DEF Datas

\* From a blank tape, q ends as p does.
DoesAs(p, q) ==
  \A e \in Machines : \A in \in Seq(CellValues(e)) : \A f :
    Ends(e, Begin(p, Blank(in)), f) => Ends(e, Begin(q, Blank(in)), f)

LEMMA DoesRefl == \A p : DoesAs(p, p)
  BY DEF DoesAs

LEMMA DoesTrans ==
  ASSUME NEW p, NEW q, NEW r, DoesAs(p, q), DoesAs(q, r)
  PROVE  DoesAs(p, r)
  BY DEF DoesAs

LEMMA YieldsDoes ==
  ASSUME NEW p, NEW q, Yields(p, q)
  PROVE  DoesAs(p, q)
<1> SUFFICES ASSUME NEW e \in Machines, NEW in \in Seq(CellValues(e)), NEW f,
                    Ends(e, Begin(p, Blank(in)), f)
             PROVE  Ends(e, Begin(q, Blank(in)), f)
  BY DEF DoesAs
<1>1. Follows(e, p, q)
  BY YieldsText
<1>2. Blank(in) \in Datas(e)
  BY BlankType
<1> QED
  BY <1>1, <1>2 DEF Follows

\* The first loop of a program is not entered, and it is the same with its
\* body, one opening and one closing bracket gone.
LEMMA FirstLoopDropped ==
  ASSUME NEW x \in Streams, Over(x), NEW v \in Streams, NEW a \in Nat \ {0}, NEW c \in Nat \ {0}, c <= a
  PROVE  DoesAs(Run("[", a) \o (x \o (Run("]", c) \o v)), Run("[", a - 1) \o (Run("]", c - 1) \o v))
<1> DEFINE p == Run("[", a) \o (x \o (Run("]", c) \o v))
           z == Run("]", c - 1) \o v
           q == Run("[", a - 1) \o z
<1> SUFFICES ASSUME NEW e \in Machines, NEW in \in Seq(CellValues(e)), NEW f,
                    Ends(e, Begin(p, Blank(in)), f)
             PROVE  Ends(e, Begin(q, Blank(in)), f)
  BY DEF DoesAs
<1> DEFINE d == Blank(in)
<1>0. Here(d) = 0 /\ "[" \in Ops /\ "]" \in Ops
  BY BlankType, OpsKnown
<1> HIDE DEF d
<1>1. Reaches(e, Begin(p, d), Conf(v, <<>>, a - c, d))
  <2>1. c \in Nat
    OBVIOUS
  <2>2. Reaches(e, Conf(Run("[", a) \o (x \o (Run("]", c) \o v)), <<>>, 0, d), Conf(v, <<>>, a - c, d))
    BY ONLY <1>0, <2>1, FirstLoop, x \in Streams, Over(x), v \in Streams, a \in Nat \ {0}, c <= a
  <2> QED
    BY <2>2 DEF Begin
<1>2. Ends(e, Conf(v, <<>>, a - c, d), f)
  BY <1>1, ReachesEnd DEF d
<1>3. CASE a = 1
  <2>1. c = 1 /\ a - 1 = 0 /\ c - 1 = 0 /\ a - c = 0
    BY <1>3
  <2>2. q = v
    <3>1. Run("[", 0) = <<>> /\ Run("]", 0) = <<>>
      BY <1>0, RunUnit
    <3> QED
      BY <2>1, <3>1, TextEmpty
  <2> QED
    BY <1>2, <2>1, <2>2 DEF Begin, d
<1>4. CASE a # 1
  <2>1. a - 1 \in Nat \ {0} /\ c - 1 \in Nat /\ c - 1 <= a - 1 /\ (a - 1) - (c - 1) = a - c
    BY <1>4
  <2>2. z \in Streams /\ <<>> \in Streams /\ <<>> \o z = z
    BY <1>0, <2>1, RunText, TextJoined, TextEmpty
  <2>3. Reaches(e, Conf(Run("[", a - 1) \o (<<>> \o z), <<>>, 0, d), Conf(v, <<>>, (a - 1) - (c - 1), d))
    <3> DEFINE a1 == a - 1
               c1 == c - 1
    <3>1. a1 \in Nat \ {0} /\ c1 \in Nat /\ c1 <= a1
      BY <2>1
    <3> HIDE DEF a1, c1
    <3>2. Reaches(e, Conf(Run("[", a1) \o (<<>> \o (Run("]", c1) \o v)), <<>>, 0, d), Conf(v, <<>>, a1 - c1, d))
      BY ONLY <1>0, <2>2, <3>1, OverNothing, FirstLoop, v \in Streams
    <3> QED
      BY <3>2 DEF a1, c1
  <2>4. Reaches(e, Begin(q, d), Conf(v, <<>>, a - c, d))
    BY <2>1, <2>2, <2>3 DEF Begin
  <2> QED
    BY <1>2, <2>4 DEF Reaches, d
<1> QED
  BY <1>3, <1>4

\* What follows slot r reads the same in two vectors that are the same there.
LEMMA UptoThen ==
  ASSUME NEW m \in Seq(Token), NEW w \in Seq(Token), NEW n \in Nat, n <= Len(m), n <= Len(w),
         NEW r \in 0 .. n, \A k \in r + 1 .. n : m[k] = w[k]
  PROVE  \E v \in Streams : Upto(m, n) = Upto(m, r) \o v /\ Upto(w, n) = Upto(w, r) \o v
<1> DEFINE After(j, v) == Upto(m, j) = Upto(m, r) \o v /\ Upto(w, j) = Upto(w, r) \o v
           Some(j) == \E v \in Streams : After(j, v)
           T == {j \in Nat : r + j <= n => Some(r + j)}
<1>0. Upto(m, r) \in Streams /\ Upto(w, r) \in Streams
  BY UptoStep DEF Streams
<1>1. 0 \in T
  <2>1. r + 0 = r
    OBVIOUS
  <2>2. After(r, <<>>) /\ <<>> \in Streams
    BY <1>0, TextEmpty
  <2> QED
    BY <2>1, <2>2
<1>2. ASSUME NEW j \in Nat, j \in T PROVE j + 1 \in T
  <2> HIDE DEF Some
  <2> SUFFICES ASSUME r + (j + 1) <= n PROVE Some(r + (j + 1))
    OBVIOUS
  <2> USE DEF Some
  <2> DEFINE k == r + (j + 1)
             i0 == k - 1
             u == Meaning(m[k])
  <2>1. k \in 1 .. Len(m) /\ k \in 1 .. Len(w) /\ k \in r + 1 .. n /\ i0 = r + j /\ r + j <= n
        /\ m[k] \in Token /\ w[k] = m[k]
    OBVIOUS
  <2>2. PICK v \in Streams : After(i0, v)
    BY <1>2, <2>1
  <2>3. u \in Streams
    BY <2>1, MeaningType DEF Streams
  <2>4. Upto(m, k) = Upto(m, i0) \o u /\ Upto(w, k) = Upto(w, i0) \o u
    <3> HIDE DEF k
    <3> QED
      BY <2>1, UptoStep
  <2> HIDE DEF u
  <2>5. After(k, v \o u) /\ v \o u \in Streams
    <3> HIDE DEF k, i0
    <3>1. \A a \in Streams : (a \o v) \o u = a \o (v \o u)
      BY <2>3, TextAssoc
    <3> QED
      BY <1>0, <2>2, <2>3, <2>4, <3>1, TextJoined
  <2> QED
    BY <2>5
<1>3. Nat \subseteq T
  <2> HIDE DEF T
  <2> QED
    BY <1>1, <1>2, SetInduction
<1>4. n - r \in Nat /\ r + (n - r) = n
  OBVIOUS
<1>5. Some(n)
  <2> HIDE DEF Some
  <2> QED
    BY <1>3, <1>4
<1> QED
  BY <1>5

-----------------------------------------------------------------------------
(* Before anything is compacted.                                           *)

\* The text before slot l, when all slots before it are dead.
LEMMA NothingBefore ==
  ASSUME NEW m, NEW n \in Nat, Sound(m, n), Hollow(m, n), NEW l \in 1 .. n,
         \A k \in 1 .. l - 1 : Dead(m[k])
  PROVE  Upto(m, l - 1) = <<>> /\ TokDepth(m, l - 1) = 0
<1> DEFINE j == l - 1
<1>0. m \in Seq(Token) /\ n <= Len(m) /\ j \in Nat /\ j <= Len(m) /\ 0 \in Nat /\ j \in 0 .. j
  BY DEF Sound
<1>1. \A k \in 0 + 1 .. j : /\ m[k] \in Token /\ Dead(m[k]) /\ Meaning(m[k]) = <<>>
                            /\ Weight(m[k]) = 0
  <2> SUFFICES ASSUME NEW k \in 0 + 1 .. j
               PROVE  m[k] \in Token /\ Dead(m[k]) /\ Meaning(m[k]) = <<>> /\ Weight(m[k]) = 0
    OBVIOUS
  <2>1. k \in 1 .. l - 1 /\ k \in 1 .. n /\ k \in 1 .. Len(m)
    BY <1>0
  <2>2. m[k] \in Token /\ Dead(m[k]) /\ Meaning(m[k]) = <<>>
    BY <1>0, <2>1 DEF Hollow
  <2> QED
    BY <2>2, DeadWeight
<1> HIDE DEF j
<1>2. Upto(m, j) = Upto(m, 0)
  BY ONLY <1>0, <1>1, UptoFlat
<1>3. TokDepth(m, j) = TokDepth(m, 0)
  BY ONLY <1>0, <1>1, DepthFlat
<1> QED
  BY <1>0, <1>2, <1>3, UptoStep, TokDepthStep DEF j

\* [-< with a cancelled move ] is no loop to a program that begins with it.
LEMMA LeadingLoop ==
  ASSUME NEW m, NEW n \in Nat, Sound(m, n), Hollow(m, n), NEW l \in 1 .. n, l + 3 <= n,
         \A k \in 1 .. l - 1 : Dead(m[k]),
         m[l].op = "[", m[l + 1].op = "-", m[l + 2].op = "<", m[l + 2].len = 0, m[l + 3].op = "]",
         NEW t, Neutral(t), Meaning(t) = <<>>
  PROVE  DoesAs(Upto(m, n), Upto(Replace(m, l, l + 3, t), n))
<1> DEFINE r == l + 3
           w == Replace(m, l, r, t)
           a == m[l].len
           c == m[r].len
           x == Meaning(m[l + 1])
<1>0. /\ m \in Seq(Token) /\ n <= Len(m) /\ Len(m) \in Nat /\ r \in l + 2 .. n /\ r \in 0 .. n
      /\ l \in 1 .. Len(m) /\ l + 1 \in 1 .. Len(m) /\ l + 2 \in 1 .. Len(m) /\ r \in 1 .. Len(m)
      /\ (l + 1) - 1 = l /\ (l + 2) - 1 = l + 1 /\ r - 1 = l + 2 /\ r \in 1 .. n
      /\ m[l] \in Token /\ m[l + 1] \in Token /\ m[l + 2] \in Token /\ m[r] \in Token
  BY DEF Sound
<1>1. a \in Nat \ {0} /\ c \in Nat \ {0}
  <2>1. a > 0 /\ c > 0
    BY <1>0 DEF Sound
  <2>2. a \in Nat /\ c \in Nat
    BY <1>0, WeightOf
  <2> QED
    BY <2>1, <2>2
<1>2. /\ Meaning(m[l]) = Run("[", a) /\ Meaning(m[r]) = Run("]", c) /\ Meaning(m[l + 1]) = x
      /\ x = Run("-", m[l + 1].len) /\ Meaning(m[l + 2]) = <<>> /\ m[l + 1].len \in Nat
  <2>1. /\ m[l].op \notin {"Z", "A", "S", "M"} /\ m[r].op \notin {"Z", "A", "S", "M"}
        /\ m[l + 1].op \notin {"Z", "A", "S", "M"} /\ m[l + 2].op \notin {"Z", "A", "S", "M"}
    OBVIOUS
  <2>2. Meaning(m[l]) = Run("[", a) /\ Meaning(m[r]) = Run("]", c)
    BY <1>0, <2>1, MeaningPlain
  <2>3. Meaning(m[l + 1]) = Run("-", m[l + 1].len) /\ Meaning(m[l + 2]) = Run("<", 0)
    BY <1>0, <2>1, MeaningPlain
  <2> QED
    BY <1>0, <2>2, <2>3, RunUnit, WeightOf
<1>3. x \in Streams /\ Over(x)
  BY <1>2, OpsKnown, RunText, OverRun
<1>4. Upto(m, l - 1) = <<>> /\ TokDepth(m, l - 1) = 0
  BY NothingBefore
<1>5. c <= a
  <2>1. /\ Weight(m[l]) = a /\ Weight(m[l + 1]) = 0 /\ Weight(m[l + 2]) = 0 /\ Weight(m[r]) = 0 - c
    <3>1. m[l + 1].op \notin {"[", "]"} /\ m[l + 2].op \notin {"[", "]"} /\ m[r].op = "]"
      OBVIOUS
    <3> QED
      BY <1>0, <3>1, WeightOf
  <2>2. /\ TokDepth(m, l) = TokDepth(m, l - 1) + a
        /\ TokDepth(m, l + 1) = TokDepth(m, l) + 0
        /\ TokDepth(m, l + 2) = TokDepth(m, l + 1) + 0
        /\ TokDepth(m, r) = TokDepth(m, l + 2) + (0 - c)
    <3> HIDE DEF a, c, r
    <3> QED
      BY <1>0, <2>1, TokDepthStep
  <2>3. TokDepth(m, r) >= 0
    BY <1>0 DEF Sound
  <2> HIDE DEF a, c, r
  <2> QED
    BY ONLY <1>1, <1>4, <2>2, <2>3
<1>6. Upto(m, r) = (Run("[", a) \o x) \o Run("]", c)
  <2>1. /\ Upto(m, l) = <<>> \o Run("[", a)
        /\ Upto(m, l + 1) = Upto(m, l) \o x
        /\ Upto(m, l + 2) = Upto(m, l + 1) \o <<>>
        /\ Upto(m, r) = Upto(m, l + 2) \o Run("]", c)
    <3> HIDE DEF a, c, x, r
    <3> QED
      BY <1>0, <1>2, <1>4, UptoStep
  <2>2. Run("[", a) \in Streams /\ Run("[", a) \o x \in Streams
    BY <1>1, <1>3, OpsKnown, RunText, TextJoined
  <2>3. /\ <<>> \o Run("[", a) = Run("[", a)
        /\ (Run("[", a) \o x) \o <<>> = Run("[", a) \o x
    BY <2>2, TextEmpty
  <2> HIDE DEF a, c, x, r
  <2> QED
    BY <2>1, <2>3
<1>7. Upto(w, r) = Run("[", a - 1) \o Run("]", c - 1)
  <2>1. \A k \in l + 1 .. r - 1 : Neutral(m[k])
    <3> SUFFICES ASSUME NEW k \in l + 1 .. r - 1 PROVE Neutral(m[k])
      OBVIOUS
    <3>0. l \in Nat /\ r - 1 = l + 2 /\ k \in l + 1 .. r - 1
      BY <1>0
    <3>1. k = l + 1 \/ k = l + 2
      <4> HIDE DEF r
      <4> QED
        BY ONLY <3>0
    <3> QED
      BY <1>0, <3>1 DEF Neutral
  <2>2. Upto(w, r) = ((Upto(m, l - 1) \o Run("[", a - 1)) \o Meaning(t)) \o Run("]", c - 1)
    <3> HIDE DEF r
    <3>1. m[r].op = "]"
      BY DEF r
    <3> QED
      BY <1>0, <2>1, <3>1, ReplaceText
  <2>3. Run("[", a - 1) \in Streams
    BY <1>1, OpsKnown, RunText
  <2>4. <<>> \o Run("[", a - 1) = Run("[", a - 1) /\ Run("[", a - 1) \o <<>> = Run("[", a - 1)
    BY <2>3, TextEmpty
  <2> HIDE DEF a, c, w, r
  <2> QED
    BY <1>4, <2>2, <2>4
<1>8. /\ w \in Seq(Token) /\ Len(w) = Len(m)
      /\ \A k \in r + 1 .. n : m[k] = w[k]
  <2>1. \A k \in l + 1 .. r - 1 : Neutral(m[k])
    <3> SUFFICES ASSUME NEW k \in l + 1 .. r - 1 PROVE Neutral(m[k])
      OBVIOUS
    <3>1. k = l + 1 \/ k = l + 2
      BY <1>0
    <3> QED
      BY <1>0, <3>1 DEF Neutral
  <2>2. Sound(w, n) /\ Len(w) = Len(m)
    <3> HIDE DEF r
    <3>1. m[r].op = "]"
      BY DEF r
    <3> QED
      BY <1>0, <2>1, <3>1, ReplaceSound
  <2>3. \A k \in r + 1 .. n : m[k] = w[k]
    <3> SUFFICES ASSUME NEW k \in r + 1 .. n PROVE m[k] = w[k]
      OBVIOUS
    <3>1. k \in DOMAIN m /\ k # l /\ k # l + 1 /\ k \notin l + 2 .. r - 1 /\ k # r
      <4>1. DOMAIN m = 1 .. Len(m) /\ l \in Nat /\ k \in Nat /\ k > l + 3 /\ k <= n /\ r = l + 3
        BY <1>0
      <4> HIDE DEF r
      <4> QED
        BY <1>0, <4>1
    <3> QED
      BY <3>1 DEF Replace
  <2> HIDE DEF w
  <2> QED
    BY <2>2, <2>3 DEF Sound
<1> HIDE DEF w, r, a, c, x
<1>9. PICK v \in Streams : Upto(m, n) = Upto(m, r) \o v /\ Upto(w, n) = Upto(w, r) \o v
  BY ONLY <1>0, <1>8, UptoThen, n \in Nat
<1>10. Upto(m, n) = Run("[", a) \o (x \o (Run("]", c) \o v))
  <2>1. Run("[", a) \in Streams /\ Run("]", c) \in Streams
    BY <1>1, OpsKnown, RunText
  <2>2. \A o, p \in Streams : Cat(Cat(Cat(o, x), p), v) = Cat(o, Cat(x, Cat(p, v)))
    BY ONLY <1>3, CatAssoc, CatType, v \in Streams
  <2>3. ((Run("[", a) \o x) \o Run("]", c)) \o v = Run("[", a) \o (x \o (Run("]", c) \o v))
    BY ONLY <2>1, <2>2 DEF Cat
  <2> QED
    BY ONLY <1>6, <1>9, <2>3
<1>11. Upto(w, n) = Run("[", a - 1) \o (Run("]", c - 1) \o v)
  <2>1. a - 1 \in Nat /\ c - 1 \in Nat
    BY <1>1
  <2>2. Run("[", a - 1) \in Streams /\ Run("]", c - 1) \in Streams
    BY <2>1, OpsKnown, RunText
  <2>3. \A o, p \in Streams : Cat(Cat(o, p), v) = Cat(o, Cat(p, v))
    BY ONLY CatAssoc, v \in Streams
  <2>4. (Run("[", a - 1) \o Run("]", c - 1)) \o v = Run("[", a - 1) \o (Run("]", c - 1) \o v)
    BY ONLY <2>2, <2>3 DEF Cat
  <2> QED
    BY ONLY <1>7, <1>9, <2>4
<1>12. DoesAs(Run("[", a) \o (x \o (Run("]", c) \o v)), Run("[", a - 1) \o (Run("]", c - 1) \o v))
  BY ONLY <1>1, <1>3, <1>5, FirstLoopDropped, v \in Streams
<1>13. DoesAs(Upto(m, n), Upto(w, n))
  BY ONLY <1>10, <1>11, <1>12
<1> QED
  BY <1>13 DEF w, r

-----------------------------------------------------------------------------
(* What a visit leaves, without a copy or a move in the vector.            *)

\* No copy and no move has been written.
Pure(m, n) == \A k \in 1 .. n : m[k].op \in {"C", "M"} => ~(m[k].len > 0)

\* Only moves are tokens of length zero, as lex leaves them (lexer.c:115-161).
Hard(m, n) == \A k \in 1 .. n : m[k].len > 0 \/ m[k].op \in {">", "<"}

\* w does, from a blank tape, what m does, and its dead tokens mean nothing.
Drops(m, w, n) == Pure(w, n) => Pure(m, n) /\ DoesAs(Upto(m, n), Upto(w, n)) /\ Hollow(w, n)

LEMMA PureBefore ==
  ASSUME NEW m, NEW w, NEW n \in Nat, NEW l, NEW r, Window(m, w, n, l, r), Pure(w, n)
  PROVE  Pure(m, n)
<1> SUFFICES ASSUME NEW k \in 1 .. n
             PROVE  m[k].op \in {"C", "M"} => ~(m[k].len > 0)
  BY DEF Pure
<1>1. CASE k \in l .. r
  BY <1>1 DEF Window
<1>2. CASE k \notin l .. r
  <2>1. w[k] = m[k]
    BY <1>2 DEF Window
  <2> QED
    BY <2>1 DEF Pure
<1> QED
  BY <1>1, <1>2

LEMMA WindowHollow ==
  ASSUME NEW m, NEW w, NEW n \in Nat, NEW l, NEW r, Window(m, w, n, l, r), Hollow(m, n),
         \A k \in l .. r : Dead(w[k]) => Meaning(w[k]) = <<>>
  PROVE  Hollow(w, n)
<1> SUFFICES ASSUME NEW k \in 1 .. n, Dead(w[k]) PROVE Meaning(w[k]) = <<>>
  BY DEF Hollow
<1>1. CASE k \notin l .. r
  <2>1. w[k] = m[k]
    BY <1>1 DEF Window
  <2> QED
    BY <2>1 DEF Hollow
<1> QED
  BY <1>1

LEMMA WindowAfter ==
  ASSUME NEW m, NEW w, NEW n \in Nat, NEW l, NEW r, Window(m, w, n, l, r)
  PROVE  (r \in 0 .. n) /\ (\A k \in r + 1 .. n : m[k] = w[k])
<1>1. l \in 1 .. n /\ r \in l + 1 .. n
  BY DEF Window
<1>2. \A k \in r + 1 .. n : k \in 1 .. n /\ k \notin l .. r
  BY <1>1
<1> QED
  BY <1>1, <1>2 DEF Window

LEMMA SameDrops ==
  ASSUME NEW m, NEW w, NEW n \in Nat, Sound(m, n), Sound(w, n), Hollow(m, n),
         NEW l, NEW r, Window(m, w, n, l, r), Settled(w, l, r), Same(Upto(m, r), Upto(w, r))
  PROVE  Drops(m, w, n)
<1>0. m \in Seq(Token) /\ w \in Seq(Token) /\ n <= Len(m) /\ n <= Len(w)
  BY DEF Sound
<1>1. (r \in 0 .. n) /\ (\A k \in r + 1 .. n : m[k] = w[k])
  BY ONLY n \in Nat, Window(m, w, n, l, r), WindowAfter
<1>2. Same(Upto(m, n), Upto(w, n))
  BY <1>0, <1>1, UptoSame
<1>3. DoesAs(Upto(m, n), Upto(w, n))
  BY <1>2, YieldsDoes DEF Same
<1>4. Hollow(w, n)
  BY WindowHollow DEF Settled
<1> QED
  BY <1>3, <1>4, PureBefore DEF Drops

LEMMA NothingDrops ==
  ASSUME NEW m, NEW n, Hollow(m, n)
  PROVE  Drops(m, m, n)
  BY DoesRefl DEF Drops

LEMMA FoldZeroDrops ==
  ASSUME size \in Nat, NEW m, Sound(m, size), NEW l \in 1 .. size, m[l].op = "Z",
         Hard(m, size), Hollow(m, size)
  PROVE  Drops(m, FoldZero(m, l), size)
<1> DEFINE w == FoldZero(m, l)
           r == l + 1
<1>1. CASE w = m
  BY <1>1, NothingDrops
<1>2. CASE w # m
  <2>1. /\ Window(m, w, size, l, r) /\ Same(Upto(m, r), Upto(w, r))
        /\ m[r].len > 0 => Settled(w, l, r)
        /\ m[r].op \in {"+", "-"}
    BY <1>2, FoldZeroWindow
  <2>2. Sound(w, size)
    BY FoldZeroSound
  <2> HIDE DEF w
  <2>3. m[r].len > 0
    <3>1. r \in 1 .. size
      BY <2>1 DEF Window
    <3> QED
      BY <2>1, <3>1 DEF Hard
  <2>4. Settled(w, l, r)
    BY <2>1, <2>3
  <2> HIDE DEF r
  <2>5. Drops(m, w, size)
    BY <2>1, <2>2, <2>4, SameDrops
  <2> QED
    BY <2>5 DEF w
<1> QED
  BY <1>1, <1>2

\* A move loop that fits becomes a move.
LEMMA MoveWritten ==
  ASSUME NEW m, NEW n \in Nat, Sound(m, n), NEW l \in 1 .. n, l + 5 <= n, MoveLoop(m, l) # m
  PROVE  /\ CopyLoop(MoveLoop(m, l), l) = MoveLoop(m, l)
         /\ Hard(m, n) => ~Pure(MoveLoop(m, l), n)
<1> DEFINE v == MoveLoop(m, l)
           d == m[l + 2].len
           t == Tok("M", d)
           r == l + 5
           ops == <<"[", "-", ">", "+", "<", "]">>
<1>0. /\ m \in Seq(Token) /\ n <= Len(m) /\ l \in Nat /\ l + 1 \in 1 .. n /\ l + 2 \in 1 .. n
      /\ l + 3 \in 1 .. n /\ r \in l + 2 .. n /\ \A k \in 1 .. n : m[k] \in Token
  BY DEF Sound
<1>1. OpsAt(m, l, ops) /\ d = m[l + 3].len /\ v = Replace(m, l, r, t)
  BY DEF MoveLoop
<1>2. m[l + 3].op = "+"
  <2> HIDE DEF v, d
  <2> QED
    BY <1>0, <1>1, OpsSix
<1>3. t.op = "M" /\ t.len = d
  BY DEF Tok
<1> HIDE DEF v, d, t, r
<1>4. (v[l] = t \/ v[l + 1] = t) /\ v[l + 1].op # "-"
  BY <1>0, <1>1, <1>3, ReplaceOutside
<1>5. CopyLoop(v, l) = v
  BY <1>0, <1>4, NoPattern
<1>6. ASSUME Hard(m, n) PROVE ~Pure(v, n)
  <2>1. d > 0
    BY <1>0, <1>1, <1>2, <1>6 DEF Hard
  <2> QED
    BY <1>0, <1>3, <1>4, <2>1 DEF Pure
<1> QED
  BY <1>5, <1>6 DEF v

LEMMA CopyLoopDrops ==
  ASSUME size \in Nat, NEW m, Sound(m, size), NEW l \in 1 .. size, l + 1 <= size,
         Hard(m, size), Hollow(m, size),
         Alive(m, size) \/ \A k \in 1 .. l - 1 : Dead(m[k])
  PROVE  Drops(m, CopyLoop(m, l), size)
<1> DEFINE d == Dests(m, l)
           ret == l + 2 + 2 * d
           t == Tok("C", d)
           w == CopyLoop(m, l)
           r == ret + 1
<1>1. CASE w = m
  BY <1>1, NothingDrops
<1>2. CASE /\ OpsAt(m, l, <<"[", "-">>) /\ ret <= size /\ m[ret].op = "<" /\ m[r].op = "]"
           /\ m[ret].len = RightTotal(m, l, d)
           /\ w = Replace(m, l, r, t)
  <2>0. m \in Seq(Token) /\ size <= Len(m) /\ l \in Nat /\ \A k \in 1 .. size : m[k] \in Token
    BY DEF Sound
  <2>1. d \in Nat
    BY <2>0, DestsFound
  <2>r. ret = l + 2 + 2 * Dests(m, l)
    OBVIOUS
  <2>z. d = 0 => ret = l + 2 /\ m[ret].len = 0
    <3>1. d = 0 => ret = l + 2 /\ m[ret].len = RightTotal(m, l, 0)
      BY <1>2
    <3> QED
      BY <3>1, RightTotalNone
  <2>p. r = ret + 1
    OBVIOUS
  <2> HIDE DEF d
  <2>t. t \in Token /\ t.op = "C" /\ t.len = d
    <3>3. "C" \in Ops
      BY DEF Ops, RewriteOps
    <3> QED
      BY <2>1, <3>3, TokType
  <2> HIDE DEF ret, t, w, r
  <2>2. /\ m[l].op = "[" /\ ret \in Nat /\ ret >= l + 2
        /\ \A k \in l + 1 .. ret : Neutral(m[k]) /\ m[k].op \in {"-", ">", "+", "<"}
        /\ ret + 1 <= size
    BY <1>2, <2>r, CopyBody
  <2>3. r \in l + 2 .. size /\ r \in l + 1 .. size /\ r - 1 = ret /\ r \in Nat
    BY <2>0, <2>2, <2>p
  <2>4. /\ w[l] = t \/ w[l + 1] = t
        /\ \A k \in 1 .. size : k \notin l .. r => w[k] = m[k]
    BY <1>2, <2>0, <2>3, <2>t, ReplaceOutside
  <2>5. Window(m, w, size, l, r)
    <3>1. \A k \in l .. r : k = l \/ k = r \/ k \in l + 1 .. ret
      BY <2>0, <2>2, <2>3
    <3>2. \A k \in l .. r : m[k].op \notin {"C", "M"}
      BY <1>2, <2>2, <3>1
    <3> QED
      BY <2>3, <2>4, <3>2 DEF Window
  <2>6. CASE d > 0
    <3>1. ~Pure(w, size)
      <4>1. l + 1 \in 1 .. size
        OBVIOUS
      <4> QED
        BY <2>4, <2>6, <2>t, <4>1 DEF Pure
    <3> QED
      BY <3>1 DEF Drops, w
  <2>7. CASE d = 0
    <3>1. /\ ret = l + 2 /\ r = l + 3 /\ m[l + 2].len = 0 /\ m[l + 2].op = "<" /\ m[l + 3].op = "]"
          /\ l + 3 <= size /\ l + 2 \in 1 .. size
      BY <1>2, <2>2, <2>7, <2>z, <2>p
    <3>2. m[l + 1].op = "-"
      BY <1>2, <2>0, OpsTwo
    <3>3. \A k \in 1 .. l - 1 : Dead(m[k])
      <4>1. ~Alive(m, size)
        BY <3>1 DEF Alive, Dead
      <4> QED
        BY <4>1
    <3>4. Neutral(t) /\ Meaning(t) = <<>>
      <4>1. Meaning(t) = Run("C", 0)
        BY <2>7, <2>t, MeaningPlain
      <4> QED
        BY <2>t, <4>1, RunUnit DEF Neutral
    <3>5. DoesAs(Upto(m, size), Upto(w, size))
      <4>1. DoesAs(Upto(m, size), Upto(Replace(m, l, l + 3, t), size))
        BY ONLY size \in Nat, Sound(m, size), Hollow(m, size), l \in 1 .. size, <2>2, <3>1, <3>2, <3>3,
                <3>4, LeadingLoop
      <4> QED
        BY <1>2, <3>1, <4>1
    <3>6. \A k \in l .. r : Dead(w[k]) => Meaning(w[k]) = <<>>
      <4> SUFFICES ASSUME NEW k \in l .. r, Dead(w[k]) PROVE Meaning(w[k]) = <<>>
        OBVIOUS
      <4>1. /\ m[l] \in Token /\ m[r] \in Token /\ m[l].len > 0 /\ m[r].len > 0
            /\ m[l].op \in {"[", "]"} /\ m[r].op \in {"[", "]"}
        <5>1. r \in 1 .. size
          BY <2>0, <2>3
        <5> QED
          BY <1>2, <2>0, <2>2, <5>1 DEF Sound
      <4>2. w[k] \in {t, Zeroed, Peeled(m[l]), Peeled(m[r])}
        <5>1. k = l \/ k = l + 1 \/ k \in l + 2 .. r - 1 \/ k = r
          BY <2>0, <2>3
        <5>2. k \in DOMAIN m
          <6>1. DOMAIN m = 1 .. Len(m) /\ k \in 1 .. Len(m)
            BY <2>0, <2>3
          <6> QED
            BY <6>1
        <5> QED
          BY <1>2, <5>1, <5>2 DEF Replace
      <4>3. CASE w[k] = t \/ w[k] = Zeroed
        BY <3>4, <4>3, ZeroedMeaning
      <4>4. CASE w[k] = Peeled(m[l]) \/ w[k] = Peeled(m[r])
        <5>1. w[k] = Zeroed
          BY <4>1, <4>4, PeeledDead
        <5> QED
          BY <5>1, ZeroedMeaning
      <4> QED
        BY <4>2, <4>3, <4>4
    <3>7. Hollow(w, size)
      BY <2>5, <3>6, WindowHollow
    <3> QED
      BY <2>5, <3>5, <3>7, PureBefore DEF Drops, w
  <2> QED
    BY <2>1, <2>6, <2>7
<1> QED
  BY <1>1, <1>2 DEF CopyLoop

LEMMA OpenLoopDrops ==
  ASSUME size \in Nat, NEW m, Sound(m, size), NEW l \in 1 .. size,
         Hard(m, size), Hollow(m, size),
         Alive(m, size) \/ \A k \in 1 .. l - 1 : Dead(m[k])
  PROVE  Drops(m, OpenLoop(m, l), size)
<1> DEFINE z == ZeroLoop(m, l)
<1>1. CASE l + 2 > size
  BY <1>1, NothingDrops DEF OpenLoop
<1>2. CASE ~(l + 2 > size)
  <2>1. l + 2 <= size /\ l + 1 <= size /\ l \in Nat /\ l + 2 \in Nat
    BY <1>2
  <2>2. z = m \/ (/\ Window(m, z, size, l, l + 2) /\ z[l + 1].op # "-"
                  /\ Settled(z, l, l + 2) /\ Same(Upto(m, l + 2), Upto(z, l + 2)))
    BY <2>1, ZeroLoopRewrites
  <2>z. Sound(z, size)
    BY <2>1, ZeroLoopSound
  <2>3. Drops(m, z, size)
    <3> HIDE DEF z
    <3>1. CASE z = m
      BY <3>1, NothingDrops
    <3>2. CASE z # m
      BY <2>2, <2>z, <3>2, SameDrops
    <3> QED
      BY <3>1, <3>2
  <2>4. CASE l + 5 > size
    BY <1>2, <2>3, <2>4 DEF OpenLoop
  <2>5. CASE ~(l + 5 > size)
    <3>0. l + 5 <= size /\ OpenLoop(m, l) = CopyLoop(MoveLoop(z, l), l)
      BY <1>2, <2>5 DEF OpenLoop
    <3> HIDE DEF z
    <3>1. CASE z # m
      <4>1. MoveLoop(z, l) = z /\ CopyLoop(z, l) = z
        BY <2>1, <2>2, <3>1, NoPattern
      <4> QED
        BY <2>3, <3>0, <4>1
    <3>2. CASE z = m /\ MoveLoop(m, l) = m
      BY <2>1, <3>0, <3>2, CopyLoopDrops
    <3>3. CASE z = m /\ MoveLoop(m, l) # m
      <4>1. ~Pure(MoveLoop(m, l), size) /\ CopyLoop(MoveLoop(m, l), l) = MoveLoop(m, l)
        BY <3>0, <3>3, MoveWritten
      <4> QED
        BY <3>0, <3>3, <4>1 DEF Drops
    <3> QED
      BY <3>1, <3>2, <3>3
  <2> QED
    BY <2>4, <2>5
<1> QED
  BY <1>1, <1>2

-----------------------------------------------------------------------------
(* From a blank tape: dead moves and loops at the start included.          *)

\* The op bytes optimize works with.
Written == CoreOps \union RewriteOps \union {NoOp}
Coded(m, n) == \A k \in 1 .. n : m[k].op \in Written

LEMMA ReplaceCoded ==
  ASSUME NEW m, NEW n \in Nat, m \in Seq(Token), n <= Len(m), Coded(m, n), NEW l, NEW r \in 1 .. n,
         NEW t, t.op \in Written, l \in 1 .. n
  PROVE  Coded(Replace(m, l, r, t), n)
<1> SUFFICES ASSUME NEW k \in 1 .. n PROVE Replace(m, l, r, t)[k].op \in Written
  BY DEF Coded
<1>1. Zeroed.op \in Written
  BY DEF Zeroed, Tok, Written
<1>2. \A j \in 1 .. n : Peeled(m[j]).op \in Written
  BY <1>1 DEF Peeled, Tok, Coded
<1>3. k \in DOMAIN m
  OBVIOUS
<1>4. Replace(m, l, r, t)[k] \in {t, Zeroed, Peeled(m[l]), Peeled(m[r]), m[k]}
  BY <1>3 DEF Replace
<1> QED
  BY <1>1, <1>2, <1>4 DEF Coded

LEMMA PutCoded ==
  ASSUME NEW m, NEW n \in Nat, m \in Seq(Token), n <= Len(m), Coded(m, n), NEW l, NEW r,
         NEW t, t.op \in Written
  PROVE  Coded(Put(m, l, r, t), n)
<1> SUFFICES ASSUME NEW k \in 1 .. n PROVE Put(m, l, r, t)[k].op \in Written
  BY DEF Coded
<1>1. Zeroed.op \in Written
  BY DEF Zeroed, Tok, Written
<1>2. k \in DOMAIN m
  OBVIOUS
<1>3. Put(m, l, r, t)[k] \in {t, Zeroed, m[k]}
  BY <1>2 DEF Put
<1> QED
  BY <1>1, <1>3 DEF Coded

LEMMA FoldZeroCoded ==
  ASSUME size \in Nat, NEW m, Sound(m, size), Coded(m, size), NEW l
  PROVE  Coded(FoldZero(m, l), size)
<1>0. m \in Seq(Token) /\ size <= Len(m)
  BY DEF Sound
<1>1. \A x : Tok("A", x).op \in Written /\ Tok("S", x).op \in Written
  BY DEF Tok, Written, RewriteOps
<1>2. \A x : Coded(Put(m, l, l + 1, Tok("A", x)), size) /\ Coded(Put(m, l, l + 1, Tok("S", x)), size)
  BY <1>0, <1>1, PutCoded
<1> QED
  BY <1>2 DEF FoldZero

LEMMA OpenLoopCoded ==
  ASSUME size \in Nat, NEW m, Sound(m, size), Coded(m, size), NEW l \in 1 .. size
  PROVE  Coded(OpenLoop(m, l), size)
<1>t. \A x : Tok("Z", x).op \in Written /\ Tok("M", x).op \in Written /\ Tok("C", x).op \in Written
  BY DEF Tok, Written, RewriteOps
<1>1. CASE l + 2 > size
  BY <1>1 DEF OpenLoop
<1>2. CASE ~(l + 2 > size)
  <2> DEFINE z == ZeroLoop(m, l)
             v == MoveLoop(z, l)
             w == CopyLoop(v, l)
  <2>0. m \in Seq(Token) /\ size <= Len(m) /\ l + 2 <= size /\ l + 2 \in 1 .. size
    BY <1>2 DEF Sound
  <2>1. Coded(z, size)
    <3>1. Coded(Put(m, l, l + 2, Tok("Z", 1)), size)
      BY <1>t, <2>0, PutCoded
    <3>2. Coded(Replace(m, l, l + 2, Tok("Z", 1)), size)
      BY <1>t, <2>0, ReplaceCoded
    <3> QED
      BY <3>1, <3>2 DEF ZeroLoop
  <2>2. Sound(z, size)
    BY <2>0, ZeroLoopSound
  <2> HIDE DEF z
  <2>3. CASE l + 5 > size
    BY <1>2, <2>1, <2>3 DEF OpenLoop, z
  <2>4. CASE ~(l + 5 > size)
    <3>0. z \in Seq(Token) /\ size <= Len(z) /\ l + 5 \in 1 .. size /\ l + 5 <= size
      BY <2>2, <2>4 DEF Sound
    <3>1. Coded(v, size)
      <4>1. Coded(Replace(z, l, l + 5, Tok("M", z[l + 2].len)), size)
        BY <1>t, <2>1, <3>0, ReplaceCoded
      <4> QED
        BY <2>1, <4>1 DEF MoveLoop
    <3>2. Sound(v, size)
      BY <2>2, <3>0, MoveLoopSound
    <3> HIDE DEF v
    <3>3. Coded(w, size)
      <4> DEFINE d == Dests(v, l)
                 ret == l + 2 + 2 * d
                 t == Tok("C", d)
      <4>1. CASE w = v
        BY <3>1, <4>1
      <4>2. CASE OpsAt(v, l, <<"[", "-">>) /\ ret <= size /\ v[ret].op = "<"
                 /\ w = Replace(v, l, ret + 1, t)
        <5>1. ret \in Nat /\ ret >= l + 2 /\ ret + 1 <= size
          BY <3>0, <3>2, <4>2, CopyBody
        <5> HIDE DEF ret
        <5>2. ret + 1 \in 1 .. size /\ t.op \in Written
          BY <5>1, <1>t
        <5>3. v \in Seq(Token) /\ size <= Len(v)
          BY <3>2 DEF Sound
        <5> HIDE DEF t
        <5> QED
          BY <3>1, <4>2, <5>2, <5>3, ReplaceCoded
      <4> QED
        BY <4>1, <4>2 DEF CopyLoop
    <3> QED
      BY <1>2, <2>4, <3>3 DEF OpenLoop, z, v
  <2> QED
    BY <2>3, <2>4
<1> QED
  BY <1>1, <1>2

\* Compaction invents no token.
LEMMA LivingFrom ==
  \A ts \in Seq(Token) : \A j \in 1 .. Len(Living(ts)) :
    \E k \in 1 .. Len(ts) : Living(ts)[j] = ts[k]
<1> DEFINE P(ts) == \A j \in 1 .. Len(Living(ts)) : \E k \in 1 .. Len(ts) : Living(ts)[j] = ts[k]
           T == {ts \in Seq(Token) : P(ts)}
<1>1. <<>> \in T
  <2>1. Living(<<>>) = <<>> /\ Len(<<>>) = 0 /\ <<>> \in Seq(Token)
    BY LivingEmpty
  <2> QED
    BY <2>1
<1>2. ASSUME NEW vs \in Seq(Token), vs \in T, NEW t \in Token PROVE Append(vs, t) \in T
  <2> DEFINE ws == Append(vs, t)
             us == Living(vs)
             xs == Append(us, t)
             y == Living(ws)
             n == Len(vs)
             m == Len(us)
  <2>0. us \in Seq(Token)
    BY LivingType
  <2>1. /\ ws \in Seq(Token) /\ Len(ws) = n + 1 /\ ws[n + 1] = t
        /\ n \in Nat /\ \A k \in 1 .. n : ws[k] = vs[k]
    BY Appended
  <2>2. /\ xs[m + 1] = t /\ m \in Nat /\ \A k \in 1 .. m : xs[k] = us[k]
        /\ \A k \in 1 .. Len(xs) : k \in 1 .. m \/ k = m + 1
    <3> HIDE DEF us
    <3> QED
      BY <2>0, Appended
  <2>3. y = us \/ y = xs
    BY LivingAppend DEF Kept
  <2>4. \A j \in 1 .. m : \E k \in 1 .. n : us[j] = vs[k]
    BY <1>2
  <2> HIDE DEF ws, us, xs, y
  <2>5. \A j \in 1 .. m : \E k \in 1 .. n + 1 : us[j] = ws[k]
    <3> SUFFICES ASSUME NEW j \in 1 .. m PROVE \E k \in 1 .. n + 1 : us[j] = ws[k]
      OBVIOUS
    <3>1. PICK k \in 1 .. n : us[j] = vs[k]
      BY <2>4
    <3>2. k \in 1 .. n + 1 /\ ws[k] = us[j]
      BY <2>1, <3>1
    <3> QED
      BY <3>2
  <2>6. n + 1 \in 1 .. n + 1
    BY <2>1
  <2> HIDE DEF n, m
  <2>7. \A j \in 1 .. Len(y) : \E k \in 1 .. Len(ws) : y[j] = ws[k]
    BY <2>1, <2>2, <2>3, <2>5, <2>6 DEF m
  <2> QED
    BY <2>1, <2>7 DEF y, ws
<1>3. Seq(Token) \subseteq T
  <2> HIDE DEF T
  <2> QED
    BY <1>1, <1>2, SeqInduction
<1> QED
  BY <1>3

\* After a compaction, the codes are still known, and a vector with no copy
\* and no move had none before.
LEMMA CompactedPure ==
  ASSUME size \in Nat, NEW w, Sound(w, size), Compacted(w)
  PROVE  /\ Coded(w, size) => Coded(slots', size')
         /\ Pure(slots', size') => Pure(w, size)
<1> DEFINE ts == SubSeq(w, 1, size)
           us == Living(ts)
           m == Len(us)
           s == slots'
<1>0. w \in Seq(Token) /\ size \in 0 .. Len(w)
  BY DEF Sound
<1>1. ts \in Seq(Token) /\ Len(ts) = size /\ \A k \in 1 .. size : ts[k] = w[k]
  BY SoundPrefix
<1>2. s = us \o SubSeq(w, m + 1, Len(w)) /\ size' = m
  BY DEF Compacted
<1> HIDE DEF ts
<1>3. us \in Seq(Token) /\ m <= size
  BY <1>1, LivingType, LivingSound
<1>4. Keeps(ts, us) /\ \A j \in 1 .. m : \E k \in 1 .. size : us[j] = ts[k]
  BY <1>1, LivingKeeps, LivingFrom
<1> HIDE DEF us
<1>5. \A k \in 1 .. m : s[k] = us[k]
  BY <1>0, <1>2, <1>3, Slid
<1>m. m \in Nat /\ size' = m
  BY <1>2, <1>3
<1> HIDE DEF m, s
<1>6. ASSUME Coded(w, size) PROVE Coded(s, m)
  <2> SUFFICES ASSUME NEW j \in 1 .. m PROVE s[j].op \in Written
    BY DEF Coded
  <2>1. PICK k \in 1 .. size : us[j] = ts[k]
    BY <1>4
  <2>2. s[j] = w[k]
    BY <1>1, <1>5, <2>1
  <2> QED
    BY <1>6, <2>2 DEF Coded
<1>7. ASSUME Pure(s, m) PROVE Pure(w, size)
  <2> SUFFICES ASSUME NEW k \in 1 .. size, w[k].op \in {"C", "M"}, w[k].len > 0 PROVE FALSE
    BY DEF Pure
  <2>1. ts[k] = w[k] /\ w[k] \in Token /\ w[k].len \in Nat
    <3>1. ts[k] = w[k] /\ ts[k] \in Token
      BY <1>1
    <3> QED
      BY <3>1, WeightOf
  <2>2. ~Dead(ts[k])
    BY <2>1 DEF Dead, NoOp
  <2>3. PICK j \in 1 .. m : us[j] = ts[k]
    BY <1>1, <1>4, <2>2 DEF Keeps, m
  <2>4. s[j] = w[k]
    BY <1>5, <2>1, <2>3
  <2> QED
    BY <1>7, <2>4 DEF Pure
<1> QED
  BY <1>m, <1>6, <1>7 DEF s

\* As long as no copy and no move has been written, the vector does what the
\* program did from a blank tape; until something was compacted, only dead
\* tokens have been passed over.
BInv ==
  /\ IInv
  /\ Core(input) =>
       /\ Coded(slots, size) /\ \A k \in 1 .. size : slots[k].op # NoOp
       /\ Pure(slots, size) =>
            /\ DoesAs(Spelled(input), Spelled(out))
            /\ Hard(slots, size) /\ Hollow(slots, size)
            /\ Alive(slots, size) \/ \A k \in 1 .. i : Dead(slots[k])

LEMMA AliveHard ==
  ASSUME NEW m, NEW n, Sound(m, n), Alive(m, n)
  PROVE  Hard(m, n) /\ Hollow(m, n)
<1>1. \A k \in 1 .. n : m[k].len \in Nat
  <2> SUFFICES ASSUME NEW k \in 1 .. n PROVE m[k].len \in Nat
    OBVIOUS
  <2>1. m[k] \in Token
    BY DEF Sound
  <2> QED
    BY <2>1, WeightOf
<1>2. Hard(m, n)
  BY <1>1 DEF Hard, Alive, Dead
<1> QED
  BY <1>2 DEF Alive, Hollow

LEMMA HardHollow ==
  ASSUME NEW m, NEW n, Sound(m, n), Hard(m, n), \A k \in 1 .. n : m[k].op \in CoreOps
  PROVE  Hollow(m, n)
<1> SUFFICES ASSUME NEW k \in 1 .. n, Dead(m[k]) PROVE Meaning(m[k]) = <<>>
  BY DEF Hollow
<1>1. m[k] \in Token /\ m[k].op \in CoreOps /\ (m[k].len > 0 \/ m[k].op \in {">", "<"})
  BY DEF Sound, Hard
<1>2. m[k].len = 0
  BY <1>1 DEF Dead, NoOp, CoreOps
<1>3. m[k].op \notin {"Z", "A", "S", "M"} /\ m[k].op \in Ops
  BY <1>1, WeightOf DEF CoreOps
<1>4. Meaning(m[k]) = Run(m[k].op, 0)
  BY <1>1, <1>2, <1>3, MeaningPlain
<1> QED
  BY <1>3, <1>4, RunUnit

LEMMA InitBInv == Init => BInv
<1> SUFFICES ASSUME Init, Core(input)
             PROVE  /\ Coded(slots, size) /\ \A k \in 1 .. size : slots[k].op # NoOp
                    /\ DoesAs(Spelled(input), Spelled(out))
                    /\ Hard(slots, size) /\ Hollow(slots, size)
                    /\ \A k \in 1 .. i : Dead(slots[k])
  BY InitIInv DEF BInv
<1>1. Sound(slots, size) /\ i = 0
  BY InitIInv DEF IInv, Init
<1> DEFINE g == [k \in 1 .. Slack |-> Garbage]
           v == input
<1>2. /\ v \in Seq(Token) /\ g \in Seq(Token) /\ slots = v \o g /\ size = Len(v)
      /\ \A k \in 1 .. Len(v) : v[k].len > 0 \/ v[k].op \in {">", "<"}
  BY ProgramsAssumption, SlackAssumption, GarbageType DEF Init
<1> HIDE DEF g, v
<1>3. \A k \in 1 .. Len(v) : (v \o g)[k] = v[k]
  BY ONLY <1>2, ConcatProperties
<1>4. \A k \in 1 .. size : slots[k] = v[k]
  BY <1>2, <1>3
<1>5. out = v
  <2>1. out \in Seq(Token) /\ Len(out) = size /\ \A k \in 1 .. size : out[k] = slots[k]
    BY <1>1, SoundPrefix DEF out
  <2> DEFINE o == out
             n == size
  <2>2. o \in Seq(Token) /\ Len(o) = n /\ n = Len(v) /\ \A k \in 1 .. n : o[k] = v[k]
    BY <1>2, <1>4, <2>1
  <2> HIDE DEF o, n
  <2>3. o = v
    BY ONLY <2>2, <1>2, SeqEqual
  <2> QED
    BY <2>3 DEF o
<1>6. Hard(slots, size)
  BY <1>2, <1>4 DEF Hard
<1>7. \A k \in 1 .. size : slots[k].op \in CoreOps
  BY <1>2, <1>4 DEF Core, v
<1>8. Hollow(slots, size) /\ Coded(slots, size)
  BY <1>1, <1>6, <1>7, HardHollow DEF Coded, Written
<1>9. \A k \in 1 .. size : slots[k].op # NoOp
  BY <1>7 DEF CoreOps, NoOp
<1> QED
  BY <1>1, <1>5, <1>6, <1>8, <1>9, DoesRefl DEF v

\* What a visit asks of the vector it finds.
Entered(m, n, j) == /\ Hard(m, n) /\ Hollow(m, n)
                    /\ Alive(m, n) \/ \A k \in 1 .. j : Dead(m[k])

\* One visit: a rewrite, then the compaction.
LEMMA VisitBInv ==
  ASSUME BInv, IInv', NEW m, NEW l, Sound(m, size), Rewritten(slots, m, size, l),
         Compacted(m), UNCHANGED input,
         Coded(slots, size) => Coded(m, size),
         Entered(slots, size, i) => Drops(slots, m, size)
  PROVE  BInv'
<1>0. size \in Nat /\ Sound(slots, size) /\ Sound(slots', size')
  BY DEF BInv, IInv, Sound
<1>1. /\ Alive(slots', size')
      /\ Hollow(m, size) => Upto(slots', size') = Upto(m, size)
      /\ Coded(m, size) => Coded(slots', size')
      /\ Pure(slots', size') => Pure(m, size)
  BY <1>0, CompactedGood, CompactedPure
<1>h. Hard(slots', size') /\ Hollow(slots', size')
  BY <1>0, <1>1, AliveHard
<1> SUFFICES ASSUME Core(input)
             PROVE  /\ Coded(slots', size')
                    /\ Pure(slots', size') => DoesAs(Spelled(input), Spelled(out'))
  <2>1. Core(input)' <=> Core(input)
    BY DEF Core
  <2>2. DoesAs(Spelled(input), Spelled(out))' <=> DoesAs(Spelled(input), Spelled(out'))
    OBVIOUS
  <2>3. /\ Coded(slots, size)' <=> Coded(slots', size')
        /\ Pure(slots, size)' <=> Pure(slots', size')
        /\ Hard(slots, size)' <=> Hard(slots', size')
        /\ Hollow(slots, size)' <=> Hollow(slots', size')
        /\ Alive(slots, size)' <=> Alive(slots', size')
    OBVIOUS
  <2>4. \A k \in 1 .. size' : slots'[k].op # NoOp
    BY <1>1 DEF Alive, Dead
  <2> QED
    BY <1>1, <1>h, <2>1, <2>2, <2>3, <2>4 DEF BInv
<1>2. Coded(slots', size')
  BY <1>1 DEF BInv
<1>3. ASSUME Pure(slots', size') PROVE DoesAs(Spelled(input), Spelled(out'))
  <2> DEFINE w == slots
             n == size
  <2>1. Pure(m, n)
    BY <1>1, <1>3
  <2>2. Pure(w, n)
    <3>1. CASE m = w
      BY <2>1, <3>1
    <3>2. CASE \E r \in Nat : Window(w, m, n, l, r)
      <4>1. PICK r \in Nat : Window(w, m, n, l, r)
        BY <3>2
      <4>2. n \in Nat
        BY <1>0
      <4> HIDE DEF w, n
      <4> QED
        BY ONLY <2>1, <4>1, <4>2, PureBefore
    <3> QED
      BY <3>1, <3>2 DEF Rewritten
  <2>3. DoesAs(Spelled(input), Spelled(out)) /\ Entered(w, n, i)
    BY <2>2 DEF BInv, Entered
  <2>4. DoesAs(Upto(w, n), Upto(m, n)) /\ Hollow(m, n)
    BY <2>1, <2>3 DEF Drops
  <2>5. Spelled(out) = Upto(w, n) /\ Spelled(out') = Upto(m, n)
    BY <1>1, <2>4 DEF Upto, out
  <2> HIDE DEF w, n
  <2> QED
    BY <2>3, <2>4, <2>5, DoesTrans
<1> QED
  BY <1>2, <1>3

LEMMA StepBInv == BInv /\ [Next]_vars => BInv'
<1> SUFFICES ASSUME BInv, [Next]_vars PROVE BInv'
  OBVIOUS
<1>0. IInv /\ IInv'
  BY StepIInv DEF BInv
<1>1. Sound(slots, size) /\ size \in Nat /\ i \in Nat
  BY <1>0 DEF IInv, TypeOK, Sound
<1>2. Visiting => i + 1 \in 1 .. size /\ (i + 1) - 1 = i
  BY <1>1 DEF Visiting
<1>3. ASSUME UNCHANGED <<input, slots, size>>,
             (\A k \in 1 .. i : Dead(slots[k])) => Alive(slots, size) \/ \A k \in 1 .. i' : Dead(slots[k])
      PROVE  BInv'
  <2>1. Core(input)' <=> Core(input)
    BY <1>3 DEF Core
  <2>2. out' = out
    BY <1>3 DEF out
  <2>3. DoesAs(Spelled(input), Spelled(out))' <=> DoesAs(Spelled(input), Spelled(out))
    BY <1>3, <2>2
  <2>4. /\ Coded(slots, size)' <=> Coded(slots, size)
        /\ Pure(slots, size)' <=> Pure(slots, size)
        /\ Hard(slots, size)' <=> Hard(slots, size)
        /\ Hollow(slots, size)' <=> Hollow(slots, size)
        /\ Alive(slots, size)' <=> Alive(slots, size)
        /\ (\A k \in 1 .. i : Dead(slots[k]))' <=> \A k \in 1 .. i' : Dead(slots[k])
    BY <1>3
  <2> QED
    BY <1>0, <1>3, <2>1, <2>3, <2>4 DEF BInv
<1>4. CASE VisitLoop
  <2> DEFINE l == i + 1
             m == OpenLoop(slots, l)
  <2>1. Visiting /\ UNCHANGED input /\ Compacted(m)
    BY <1>4 DEF VisitLoop
  <2>2. l \in 1 .. size /\ l - 1 = i
    BY <1>2, <2>1
  <2> HIDE DEF l
  <2>4. Sound(m, size) /\ Rewritten(slots, m, size, l)
    BY <1>1, <2>2, OpenLoopSound, OpenLoopRewrites
  <2>5. Coded(slots, size) => Coded(m, size)
    BY <1>1, <2>2, OpenLoopCoded
  <2>6. Entered(slots, size, i) => Drops(slots, m, size)
    BY <1>1, <2>2, OpenLoopDrops DEF Entered
  <2> HIDE DEF m
  <2> QED
    BY <1>0, <2>1, <2>4, <2>5, <2>6, VisitBInv
<1>5. CASE VisitZero
  <2> DEFINE l == i + 1
             m == FoldZero(slots, l)
  <2>1. Visiting /\ UNCHANGED input /\ Compacted(m) /\ slots[l].op = "Z"
    BY <1>5 DEF VisitZero, cur
  <2>2. l \in 1 .. size
    BY <1>2, <2>1
  <2> HIDE DEF l
  <2>4. Sound(m, size) /\ Rewritten(slots, m, size, l)
    BY <1>1, <2>1, <2>2, FoldZeroSound, FoldZeroRewrites
  <2>5. Coded(slots, size) => Coded(m, size)
    BY <1>1, FoldZeroCoded
  <2>6. Entered(slots, size, i) => Drops(slots, m, size)
    BY <1>1, <2>1, <2>2, FoldZeroDrops DEF Entered
  <2> HIDE DEF m
  <2> QED
    BY <1>0, <2>1, <2>4, <2>5, <2>6, VisitBInv
<1>6. CASE VisitOther
  <2>1. UNCHANGED input /\ Compacted(slots)
    BY <1>6 DEF VisitOther
  <2>2. Rewritten(slots, slots, size, 1)
    BY DEF Rewritten
  <2>3. Entered(slots, size, i) => Drops(slots, slots, size)
    BY NothingDrops DEF Entered
  <2> QED
    BY <1>0, <1>1, <2>1, <2>2, <2>3, VisitBInv
<1>7. CASE SkipDead
  <2>1. UNCHANGED <<input, slots, size>> /\ i' = i + 1 /\ Dead(slots[i + 1])
    BY <1>7 DEF SkipDead, cur
  <2>2. \A k \in 1 .. i' : k \in 1 .. i \/ k = i + 1
    BY <1>1, <2>1
  <2> QED
    BY <1>3, <2>1, <2>2
<1>8. CASE EndPass
  <2>1. UNCHANGED <<input, slots, size>> /\ i' = 0
    BY <1>8 DEF EndPass
  <2> QED
    BY <1>3, <2>1
<1>9. CASE Finish \/ Stop \/ UNCHANGED vars
  BY <1>3, <1>9 DEF Finish, Stop, vars
<1> QED
  BY <1>4, <1>5, <1>6, <1>7, <1>8, <1>9 DEF Next

\* From a blank tape, whatever the program does the tokens do at every moment
\* of the pass, the moves that lex left cancelled and the loops the program
\* begins with included, as long as no copy and no move has been written
\* (optm.c:10-139, lexer.c:115-161).
RewritesFromBlank ==
  Core(input) /\ Pure(slots, size) => DoesAs(Spelled(input), Spelled(out))

THEOREM RewritesRun == Spec => []RewritesFromBlank
<1>1. BInv => RewritesFromBlank
  BY DEF BInv, RewritesFromBlank
<1> QED
  BY <1>1, InitBInv, StepBInv, PTL DEF Spec
=============================================================================
