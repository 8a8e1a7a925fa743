---------------------------- MODULE TokensProofs ----------------------------
(***************************************************************************)
(* What the reference notions of Tokens compute, for every sequence:       *)
(* depth, unfolding and reduction one element at a time, and the facts     *)
(* about cancelling runs and balanced brackets that lex and optimize need. *)
(* Then what a text does when interpreted, and which parts of a text can   *)
(* be replaced without changing what it does.                              *)
(*                                                                         *)
(* The induction these facts need is drawn from the well-foundedness of    *)
(* finite sets under inclusion, for sets instead of predicates.            *)
(***************************************************************************)
EXTENDS Interpreter, SequenceTheorems, FiniteSetTheorems, WellFoundedInduction, TLAPS

-----------------------------------------------------------------------------
(* Induction over a set.                                                   *)

\* A set of naturals that is not empty has a least element.
LEMMA LeastNatural ==
  ASSUME NEW T, T \subseteq Nat, T # {}
  PROVE  \E n \in T : \A m \in T : n <= m
<1> DEFINE Below(k) == {m \in T : m <= k}
           B == {Below(k) : k \in T}
<1>1. B \subseteq FiniteSubsetsOf(T)
  <2> SUFFICES ASSUME NEW k \in T PROVE Below(k) \in FiniteSubsetsOf(T)
    OBVIOUS
  <2>0. k \in Nat
    OBVIOUS
  <2>1. IsFiniteSet(0 .. k)
    BY <2>0, FS_Interval
  <2>2. Below(k) \subseteq 0 .. k
    <3> SUFFICES ASSUME NEW m \in T, m <= k PROVE m \in 0 .. k
      OBVIOUS
    <3>1. m \in Nat
      OBVIOUS
    <3> QED
      BY <2>0, <3>1
  <2>3. IsFiniteSet(Below(k))
    BY <2>1, <2>2, FS_Subset
  <2> QED
    BY <2>3 DEF FiniteSubsetsOf
<1>2. B # {}
  OBVIOUS
<1>3. PICK x \in B : \A y \in B : ~ (<<y, x>> \in StrictSubsetOrdering(T))
  <2>1. IsWellFoundedOn(StrictSubsetOrdering(T), FiniteSubsetsOf(T))
    BY FS_StrictSubsetOrderingWellFounded
  <2> HIDE DEF B
  <2> QED
    BY ONLY <2>1, <1>1, <1>2, WFMin
<1>4. PICK n \in T : x = Below(n)
  OBVIOUS
<1>5. ASSUME NEW m \in T, m < n PROVE FALSE
  <2>0. m \in Nat /\ n \in Nat
    OBVIOUS
  <2>1. Below(m) \in B
    OBVIOUS
  <2>2. n \in Below(n) /\ n \notin Below(m)
    BY <1>5, <2>0
  <2>3. Below(m) \subseteq Below(n)
    <3> SUFFICES ASSUME NEW k \in T, k <= m PROVE k <= n
      OBVIOUS
    <3>1. k \in Nat
      OBVIOUS
    <3> QED
      BY <1>5, <2>0, <3>1
  <2>4. Below(m) \subseteq T /\ Below(n) \subseteq T /\ Below(m) # Below(n)
    BY <2>2
  <2>5. <<Below(m), Below(n)>> \in StrictSubsetOrdering(T)
    <3> HIDE DEF Below
    <3> QED
      BY <2>3, <2>4 DEF StrictSubsetOrdering
  <2> QED
    BY <1>3, <1>4, <2>1, <2>5
<1>6. ASSUME NEW m \in T PROVE n <= m
  <2>1. m \in Nat /\ n \in Nat /\ ~(m < n)
    BY <1>5
  <2> QED
    BY <2>1
<1> QED
  BY <1>6

\* What holds of 0, and of n + 1 when it holds of n, holds of every natural.
LEMMA SetInduction ==
  ASSUME NEW T, 0 \in T, \A n \in Nat : n \in T => n + 1 \in T
  PROVE  Nat \subseteq T
<1> SUFFICES ASSUME Nat \ T # {} PROVE FALSE
  OBVIOUS
<1>1. PICK n \in Nat \ T : \A m \in Nat \ T : n <= m
  BY LeastNatural
<1>2. n - 1 \in Nat
  BY <1>1
<1>3. n - 1 \in T
  BY <1>1, <1>2
<1>4. (n - 1) + 1 = n
  BY <1>2
<1> QED
  BY <1>2, <1>3, <1>4

\* The same for sequences that grow at their end.
LEMMA SeqInduction ==
  ASSUME NEW S, NEW T, <<>> \in T,
         \A s \in Seq(S) : s \in T => \A e \in S : Append(s, e) \in T
  PROVE  Seq(S) \subseteq T
<1> DEFINE N == {n \in Nat : \A s \in Seq(S) : Len(s) = n => s \in T}
<1>1. 0 \in N
  <2> SUFFICES ASSUME NEW s \in Seq(S), Len(s) = 0 PROVE s \in T
    OBVIOUS
  <2>1. s = <<>>
    BY EmptySeq
  <2> QED
    BY <2>1
<1>2. ASSUME NEW n \in Nat, n \in N PROVE n + 1 \in N
  <2> SUFFICES ASSUME NEW s \in Seq(S), Len(s) = n + 1 PROVE s \in T
    OBVIOUS
  <2>1. s # <<>>
    OBVIOUS
  <2>2. PICK r \in Seq(S), e \in S : s = Append(r, e)
    BY <2>1, SequenceEmptyOrAppend
  <2>3. Len(r) = n
    BY <2>2, AppendProperties
  <2> QED
    BY <1>2, <2>2, <2>3
<1>3. Nat \subseteq N
  <2> HIDE DEF N
  <2> QED
    BY <1>1, <1>2, SetInduction
<1> QED
  BY <1>3

\* f is the iteration of step from base, up to n.
Iterates(f, base, step, n) ==
  /\ DOMAIN f = 0 .. n
  /\ f[0] = base
  /\ \A k \in 1 .. n : f[k] = step[k][f[k - 1]]

\* A recursion over 0 .. n has a solution when its step keeps to a set.
LEMMA Iteration ==
  ASSUME NEW S, NEW base \in S, NEW n \in Nat, NEW step,
         \A k \in 1 .. n : \A a \in S : step[k][a] \in S
  PROVE  \E f \in [0 .. n -> S] : Iterates(f, base, step, n)
<1> DEFINE N == {m \in Nat : m <= n => \E f \in [0 .. m -> S] : Iterates(f, base, step, m)}
<1>1. 0 \in N
  <2> DEFINE f == [k \in 0 .. 0 |-> base]
  <2>1. f \in [0 .. 0 -> S] /\ Iterates(f, base, step, 0)
    BY DEF Iterates
  <2> QED
    BY <2>1
<1>2. ASSUME NEW m \in Nat, m \in N PROVE m + 1 \in N
  <2> SUFFICES ASSUME m + 1 <= n
               PROVE  \E f \in [0 .. m + 1 -> S] : Iterates(f, base, step, m + 1)
    OBVIOUS
  <2>1. PICK f \in [0 .. m -> S] : Iterates(f, base, step, m)
    BY <1>2
  <2> DEFINE g == [k \in 0 .. m + 1 |-> IF k <= m THEN f[k] ELSE step[m + 1][f[m]]]
  <2>2. \A k \in 0 .. m : g[k] = f[k]
    OBVIOUS
  <2>3. g[m + 1] = step[m + 1][f[m]]
    OBVIOUS
  <2>4. g \in [0 .. m + 1 -> S]
    <3>1. step[m + 1][f[m]] \in S
      OBVIOUS
    <3> QED
      BY <3>1
  <2>5. \A k \in 1 .. m + 1 : g[k] = step[k][g[k - 1]]
    <3> SUFFICES ASSUME NEW k \in 1 .. m + 1
                 PROVE  g[k] = step[k][g[k - 1]]
      OBVIOUS
    <3>1. CASE k = m + 1
      <4>1. k - 1 = m /\ g[m] = f[m]
        BY <3>1, <2>2
      <4> HIDE DEF g
      <4> QED
        BY <3>1, <4>1, <2>3
    <3>2. CASE k # m + 1
      <4>1. k \in 1 .. m /\ k - 1 \in 0 .. m
        BY <3>2
      <4>2. g[k] = f[k] /\ g[k - 1] = f[k - 1]
        BY <2>2, <4>1
      <4> HIDE DEF g
      <4> QED
        BY <4>1, <4>2, <2>1 DEF Iterates
    <3> QED
      BY <3>1, <3>2
  <2>6. g[0] = base
    BY <2>1, <2>2 DEF Iterates
  <2> HIDE DEF g
  <2> QED
    BY <2>4, <2>5, <2>6 DEF Iterates
<1>3. Nat \subseteq N
  <2> HIDE DEF N
  <2> QED
    BY <1>1, <1>2, SetInduction
<1> QED
  BY <1>3

\* Two recursions with the same base agree as far as their steps are the same.
StepsAlike(f, g, n) == \A k \in 1 .. n : f[k - 1] = g[k - 1] => f[k] = g[k]
LEMMA IterationUnique ==
  ASSUME NEW n \in Nat, NEW f, NEW g, f[0] = g[0], StepsAlike(f, g, n)
  PROVE  \A k \in 0 .. n : f[k] = g[k]
<1> DEFINE N == {m \in Nat : m <= n => f[m] = g[m]}
<1>1. 0 \in N
  OBVIOUS
<1>2. ASSUME NEW m \in Nat, m \in N PROVE m + 1 \in N
  <2> SUFFICES ASSUME m + 1 <= n PROVE f[m + 1] = g[m + 1]
    OBVIOUS
  <2>1. f[m] = g[m] /\ m + 1 \in 1 .. n /\ (m + 1) - 1 = m
    BY <1>2
  <2> QED
    BY <2>1 DEF StepsAlike
<1>3. Nat \subseteq N
  <2> HIDE DEF N
  <2> QED
    BY <1>1, <1>2, SetInduction
<1> QED
  BY <1>3

-----------------------------------------------------------------------------
(* The recursive functions of Tokens and of the community modules, one     *)
(* element at a time.                                                      *)

LEMMA AddCharType ==
  ASSUME NEW C, NEW a \in Seq(C), NEW c \in C
  PROVE  AddChar(a, c) \in Seq(C)
<1>1. CASE a # <<>> /\ <<Last(a), c>> \in Cancelling
  <2>1. \A k \in 1 .. Len(a) - 1 : a[k] \in C
    OBVIOUS
  <2>2. SubSeq(a, 1, Len(a) - 1) \in Seq(C)
    BY <2>1, SubSeqProperties
  <2> QED
    BY <1>1, <2>2 DEF AddChar, Front
<1>2. CASE ~(a # <<>> /\ <<Last(a), c>> \in Cancelling)
  BY <1>2, AppendProperties DEF AddChar
<1> QED
  BY <1>1, <1>2

LEMMA ReduceIterates ==
  ASSUME NEW C, NEW s \in Seq(C)
  PROVE  \E f \in [0 .. Len(s) -> Seq(C)] :
           /\ f[0] = <<>>
           /\ \A k \in 1 .. Len(s) : f[k] = AddChar(f[k - 1], s[k])
           /\ Reduce(s) = f[Len(s)]
<1> DEFINE step == [k \in 1 .. Len(s) |-> [a \in Seq(C) |-> AddChar(a, s[k])]]
           Solves(g) == g = [n \in 0 .. Len(s) |-> IF n = 0 THEN <<>> ELSE AddChar(g[n - 1], s[n])]
           D == CHOOSE g : Solves(g)
<1>1. \A k \in 1 .. Len(s) : \A a \in Seq(C) : step[k][a] = AddChar(a, s[k])
  OBVIOUS
<1>2. \A k \in 1 .. Len(s) : \A a \in Seq(C) : step[k][a] \in Seq(C)
  <2> SUFFICES ASSUME NEW k \in 1 .. Len(s), NEW a \in Seq(C) PROVE step[k][a] \in Seq(C)
    OBVIOUS
  <2>1. s[k] \in C
    OBVIOUS
  <2>2. AddChar(a, s[k]) \in Seq(C)
    BY <2>1, AddCharType
  <2> QED
    BY <1>1, <2>2
<1>0. <<>> \in Seq(C) /\ Len(s) \in Nat
  OBVIOUS
<1> HIDE DEF step
<1>3. PICK f \in [0 .. Len(s) -> Seq(C)] : Iterates(f, <<>>, step, Len(s))
  BY <1>0, <1>2, Iteration
<1>4. \A k \in 1 .. Len(s) : f[k] = AddChar(f[k - 1], s[k])
  <2> SUFFICES ASSUME NEW k \in 1 .. Len(s) PROVE f[k] = AddChar(f[k - 1], s[k])
    OBVIOUS
  <2>1. k - 1 \in 0 .. Len(s)
    OBVIOUS
  <2>2. f[k - 1] \in Seq(C)
    BY <2>1
  <2>3. f[k] = step[k][f[k - 1]]
    BY <1>3 DEF Iterates
  <2> QED
    BY <2>2, <2>3, <1>1
<1>5. f[0] = <<>>
  BY <1>3 DEF Iterates
<1>6. Solves(f)
  <2>1. \A n \in 0 .. Len(s) : f[n] = IF n = 0 THEN <<>> ELSE AddChar(f[n - 1], s[n])
    BY <1>4, <1>5
  <2> QED
    BY <2>1
<1>7. Solves(D)
  BY <1>6
<1>8. D[0] = <<>> /\ \A k \in 1 .. Len(s) : D[k] = AddChar(D[k - 1], s[k])
  <2> HIDE DEF D
  <2> QED
    BY <1>7, <1>0
<1>9. Reduce(s) = D[Len(s)]
  BY DEF Reduce
<1> HIDE DEF D
<1>10. \A k \in 0 .. Len(s) : f[k] = D[k]
  <2>1. StepsAlike(f, D, Len(s))
    BY <1>4, <1>8 DEF StepsAlike
  <2>2. f[0] = D[0] /\ Len(s) \in Nat
    BY <1>0, <1>5, <1>8
  <2> QED
    BY ONLY <2>1, <2>2, IterationUnique, Zenon
<1> QED
  BY <1>0, <1>4, <1>5, <1>9, <1>10

LEMMA ReduceType ==
  ASSUME NEW C, NEW s \in Seq(C)
  PROVE  Reduce(s) \in Seq(C)
<1> QED
  BY ReduceIterates

LEMMA ReduceEmpty == Reduce(<<>>) = <<>>
<1>1. <<>> \in Seq({}) /\ Len(<<>>) = 0
  OBVIOUS
<1> QED
  BY <1>1, ReduceIterates

LEMMA ReduceAppend ==
  ASSUME NEW C, NEW s \in Seq(C), NEW c \in C
  PROVE  Reduce(Append(s, c)) = AddChar(Reduce(s), c)
<1> DEFINE t == Append(s, c)
<1>1. t \in Seq(C) /\ Len(t) = Len(s) + 1 /\ t[Len(s) + 1] = c
      /\ \A k \in 1 .. Len(s) : t[k] = s[k]
  BY AppendProperties
<1> HIDE DEF t
<1>2. PICK f \in [0 .. Len(s) -> Seq(C)] :
        /\ f[0] = <<>>
        /\ \A k \in 1 .. Len(s) : f[k] = AddChar(f[k - 1], s[k])
        /\ Reduce(s) = f[Len(s)]
  BY ReduceIterates
<1>3. PICK g \in [0 .. Len(t) -> Seq(C)] :
        /\ g[0] = <<>>
        /\ \A k \in 1 .. Len(t) : g[k] = AddChar(g[k - 1], t[k])
        /\ Reduce(t) = g[Len(t)]
  BY <1>1, ReduceIterates
<1>4. f[Len(s)] = g[Len(s)]
  <2>1. StepsAlike(f, g, Len(s))
    BY <1>1, <1>2, <1>3 DEF StepsAlike
  <2>2. f[0] = g[0] /\ Len(s) \in Nat
    BY <1>2, <1>3
  <2>3. \A k \in 0 .. Len(s) : f[k] = g[k]
    BY ONLY <2>1, <2>2, IterationUnique, Zenon
  <2> QED
    BY <2>2, <2>3
<1>5. g[Len(t)] = AddChar(g[Len(s)], c)
  <2>1. Len(t) \in 1 .. Len(t) /\ Len(t) - 1 = Len(s)
    BY <1>1
  <2> QED
    BY <2>1, <1>1, <1>3
<1> QED
  BY <1>2, <1>3, <1>4, <1>5 DEF t

\* The first n elements of a sequence.
LEMMA Prefix ==
  ASSUME NEW C, NEW s \in Seq(C), NEW n \in 0 .. Len(s)
  PROVE  /\ SubSeq(s, 1, n) \in Seq(C) /\ Len(SubSeq(s, 1, n)) = n
         /\ \A k \in 1 .. n : SubSeq(s, 1, n)[k] = s[k]
<1>1. \A k \in 1 .. n : s[k] \in C
  OBVIOUS
<1>2. n \in Int /\ n \in Nat
  OBVIOUS
<1>3. /\ SubSeq(s, 1, n) \in Seq(C)
      /\ Len(SubSeq(s, 1, n)) = IF 1 <= n THEN n - 1 + 1 ELSE 0
      /\ \A k \in 1 .. n - 1 + 1 : SubSeq(s, 1, n)[k] = s[1 + k - 1]
  BY <1>1, <1>2, SubSeqProperties
<1> QED
  BY <1>2, <1>3

LEMMA TakeSame ==
  ASSUME NEW C, NEW s \in Seq(C), NEW t \in Seq(C), NEW n \in 0 .. Len(s), n <= Len(t),
         \A k \in 1 .. n : s[k] = t[k]
  PROVE  SubSeq(s, 1, n) = SubSeq(t, 1, n)
<1>1. n \in 0 .. Len(t)
  OBVIOUS
<1> DEFINE a == SubSeq(s, 1, n)
           b == SubSeq(t, 1, n)
<1>2. a \in Seq(C) /\ b \in Seq(C) /\ Len(a) = n /\ Len(b) = n
      /\ (\A k \in 1 .. n : a[k] = s[k]) /\ (\A k \in 1 .. n : b[k] = t[k])
  BY <1>1, Prefix
<1> HIDE DEF a, b
<1>3. Len(a) = Len(b) /\ \A k \in 1 .. Len(a) : a[k] = b[k]
  BY <1>2
<1>4. a = b
  BY ONLY <1>2, <1>3, SeqEqual
<1> QED
  BY <1>4 DEF a, b

LEMMA TakeNext ==
  ASSUME NEW C, NEW s \in Seq(C), NEW n \in Nat, n + 1 <= Len(s)
  PROVE  SubSeq(s, 1, n + 1) = Append(SubSeq(s, 1, n), s[n + 1])
<1> DEFINE a == SubSeq(s, 1, n + 1)
           r == SubSeq(s, 1, n)
           x == s[n + 1]
           b == Append(r, x)
<1>1. n + 1 \in 0 .. Len(s) /\ n \in 0 .. Len(s) /\ x \in C
  OBVIOUS
<1>2. a \in Seq(C) /\ Len(a) = n + 1 /\ \A k \in 1 .. n + 1 : a[k] = s[k]
  BY <1>1, Prefix
<1>3. r \in Seq(C) /\ Len(r) = n /\ \A k \in 1 .. n : r[k] = s[k]
  BY <1>1, Prefix
<1>x. a[n + 1] = x
  BY <1>2
<1> HIDE DEF a, r, x
<1>4. b \in Seq(C) /\ Len(b) = n + 1 /\ b[n + 1] = x /\ \A k \in 1 .. n : b[k] = r[k]
  BY <1>1, <1>3, AppendProperties
<1> HIDE DEF b
<1>5. Len(a) = Len(b) /\ \A k \in 1 .. Len(a) : a[k] = b[k]
  <2>1. ASSUME NEW k \in 1 .. n PROVE a[k] = b[k]
    <3>1. k \in 1 .. n + 1
      OBVIOUS
    <3>2. a[k] = s[k] /\ r[k] = s[k] /\ b[k] = r[k]
      BY <3>1, <1>2, <1>3, <1>4
    <3> QED
      BY <3>2
  <2>2. \A k \in 1 .. n + 1 : k \in 1 .. n \/ k = n + 1
    OBVIOUS
  <2>3. a[n + 1] = b[n + 1]
    BY <1>x, <1>4
  <2>4. \A k \in 1 .. n + 1 : a[k] = b[k]
    BY ONLY <2>1, <2>2, <2>3
  <2> QED
    BY <2>4, <1>2, <1>4
<1>6. a = b
  BY ONLY <1>2, <1>4, <1>5, SeqEqual
<1> QED
  BY <1>6 DEF a, b, r, x

LEMMA WeightType ==
  ASSUME NEW t \in Token
  PROVE  Weight(t) \in Int
  BY DEF Weight, Token

LEMMA TokDepthStep ==
  ASSUME NEW ts \in Seq(Token)
  PROVE  /\ TokDepth(ts, 0) = 0
         /\ \A k \in 0 .. Len(ts) : TokDepth(ts, k) \in Int
         /\ \A k \in 1 .. Len(ts) : TokDepth(ts, k) = TokDepth(ts, k - 1) + Weight(ts[k])
<1> DEFINE step == [k \in 1 .. Len(ts) |-> [a \in Int |-> a + Weight(ts[k])]]
           Solves(g) == g = [n \in 0 .. Len(ts) |-> IF n = 0 THEN 0 ELSE g[n - 1] + Weight(ts[n])]
           D == CHOOSE g : Solves(g)
<1>0. 0 \in Int /\ Len(ts) \in Nat
  OBVIOUS
<1>1. \A k \in 1 .. Len(ts) : \A a \in Int : step[k][a] = a + Weight(ts[k])
  OBVIOUS
<1>2. \A k \in 1 .. Len(ts) : \A a \in Int : step[k][a] \in Int
  <2> SUFFICES ASSUME NEW k \in 1 .. Len(ts), NEW a \in Int PROVE step[k][a] \in Int
    OBVIOUS
  <2>1. ts[k] \in Token
    OBVIOUS
  <2>2. a + Weight(ts[k]) \in Int
    BY <2>1, WeightType
  <2> QED
    BY <1>1, <2>2
<1> HIDE DEF step
<1>3. PICK f \in [0 .. Len(ts) -> Int] : Iterates(f, 0, step, Len(ts))
  BY <1>0, <1>2, Iteration
<1>4. \A k \in 1 .. Len(ts) : f[k] = f[k - 1] + Weight(ts[k])
  <2> SUFFICES ASSUME NEW k \in 1 .. Len(ts) PROVE f[k] = f[k - 1] + Weight(ts[k])
    OBVIOUS
  <2>1. k - 1 \in 0 .. Len(ts)
    OBVIOUS
  <2>2. f[k - 1] \in Int
    BY <2>1
  <2>3. f[k] = step[k][f[k - 1]]
    BY <1>3 DEF Iterates
  <2> QED
    BY <2>2, <2>3, <1>1
<1>5. f[0] = 0
  BY <1>3 DEF Iterates
<1>6. Solves(f)
  <2>1. \A n \in 0 .. Len(ts) : f[n] = IF n = 0 THEN 0 ELSE f[n - 1] + Weight(ts[n])
    BY <1>4, <1>5
  <2> QED
    BY <2>1
<1>7. Solves(D)
  BY <1>6
<1>8. D[0] = 0 /\ \A k \in 1 .. Len(ts) : D[k] = D[k - 1] + Weight(ts[k])
  <2> HIDE DEF D
  <2> QED
    BY <1>7, <1>0
<1>9. \A k : TokDepth(ts, k) = D[k]
  BY DEF TokDepth
<1> HIDE DEF D
<1>10. \A k \in 0 .. Len(ts) : f[k] = D[k]
  <2>1. StepsAlike(f, D, Len(ts))
    BY <1>4, <1>8 DEF StepsAlike
  <2>2. f[0] = D[0] /\ Len(ts) \in Nat
    BY <1>0, <1>5, <1>8
  <2> QED
    BY ONLY <2>1, <2>2, IterationUnique, Zenon
<1>11. \A k \in 0 .. Len(ts) : D[k] \in Int
  <2> SUFFICES ASSUME NEW k \in 0 .. Len(ts) PROVE D[k] \in Int
    OBVIOUS
  <2>1. f[k] \in Int /\ f[k] = D[k]
    BY <1>10
  <2> QED
    BY <2>1
<1> QED
  BY <1>8, <1>9, <1>11

\* The depth of a prefix depends on the prefix only.
LEMMA TokDepthPrefix ==
  ASSUME NEW ts \in Seq(Token), NEW us \in Seq(Token), NEW n \in Nat,
         n <= Len(ts), n <= Len(us), \A k \in 1 .. n : ts[k] = us[k]
  PROVE  \A k \in 0 .. n : TokDepth(ts, k) = TokDepth(us, k)
<1> DEFINE f == [k \in 0 .. n |-> TokDepth(ts, k)]
           g == [k \in 0 .. n |-> TokDepth(us, k)]
<1>1. \A k \in 1 .. n : TokDepth(ts, k) = TokDepth(ts, k - 1) + Weight(ts[k])
                        /\ TokDepth(us, k) = TokDepth(us, k - 1) + Weight(us[k])
  BY TokDepthStep
<1>2. \A k \in 1 .. n : f[k] = f[k - 1] + Weight(ts[k]) /\ g[k] = g[k - 1] + Weight(ts[k])
  BY <1>1
<1>3. f[0] = 0 /\ g[0] = 0
  BY TokDepthStep
<1>4. \A k \in 0 .. n : f[k] = TokDepth(ts, k) /\ g[k] = TokDepth(us, k)
  OBVIOUS
<1> HIDE DEF f, g
<1>5. StepsAlike(f, g, n)
  BY <1>2 DEF StepsAlike
<1>6. f[0] = g[0]
  BY <1>3
<1>7. \A k \in 0 .. n : f[k] = g[k]
  BY ONLY n \in Nat, <1>5, <1>6, IterationUnique, Zenon
<1> QED
  BY <1>4, <1>7

-----------------------------------------------------------------------------
(* FlattenSeq, the concatenation of a sequence of sequences.               *)

LEMMA FlattenIterates ==
  ASSUME NEW C, NEW ss \in Seq(Seq(C)), ss # <<>>
  PROVE  \E f \in [0 .. Len(ss) -> Seq(C)] :
           /\ f[0] = <<>>
           /\ \A k \in 1 .. Len(ss) : f[k] = f[k - 1] \o ss[k]
           /\ FlattenSeq(ss) = f[Len(ss)]
<1> DEFINE n == Len(ss)
           step == [k \in 1 .. n |-> [a \in Seq(C) |-> a \o ss[k]]]
           Solves(g) == g = [k \in 1 .. n |-> IF k = 1 THEN ss[k] ELSE g[k - 1] \o ss[k]]
           D == CHOOSE g : Solves(g)
           E == [k \in 0 .. n |-> IF k = 0 THEN <<>> ELSE D[k]]
<1>0. <<>> \in Seq(C) /\ n \in Nat /\ n >= 1
  OBVIOUS
<1>s. \A k \in 1 .. n : ss[k] \in Seq(C)
  OBVIOUS
<1>1. \A k \in 1 .. n : \A a \in Seq(C) : step[k][a] = a \o ss[k]
  OBVIOUS
<1>2. \A k \in 1 .. n : \A a \in Seq(C) : step[k][a] \in Seq(C)
  <2> SUFFICES ASSUME NEW k \in 1 .. n, NEW a \in Seq(C) PROVE step[k][a] \in Seq(C)
    OBVIOUS
  <2>1. a \o ss[k] \in Seq(C)
    BY <1>s, ConcatProperties
  <2> QED
    BY <1>1, <2>1
<1>u. FlattenSeq(ss) = D[n]
  <2>1. Len(ss) # 0
    BY <1>0
  <2> QED
    BY <2>1 DEF FlattenSeq
<1>00. n = Len(ss)
  OBVIOUS
<1> HIDE DEF step, n
<1>3. PICK f \in [0 .. n -> Seq(C)] : Iterates(f, <<>>, step, n)
  BY <1>0, <1>2, Iteration
<1>4. \A k \in 1 .. n : f[k] = f[k - 1] \o ss[k]
  <2> SUFFICES ASSUME NEW k \in 1 .. n PROVE f[k] = f[k - 1] \o ss[k]
    OBVIOUS
  <2>1. k - 1 \in 0 .. n
    BY <1>0
  <2>2. f[k - 1] \in Seq(C)
    BY <2>1
  <2>3. f[k] = step[k][f[k - 1]]
    BY <1>3 DEF Iterates
  <2> QED
    BY <2>2, <2>3, <1>1
<1>5. f[0] = <<>>
  BY <1>3 DEF Iterates
<1>6. f[1] = ss[1]
  <2>1. f[1] = f[0] \o ss[1]
    <3>1. 1 \in 1 .. n /\ 1 - 1 = 0
      BY <1>0
    <3> QED
      BY <3>1, <1>4
  <2>2. ss[1] \in Seq(C)
    BY <1>0, <1>s
  <2> QED
    BY <2>1, <2>2, <1>5, ConcatEmptySeq
<1>7. Solves([k \in 1 .. n |-> f[k]])
  <2> DEFINE h == [k \in 1 .. n |-> f[k]]
  <2>1. \A k \in 1 .. n : h[k] = IF k = 1 THEN ss[k] ELSE h[k - 1] \o ss[k]
    <3> SUFFICES ASSUME NEW k \in 1 .. n
                 PROVE  h[k] = IF k = 1 THEN ss[k] ELSE h[k - 1] \o ss[k]
      OBVIOUS
    <3>1. h[k] = f[k] /\ (k # 1 => h[k - 1] = f[k - 1])
      BY <1>0
    <3>2. f[k] = f[k - 1] \o ss[k]
      BY <1>4
    <3> HIDE DEF h
    <3> QED
      BY <3>1, <3>2, <1>6
  <2>2. DOMAIN h = 1 .. n /\ h = [k \in DOMAIN h |-> h[k]]
    OBVIOUS
  <2> HIDE DEF h
  <2>3. h = [k \in 1 .. n |-> IF k = 1 THEN ss[k] ELSE h[k - 1] \o ss[k]]
    BY <2>1, <2>2
  <2> QED
    BY <2>3 DEF h
<1>8. Solves(D)
  <2> HIDE DEF Solves
  <2> QED
    BY <1>7
<1>9. /\ D[1] = ss[1]
      /\ \A k \in 2 .. n : D[k] = D[k - 1] \o ss[k]
  <2> HIDE DEF D
  <2>1. \A k \in 1 .. n : D[k] = IF k = 1 THEN ss[k] ELSE D[k - 1] \o ss[k]
    BY <1>8
  <2>2. 1 \in 1 .. n /\ \A k \in 2 .. n : k \in 1 .. n /\ k # 1
    BY <1>0
  <2> QED
    BY <2>1, <2>2
<1>10. E[0] = <<>> /\ \A k \in 1 .. n : E[k] = D[k]
  <2> HIDE DEF D
  <2>1. 0 \in 0 .. n /\ \A k \in 1 .. n : k \in 0 .. n /\ k # 0
    BY <1>0
  <2> QED
    BY <2>1
<1>e. E[1] = f[1] /\ \A k \in 2 .. n : E[k] = E[k - 1] \o ss[k]
  <2> HIDE DEF D, E
  <2>1. 1 \in 1 .. n /\ \A k \in 2 .. n : k - 1 \in 1 .. n /\ k \in 1 .. n
    BY <1>0
  <2>2. E[1] = f[1]
    BY <1>6, <1>9, <1>10, <2>1
  <2>3. ASSUME NEW k \in 2 .. n PROVE E[k] = E[k - 1] \o ss[k]
    <3>1. E[k] = D[k] /\ E[k - 1] = D[k - 1]
      BY <1>10, <2>1
    <3> QED
      BY <3>1, <1>9
  <2> QED
    BY <2>2, <2>3
<1> HIDE DEF D, E
<1>11. StepsAlike(f, E, n)
  <2> SUFFICES ASSUME NEW k \in 1 .. n, f[k - 1] = E[k - 1] PROVE f[k] = E[k]
    BY DEF StepsAlike
  <2>1. CASE k = 1
    BY <2>1, <1>e
  <2>2. CASE k \in 2 .. n
    BY <2>2, <1>4, <1>e
  <2> QED
    BY <2>1, <2>2, <1>0
<1>12. \A k \in 0 .. n : f[k] = E[k]
  <2>1. f[0] = E[0] /\ n \in Nat
    BY <1>0, <1>5, <1>10
  <2> QED
    BY ONLY <2>1, <1>11, IterationUnique, Zenon
<1>13. FlattenSeq(ss) = f[n]
  <2>1. n \in 1 .. n /\ n \in 0 .. n
    BY <1>0
  <2> QED
    BY <2>1, <1>u, <1>10, <1>12
<1> QED
  BY <1>00, <1>4, <1>5, <1>13

LEMMA FlattenType ==
  ASSUME NEW C, NEW ss \in Seq(Seq(C))
  PROVE  FlattenSeq(ss) \in Seq(C)
<1>1. CASE ss = <<>>
  BY <1>1 DEF FlattenSeq
<1>2. CASE ss # <<>>
  <2>1. PICK f \in [0 .. Len(ss) -> Seq(C)] : FlattenSeq(ss) = f[Len(ss)]
    BY <1>2, FlattenIterates
  <2>2. Len(ss) \in 0 .. Len(ss)
    OBVIOUS
  <2> QED
    BY <2>1, <2>2
<1> QED
  BY <1>1, <1>2

LEMMA FlattenEmpty == FlattenSeq(<<>>) = <<>>
  BY DEF FlattenSeq

LEMMA FlattenAppend ==
  ASSUME NEW C, NEW ss \in Seq(Seq(C)), NEW x \in Seq(C)
  PROVE  FlattenSeq(Append(ss, x)) = FlattenSeq(ss) \o x
<1> DEFINE ts == Append(ss, x)
           n == Len(ss)
<1>1. ts \in Seq(Seq(C)) /\ Len(ts) = n + 1 /\ ts[n + 1] = x /\ ts # <<>> /\ n \in Nat
      /\ \A k \in 1 .. n : ts[k] = ss[k]
  BY AppendProperties
<1> HIDE DEF ts
<1>3. PICK g \in [0 .. Len(ts) -> Seq(C)] :
        /\ g[0] = <<>>
        /\ \A k \in 1 .. Len(ts) : g[k] = g[k - 1] \o ts[k]
        /\ FlattenSeq(ts) = g[Len(ts)]
  BY <1>1, FlattenIterates
<1>4. FlattenSeq(ss) = g[n]
  <2>1. CASE ss = <<>>
    BY <2>1, <1>3 DEF FlattenSeq
  <2>2. CASE ss # <<>>
    <3>1. PICK f \in [0 .. Len(ss) -> Seq(C)] :
            /\ f[0] = <<>>
            /\ \A k \in 1 .. Len(ss) : f[k] = f[k - 1] \o ss[k]
            /\ FlattenSeq(ss) = f[Len(ss)]
      BY <2>2, FlattenIterates
    <3>2. StepsAlike(f, g, n)
      <4> SUFFICES ASSUME NEW k \in 1 .. n, f[k - 1] = g[k - 1] PROVE f[k] = g[k]
        BY DEF StepsAlike
      <4>1. k \in 1 .. Len(ts) /\ ts[k] = ss[k]
        BY <1>1
      <4>2. f[k] = f[k - 1] \o ss[k] /\ g[k] = g[k - 1] \o ts[k]
        BY <4>1, <1>3, <3>1
      <4> QED
        BY <4>1, <4>2
    <3>3. f[0] = g[0] /\ n \in Nat
      BY <1>1, <1>3, <3>1
    <3> HIDE DEF n
    <3>4. \A k \in 0 .. n : f[k] = g[k]
      BY ONLY <3>2, <3>3, IterationUnique, Zenon
    <3> QED
      BY <3>1, <3>3, <3>4 DEF n
  <2> QED
    BY <2>1, <2>2
<1>5. g[n + 1] = g[n] \o x
  <2>1. n + 1 \in 1 .. Len(ts) /\ (n + 1) - 1 = n
    BY <1>1
  <2> QED
    BY <2>1, <1>1, <1>3
<1> QED
  BY <1>1, <1>3, <1>4, <1>5 DEF ts

-----------------------------------------------------------------------------
(* Runs of one character, and the text of a sequence of tokens.            *)

Run(c, n) == [k \in 1 .. n |-> c]

LEMMA RunType ==
  ASSUME NEW C, NEW c \in C, NEW n \in Nat
  PROVE  /\ Run(c, n) \in Seq(C) /\ Len(Run(c, n)) = n
         /\ \A k \in 1 .. n : Run(c, n)[k] = c
  BY DEF Run

LEMMA RunSplit ==
  ASSUME NEW c, NEW m \in Nat, NEW n \in Nat
  PROVE  Run(c, m + n) = Run(c, m) \o Run(c, n)
<1>1. /\ Run(c, m) \in Seq({c}) /\ Len(Run(c, m)) = m
      /\ Run(c, n) \in Seq({c}) /\ Len(Run(c, n)) = n
      /\ Run(c, m + n) \in Seq({c}) /\ Len(Run(c, m + n)) = m + n
  <2>1. c \in {c} /\ m + n \in Nat
    OBVIOUS
  <2> QED
    BY <2>1, RunType
<1>2. /\ Run(c, m) \o Run(c, n) \in Seq({c})
      /\ Len(Run(c, m) \o Run(c, n)) = m + n
  BY <1>1, ConcatProperties
<1>3. \A r \in Seq({c}) : \A k \in 1 .. Len(r) : r[k] = c
  OBVIOUS
<1> DEFINE u == Run(c, m + n)
           v == Run(c, m) \o Run(c, n)
<1>4. u \in Seq({c}) /\ v \in Seq({c}) /\ Len(u) = Len(v)
      /\ \A k \in 1 .. Len(u) : u[k] = v[k]
  BY <1>1, <1>2, <1>3
<1> HIDE DEF u, v
<1>5. u = v
  BY ONLY <1>4, SeqEqual
<1> QED
  BY <1>5 DEF u, v

LEMMA RunUnit ==
  ASSUME NEW c
  PROVE  Run(c, 0) = <<>> /\ Run(c, 1) = <<c>>
  BY DEF Run

LEMMA RunAppend ==
  ASSUME NEW c, NEW n \in Nat
  PROVE  Run(c, n + 1) = Append(Run(c, n), c)
<1>1. Run(c, n + 1) = Run(c, n) \o <<c>>
  BY RunSplit, RunUnit
<1>2. Run(c, n) \in Seq({c})
  BY RunType
<1> QED
  BY <1>1, <1>2, AppendIsConcat

LEMMA UnfoldIsRun ==
  ASSUME NEW t \in Token
  PROVE  /\ Unfold(t) = Run(t.op, t.len)
         /\ Unfold(t) \in Seq(Ops) /\ Len(Unfold(t)) = t.len
         /\ t.op \in Ops /\ t.len \in Nat
<1>1. t.op \in Ops /\ t.len \in Nat
  BY DEF Token
<1>2. Unfold(t) = Run(t.op, t.len)
  BY DEF Unfold, Run
<1>3. Run(t.op, t.len) \in Seq(Ops) /\ Len(Run(t.op, t.len)) = t.len
  BY <1>1, RunType
<1> QED
  BY <1>1, <1>2, <1>3

LEMMA UnfoldsType ==
  ASSUME NEW ts \in Seq(Token)
  PROVE  /\ [k \in DOMAIN ts |-> Unfold(ts[k])] \in Seq(Seq(Ops))
         /\ Len([k \in DOMAIN ts |-> Unfold(ts[k])]) = Len(ts)
         /\ \A k \in 1 .. Len(ts) : [j \in DOMAIN ts |-> Unfold(ts[j])][k] = Unfold(ts[k])
<1>1. \A k \in 1 .. Len(ts) : Unfold(ts[k]) \in Seq(Ops)
  BY UnfoldIsRun
<1>2. DOMAIN ts = 1 .. Len(ts) /\ Len(ts) \in Nat
  OBVIOUS
<1> QED
  BY <1>1, <1>2

LEMMA UnfoldAllType ==
  ASSUME NEW ts \in Seq(Token)
  PROVE  UnfoldAll(ts) \in Seq(Ops)
<1> QED
  BY UnfoldsType, FlattenType DEF UnfoldAll

LEMMA UnfoldAllEmpty == UnfoldAll(<<>>) = <<>>
<1>1. [k \in DOMAIN <<>> |-> Unfold(<<>>[k])] = <<>>
  <2>1. <<>> \in Seq(Token)
    OBVIOUS
  <2> QED
    BY <2>1, UnfoldsType
<1> QED
  BY <1>1, FlattenEmpty DEF UnfoldAll

LEMMA UnfoldAllAppend ==
  ASSUME NEW ts \in Seq(Token), NEW t \in Token
  PROVE  UnfoldAll(Append(ts, t)) = UnfoldAll(ts) \o Unfold(t)
<1> DEFINE us == Append(ts, t)
           U(x) == [k \in DOMAIN x |-> Unfold(x[k])]
<1>1. us \in Seq(Token) /\ Len(us) = Len(ts) + 1 /\ us[Len(ts) + 1] = t
      /\ \A k \in 1 .. Len(ts) : us[k] = ts[k]
  BY AppendProperties
<1>2. Unfold(t) \in Seq(Ops)
  BY UnfoldIsRun
<1>3. U(ts) \in Seq(Seq(Ops)) /\ Len(U(ts)) = Len(ts)
      /\ \A k \in 1 .. Len(ts) : U(ts)[k] = Unfold(ts[k])
  BY UnfoldsType
<1>4. U(us) \in Seq(Seq(Ops)) /\ Len(U(us)) = Len(us)
      /\ \A k \in 1 .. Len(us) : U(us)[k] = Unfold(us[k])
  <2> HIDE DEF us
  <2> QED
    BY <1>1, UnfoldsType
<1>5. U(us) = Append(U(ts), Unfold(t))
  <2> DEFINE a == U(us)
             b == U(ts)
             c == Append(b, Unfold(t))
             n == Len(ts)
  <2>0. n \in Nat /\ Len(a) = n + 1 /\ Len(b) = n /\ a \in Seq(Seq(Ops)) /\ b \in Seq(Seq(Ops))
    BY <1>1, <1>3, <1>4
  <2>1. \A k \in 1 .. n : a[k] = Unfold(ts[k]) /\ b[k] = Unfold(ts[k])
    <3> SUFFICES ASSUME NEW k \in 1 .. n PROVE a[k] = Unfold(ts[k]) /\ b[k] = Unfold(ts[k])
      OBVIOUS
    <3>1. k \in 1 .. Len(us) /\ us[k] = ts[k]
      BY <1>1
    <3> HIDE DEF us, U
    <3> QED
      BY <3>1, <1>3, <1>4
  <2>2. a[n + 1] = Unfold(t)
    <3>1. n + 1 \in 1 .. Len(us) /\ us[n + 1] = t
      BY <1>1
    <3> HIDE DEF us, U, n
    <3> QED
      BY <3>1, <1>4
  <2> HIDE DEF a, b, n
  <2>3. c \in Seq(Seq(Ops)) /\ Len(c) = n + 1 /\ c[n + 1] = Unfold(t)
        /\ \A k \in 1 .. n : c[k] = b[k]
    BY <2>0, <1>2, AppendProperties
  <2> HIDE DEF c
  <2>4. \A k \in 1 .. Len(a) : a[k] = c[k]
    BY <2>0, <2>1, <2>2, <2>3
  <2>5. Len(a) = Len(c)
    BY <2>0, <2>3
  <2>6. a = c
    BY ONLY <2>0, <2>3, <2>4, <2>5, SeqEqual
  <2> QED
    BY <2>6 DEF a, b, c
<1> QED
  BY <1>2, <1>3, <1>5, FlattenAppend DEF UnfoldAll

-----------------------------------------------------------------------------
(* Reduction: what it makes of a text is irreducible, depends on a prefix  *)
(* only through what the prefix reduces to, and cancels opposite runs.     *)

Reduced(a) == \A k \in 1 .. Len(a) - 1 : <<a[k], a[k + 1]>> \notin Cancelling

LEMMA FrontProperties ==
  ASSUME NEW C, NEW a \in Seq(C), a # <<>>
  PROVE  /\ Front(a) \in Seq(C) /\ Len(Front(a)) = Len(a) - 1
         /\ \A k \in 1 .. Len(a) - 1 : Front(a)[k] = a[k]
         /\ Last(a) = a[Len(a)] /\ Last(a) \in C /\ Len(a) \in Nat /\ Len(a) >= 1
         /\ Append(Front(a), Last(a)) = a
<1>1. Len(a) \in Nat /\ Len(a) >= 1
  OBVIOUS
<1>2. \A k \in 1 .. Len(a) - 1 : a[k] \in C
  OBVIOUS
<1>3. /\ SubSeq(a, 1, Len(a) - 1) \in Seq(C)
      /\ Len(SubSeq(a, 1, Len(a) - 1)) = Len(a) - 1
      /\ \A k \in 1 .. Len(a) - 1 : SubSeq(a, 1, Len(a) - 1)[k] = a[k]
  <2> DEFINE n == Len(a) - 1
  <2>1. n \in Nat /\ n \in Int
    BY <1>1
  <2>2. \A k \in 1 .. n : a[k] \in C
    BY <1>2
  <2> HIDE DEF n
  <2>3. /\ SubSeq(a, 1, n) \in Seq(C)
        /\ Len(SubSeq(a, 1, n)) = IF 1 <= n THEN n - 1 + 1 ELSE 0
        /\ \A k \in 1 .. n - 1 + 1 : SubSeq(a, 1, n)[k] = a[1 + k - 1]
    BY ONLY <2>1, <2>2, SubSeqProperties
  <2>4. /\ SubSeq(a, 1, n) \in Seq(C) /\ Len(SubSeq(a, 1, n)) = n
        /\ \A k \in 1 .. n : SubSeq(a, 1, n)[k] = a[k]
    BY <2>1, <2>3
  <2> QED
    BY <2>4 DEF n
<1>4. Last(a) = a[Len(a)] /\ Last(a) \in C
  BY <1>1 DEF Last
<1>5. Front(a) = SubSeq(a, 1, Len(a) - 1)
  BY DEF Front
<1>6. Append(Front(a), Last(a)) = a
  <2>1. /\ Append(Front(a), Last(a)) \in Seq(C)
        /\ Len(Append(Front(a), Last(a))) = Len(a)
        /\ \A k \in 1 .. Len(a) : Append(Front(a), Last(a))[k] = a[k]
    BY <1>1, <1>3, <1>4, <1>5, AppendProperties
  <2> QED
    BY <2>1, SeqEqual
<1> QED
  BY <1>1, <1>3, <1>4, <1>5, <1>6

LEMMA FrontAppend ==
  ASSUME NEW C, NEW a \in Seq(C), NEW c \in C
  PROVE  Front(Append(a, c)) = a /\ Last(Append(a, c)) = c /\ Append(a, c) # <<>>
<1> DEFINE b == Append(a, c)
<1>1. b \in Seq(C) /\ Len(b) = Len(a) + 1 /\ b[Len(a) + 1] = c /\ b # <<>>
      /\ \A k \in 1 .. Len(a) : b[k] = a[k]
  BY AppendProperties
<1> HIDE DEF b
<1>2. /\ Front(b) \in Seq(C) /\ Len(Front(b)) = Len(b) - 1
      /\ \A k \in 1 .. Len(b) - 1 : Front(b)[k] = b[k]
      /\ Last(b) = b[Len(b)]
  BY <1>1, FrontProperties
<1>3. Front(b) = a
  <2>1. Len(Front(b)) = Len(a) /\ \A k \in 1 .. Len(a) : Front(b)[k] = a[k]
    BY <1>1, <1>2
  <2> QED
    BY <2>1, <1>2, SeqEqual
<1> QED
  BY <1>1, <1>2, <1>3 DEF b

LEMMA AddCharReduced ==
  ASSUME NEW C, NEW a \in Seq(C), NEW c \in C, Reduced(a)
  PROVE  Reduced(AddChar(a, c))
<1>1. CASE a # <<>> /\ <<Last(a), c>> \in Cancelling
  <2> DEFINE b == Front(a)
  <2>1. AddChar(a, c) = b
    BY <1>1 DEF AddChar
  <2>2. Len(b) = Len(a) - 1 /\ Len(a) \in Nat /\ \A k \in 1 .. Len(a) - 1 : b[k] = a[k]
    BY <1>1, FrontProperties
  <2> HIDE DEF b
  <2>3. ASSUME NEW k \in 1 .. Len(b) - 1 PROVE <<b[k], b[k + 1]>> \notin Cancelling
    <3>1. k \in 1 .. Len(a) - 1 /\ k + 1 \in 1 .. Len(a) - 1
      BY <2>2
    <3>2. b[k] = a[k] /\ b[k + 1] = a[k + 1]
      BY <2>2, <3>1
    <3> QED
      BY <3>1, <3>2 DEF Reduced
  <2> QED
    BY <2>1, <2>3 DEF Reduced
<1>2. CASE a = <<>>
  <2>1. AddChar(a, c) = Append(a, c) /\ Len(Append(a, c)) = 1
    BY <1>2 DEF AddChar
  <2> QED
    BY <2>1 DEF Reduced
<1>3. CASE a # <<>> /\ <<Last(a), c>> \notin Cancelling
  <2> DEFINE b == Append(a, c)
  <2>1. AddChar(a, c) = b
    BY <1>3 DEF AddChar
  <2>2. b \in Seq(C) /\ Len(b) = Len(a) + 1 /\ b[Len(a) + 1] = c
        /\ \A k \in 1 .. Len(a) : b[k] = a[k]
    BY AppendProperties
  <2>3. Last(a) = a[Len(a)] /\ Len(a) \in Nat /\ Len(a) >= 1
    BY <1>3, FrontProperties
  <2> HIDE DEF b
  <2>4. ASSUME NEW k \in 1 .. Len(b) - 1 PROVE <<b[k], b[k + 1]>> \notin Cancelling
    <3>1. CASE k = Len(a)
      <4>1. b[k] = Last(a) /\ b[k + 1] = c
        BY <2>2, <2>3, <3>1
      <4> QED
        BY <4>1, <1>3
    <3>2. CASE k # Len(a)
      <4>1. k \in 1 .. Len(a) - 1 /\ k \in 1 .. Len(a) /\ k + 1 \in 1 .. Len(a)
        BY <2>2, <2>3, <3>2
      <4>2. b[k] = a[k] /\ b[k + 1] = a[k + 1]
        BY <4>1, <2>2
      <4> QED
        BY <4>1, <4>2 DEF Reduced
    <3> QED
      BY <3>1, <3>2
  <2> QED
    BY <2>1, <2>4 DEF Reduced
<1> QED
  BY <1>1, <1>2, <1>3

\* A character and its opposite leave an irreducible text as it was.
LEMMA AddCharBack ==
  ASSUME NEW C, NEW a \in Seq(C), NEW d \in C, NEW c \in C, Reduced(a),
         <<d, c>> \in Cancelling
  PROVE  AddChar(AddChar(a, d), c) = a
<1>1. CASE a # <<>> /\ <<Last(a), d>> \in Cancelling
  <2> DEFINE b == Front(a)
  <2>1. AddChar(a, d) = b
    BY <1>1 DEF AddChar
  <2>2. Last(a) = c
    BY <1>1 DEF Cancelling
  <2>3. /\ b \in Seq(C) /\ Len(b) = Len(a) - 1 /\ \A k \in 1 .. Len(b) : b[k] = a[k]
        /\ Last(a) = a[Len(a)] /\ Len(a) \in Nat /\ Append(b, Last(a)) = a
    BY <1>1, FrontProperties
  <2> HIDE DEF b
  <2>4. ASSUME b # <<>> PROVE <<Last(b), c>> \notin Cancelling
    <3>1. Last(b) = b[Len(b)] /\ Len(b) >= 1 /\ Len(b) \in Nat
      BY <2>3, <2>4, FrontProperties
    <3>2. Len(b) \in 1 .. Len(a) - 1 /\ Last(b) = a[Len(b)] /\ a[Len(b) + 1] = c
      BY <2>2, <2>3, <3>1
    <3> QED
      BY <3>2 DEF Reduced
  <2> QED
    BY <2>1, <2>2, <2>3, <2>4 DEF AddChar
<1>2. CASE ~(a # <<>> /\ <<Last(a), d>> \in Cancelling)
  <2>1. AddChar(a, d) = Append(a, d)
    BY <1>2 DEF AddChar
  <2>2. Front(Append(a, d)) = a /\ Last(Append(a, d)) = d /\ Append(a, d) # <<>>
    BY FrontAppend
  <2> QED
    BY <2>1, <2>2 DEF AddChar
<1> QED
  BY <1>1, <1>2

LEMMA ReduceReduced ==
  ASSUME NEW C
  PROVE  \A s \in Seq(C) : Reduced(Reduce(s))
<1> DEFINE T == {s \in Seq(C) : Reduced(Reduce(s))}
<1>1. <<>> \in T
  BY ReduceEmpty DEF Reduced
<1>2. ASSUME NEW s \in Seq(C), s \in T, NEW e \in C PROVE Append(s, e) \in T
  <2>1. Reduce(s) \in Seq(C) /\ Reduced(Reduce(s)) /\ Append(s, e) \in Seq(C)
    BY <1>2, ReduceType, AppendProperties
  <2>2. Reduced(AddChar(Reduce(s), e))
    BY <2>1, AddCharReduced
  <2> QED
    BY <2>1, <2>2, ReduceAppend
<1>3. Seq(C) \subseteq T
  <2> HIDE DEF T
  <2> QED
    BY <1>1, <1>2, SeqInduction
<1> QED
  BY <1>3

\* TextsOf that reduce to the same stream still do with the same text appended.
LEMMA ReduceCongruent ==
  ASSUME NEW C, NEW s \in Seq(C), NEW t \in Seq(C), Reduce(s) = Reduce(t)
  PROVE  \A u \in Seq(C) : Reduce(s \o u) = Reduce(t \o u)
<1> DEFINE T == {u \in Seq(C) : Reduce(s \o u) = Reduce(t \o u)}
<1>1. <<>> \in T
  BY ConcatEmptySeq
<1>2. ASSUME NEW u \in Seq(C), u \in T, NEW e \in C PROVE Append(u, e) \in T
  <2>1. s \o u \in Seq(C) /\ t \o u \in Seq(C) /\ Append(u, e) \in Seq(C)
    BY ConcatProperties, AppendProperties
  <2>2. \A r \in Seq(C) : r \o Append(u, e) = Append(r \o u, e)
    <3> SUFFICES ASSUME NEW r \in Seq(C) PROVE r \o Append(u, e) = Append(r \o u, e)
      OBVIOUS
    <3>1. <<e>> \in Seq(C) /\ r \o u \in Seq(C)
      BY ConcatProperties
    <3>2. Append(u, e) = u \o <<e>> /\ Append(r \o u, e) = (r \o u) \o <<e>>
      BY <3>1, AppendIsConcat
    <3> QED
      BY <3>1, <3>2, ConcatAssociative
  <2>3. Reduce(s \o u) = Reduce(t \o u)
    BY <1>2
  <2>4. /\ Reduce(Append(s \o u, e)) = AddChar(Reduce(s \o u), e)
        /\ Reduce(Append(t \o u, e)) = AddChar(Reduce(t \o u), e)
    BY <2>1, ReduceAppend
  <2> QED
    BY <2>1, <2>2, <2>3, <2>4
<1>3. Seq(C) \subseteq T
  <2> HIDE DEF T
  <2> QED
    BY <1>1, <1>2, SeqInduction
<1> QED
  BY <1>3

\* A run and the opposite run of the same length leave no trace.
LEMMA EqualRunsCancel ==
  ASSUME NEW C, NEW d \in C, NEW c \in C, <<d, c>> \in Cancelling
  PROVE  \A n \in Nat : \A s \in Seq(C) : Reduce((s \o Run(d, n)) \o Run(c, n)) = Reduce(s)
<1> DEFINE T == {n \in Nat : \A s \in Seq(C) : Reduce((s \o Run(d, n)) \o Run(c, n)) = Reduce(s)}
<1>1. 0 \in T
  <2> SUFFICES ASSUME NEW s \in Seq(C) PROVE Reduce((s \o Run(d, 0)) \o Run(c, 0)) = Reduce(s)
    OBVIOUS
  <2>1. Run(d, 0) = <<>> /\ Run(c, 0) = <<>>
    BY RunUnit
  <2>2. s \o <<>> = s
    BY ConcatEmptySeq
  <2> QED
    BY <2>1, <2>2
<1>2. ASSUME NEW n \in Nat, n \in T PROVE n + 1 \in T
  <2> SUFFICES ASSUME NEW s \in Seq(C)
               PROVE  Reduce((s \o Run(d, n + 1)) \o Run(c, n + 1)) = Reduce(s)
    OBVIOUS
  <2> DEFINE r == Append(s, d)
             u == (r \o Run(d, n)) \o Run(c, n)
  <2>1. r \in Seq(C) /\ <<d>> \in Seq(C) /\ <<c>> \in Seq(C) /\ r = s \o <<d>>
    BY AppendProperties, AppendIsConcat
  <2>2. Run(d, n) \in Seq(C) /\ Run(c, n) \in Seq(C)
    BY RunType
  <2>3. s \o Run(d, n + 1) = r \o Run(d, n)
    <3>0. 1 \in Nat /\ n \in Nat /\ 1 + n = n + 1
      OBVIOUS
    <3>a. Run(d, 1 + n) = Run(d, 1) \o Run(d, n)
      BY ONLY <3>0, RunSplit
    <3>1. Run(d, 1 + n) = <<d>> \o Run(d, n) /\ 1 + n = n + 1
      BY ONLY <3>0, <3>a, RunUnit
    <3> HIDE DEF r
    <3>2. (s \o <<d>>) \o Run(d, n) = s \o (<<d>> \o Run(d, n))
      BY <2>1, <2>2, ConcatAssociative
    <3> QED
      BY <2>1, <3>1, <3>2
  <2>4. (r \o Run(d, n)) \o Run(c, n + 1) = Append(u, c)
    <3> HIDE DEF r
    <3>1. r \o Run(d, n) \in Seq(C) /\ u \in Seq(C)
      BY <2>1, <2>2, ConcatProperties
    <3>2. Run(c, n + 1) = Run(c, n) \o <<c>>
      BY RunSplit, RunUnit
    <3>3. (r \o Run(d, n)) \o (Run(c, n) \o <<c>>) = u \o <<c>>
      BY <2>1, <2>2, <3>1, ConcatAssociative
    <3>4. Append(u, c) = u \o <<c>>
      BY <3>1, AppendIsConcat
    <3> QED
      BY <3>2, <3>3, <3>4
  <2>5. u \in Seq(C) /\ Reduce(u) = Reduce(r)
    <3> HIDE DEF r
    <3>1. r \o Run(d, n) \in Seq(C)
      BY <2>1, <2>2, ConcatProperties
    <3>2. u \in Seq(C)
      BY <3>1, <2>2, ConcatProperties
    <3> QED
      BY <1>2, <2>1, <3>2
  <2>6. Reduce(r) = AddChar(Reduce(s), d)
    BY ReduceAppend
  <2> HIDE DEF u, r
  <2>7. Reduce(Append(u, c)) = AddChar(AddChar(Reduce(s), d), c)
    BY <2>5, <2>6, ReduceAppend
  <2>8. Reduce(s) \in Seq(C) /\ Reduced(Reduce(s))
    BY ReduceType, ReduceReduced
  <2> QED
    BY <2>3, <2>4, <2>7, <2>8, AddCharBack
<1>3. Nat \subseteq T
  <2> HIDE DEF T
  <2> QED
    BY <1>1, <1>2, SetInduction
<1> QED
  BY <1>3

\* Opposite runs leave what the longer one has more than the other: what lex
\* does to a run that meets its opposite (lexer.c:67-105), whatever stands before.
THEOREM RunsCancel ==
  ASSUME NEW C, NEW d \in C, NEW c \in C, <<d, c>> \in Cancelling,
         NEW s \in Seq(C), NEW m \in Nat, NEW n \in Nat
  PROVE  /\ m >= n => Reduce((s \o Run(d, m)) \o Run(c, n)) = Reduce(s \o Run(d, m - n))
         /\ n >= m => Reduce((s \o Run(d, m)) \o Run(c, n)) = Reduce(s \o Run(c, n - m))
<1>a. \A x, y, z \in Seq(C) : (x \o y) \o z = x \o (y \o z)
  BY ConcatAssociative
<1>1. ASSUME m >= n
      PROVE  Reduce((s \o Run(d, m)) \o Run(c, n)) = Reduce(s \o Run(d, m - n))
  <2> DEFINE k == m - n
             r == s \o Run(d, k)
  <2>1. k \in Nat /\ k + n = m
    BY <1>1
  <2> HIDE DEF k
  <2>2. Run(d, m) = Run(d, k) \o Run(d, n)
    BY <2>1, RunSplit
  <2>3. Run(d, k) \in Seq(C) /\ Run(d, n) \in Seq(C)
    BY <2>1, RunType
  <2>4. s \o Run(d, m) = r \o Run(d, n)
    BY <2>2, <2>3, <1>a
  <2>5. r \in Seq(C)
    BY <2>3, ConcatProperties
  <2> HIDE DEF r
  <2>6. \A q \in Seq(C) : Reduce((q \o Run(d, n)) \o Run(c, n)) = Reduce(q)
    BY EqualRunsCancel
  <2>7. Reduce((r \o Run(d, n)) \o Run(c, n)) = Reduce(r)
    BY <2>5, <2>6
  <2> QED
    BY <2>4, <2>7 DEF r, k
<1>2. ASSUME n >= m
      PROVE  Reduce((s \o Run(d, m)) \o Run(c, n)) = Reduce(s \o Run(c, n - m))
  <2> DEFINE k == n - m
             r == s \o Run(d, m)
             q == r \o Run(c, m)
  <2>1. k \in Nat /\ m + k = n
    BY <1>2
  <2> HIDE DEF k
  <2>2. Run(c, n) = Run(c, m) \o Run(c, k)
    BY <2>1, RunSplit
  <2>3. Run(d, m) \in Seq(C) /\ Run(c, m) \in Seq(C) /\ Run(c, k) \in Seq(C)
    BY <2>1, RunType
  <2>4. r \in Seq(C)
    BY <2>3, ConcatProperties
  <2>6. Reduce(q) = Reduce(s)
    BY EqualRunsCancel
  <2> HIDE DEF r
  <2>5. r \o Run(c, n) = q \o Run(c, k) /\ q \in Seq(C)
    <3>1. q \in Seq(C)
      BY <2>3, <2>4, ConcatProperties
    <3>2. r \o (Run(c, m) \o Run(c, k)) = q \o Run(c, k)
      BY <2>3, <2>4, <1>a
    <3> QED
      BY <2>2, <3>1, <3>2
  <2> HIDE DEF q
  <2>7. \A u \in Seq(C) : Reduce(q \o u) = Reduce(s \o u)
    BY <2>5, <2>6, ReduceCongruent
  <2>8. Reduce(q \o Run(c, k)) = Reduce(s \o Run(c, k))
    BY <2>3, <2>7
  <2> QED
    BY <2>5, <2>8 DEF r, k
<1> QED
  BY <1>1, <1>2

-----------------------------------------------------------------------------
(* Bracket depth: cancelling and folding change neither the depth a text   *)
(* ends at nor whether it ever falls below zero.                           *)

CharWeight(c) == IF c = "[" THEN 1 ELSE IF c = "]" THEN -1 ELSE 0
Net(s) == Depth(s, Len(s))
NeverBelow(s) == \A k \in 1 .. Len(s) : Depth(s, k) >= 0

LEMMA CountStep ==
  ASSUME NEW s, NEW c, NEW k \in Nat
  PROVE  /\ Count(s, c, 0) = 0 /\ Count(s, c, k) \in Nat
         /\ Count(s, c, k + 1) = Count(s, c, k) + (IF s[k + 1] = c THEN 1 ELSE 0)
<1> DEFINE A(n) == {j \in 1 .. n : s[j] = c}
<1>1. \A n : Count(s, c, n) = Cardinality(A(n))
  BY DEF Count
<1>2. A(0) = {}
  OBVIOUS
<1>3. IsFiniteSet(A(k))
  <2>1. IsFiniteSet(1 .. k)
    BY FS_Interval
  <2>2. A(k) \subseteq 1 .. k
    OBVIOUS
  <2> QED
    BY <2>1, <2>2, FS_Subset
<1>4. k + 1 \notin A(k)
  OBVIOUS
<1>5. s[k + 1] = c => A(k + 1) = A(k) \union {k + 1}
  OBVIOUS
<1>6. s[k + 1] # c => A(k + 1) = A(k)
  OBVIOUS
<1> HIDE DEF A
<1>7. Cardinality(A(k)) \in Nat /\ Cardinality(A(0)) = 0
  BY <1>2, <1>3, FS_CardinalityType, FS_EmptySet
<1>8. Cardinality(A(k) \union {k + 1}) = Cardinality(A(k)) + 1
  BY <1>3, <1>4, FS_AddElement
<1> QED
  BY <1>1, <1>5, <1>6, <1>7, <1>8

LEMMA DepthStep ==
  ASSUME NEW s, NEW k \in Nat
  PROVE  /\ Depth(s, 0) = 0 /\ Depth(s, k) \in Int
         /\ Depth(s, k + 1) = Depth(s, k) + CharWeight(s[k + 1])
<1> DEFINE o == Count(s, "[", k)
           p == Count(s, "]", k)
           x == s[k + 1]
<1>1. /\ Count(s, "[", 0) = 0 /\ o \in Nat
      /\ Count(s, "[", k + 1) = o + (IF x = "[" THEN 1 ELSE 0)
  BY CountStep
<1>2. /\ Count(s, "]", 0) = 0 /\ p \in Nat
      /\ Count(s, "]", k + 1) = p + (IF x = "]" THEN 1 ELSE 0)
  BY CountStep
<1> HIDE DEF x
<1>3. Depth(s, k) = o - p /\ Depth(s, 0) = 0
  BY <1>1, <1>2 DEF Depth
<1> HIDE DEF o, p
<1>4. Depth(s, k + 1) = (o + (IF x = "[" THEN 1 ELSE 0)) - (p + (IF x = "]" THEN 1 ELSE 0))
  BY <1>1, <1>2 DEF Depth
<1>5. Depth(s, k + 1) = (o - p) + CharWeight(x)
  <2>1. CASE x = "["
    <3>1. x # "]"
      BY <2>1
    <3> QED
      BY <2>1, <3>1, <1>1, <1>2, <1>4 DEF CharWeight
  <2>2. CASE x = "]"
    <3>1. x # "["
      BY <2>2
    <3> QED
      BY <2>2, <3>1, <1>1, <1>2, <1>4 DEF CharWeight
  <2>3. CASE x # "[" /\ x # "]"
    BY <2>3, <1>1, <1>2, <1>4 DEF CharWeight
  <2> QED
    BY <2>1, <2>2, <2>3
<1> QED
  BY <1>1, <1>2, <1>3, <1>5 DEF x

LEMMA DepthPrefix ==
  ASSUME NEW s, NEW t, NEW n \in Nat, \A k \in 1 .. n : s[k] = t[k]
  PROVE  Depth(s, n) = Depth(t, n)
<1>1. \A c : {j \in 1 .. n : s[j] = c} = {j \in 1 .. n : t[j] = c}
  OBVIOUS
<1> QED
  BY <1>1 DEF Depth, Count

LEMMA NetType ==
  ASSUME NEW C, NEW s \in Seq(C)
  PROVE  Net(s) \in Int /\ (NeverBelow(s) => Net(s) >= 0)
<1>0. Len(s) \in Nat
  OBVIOUS
<1>1. Net(s) \in Int
  BY <1>0, DepthStep DEF Net
<1>2. ASSUME NeverBelow(s) PROVE Net(s) >= 0
  <2>1. CASE Len(s) = 0
    BY <2>1, DepthStep DEF Net
  <2>2. CASE Len(s) # 0
    <3>1. Len(s) \in 1 .. Len(s)
      BY <1>0, <2>2
    <3> QED
      BY <3>1, <1>2 DEF NeverBelow, Net
  <2> QED
    BY <2>1, <2>2
<1> QED
  BY <1>1, <1>2

LEMMA NetAppend ==
  ASSUME NEW C, NEW s \in Seq(C), NEW c \in C
  PROVE  /\ Net(Append(s, c)) = Net(s) + CharWeight(c)
         /\ NeverBelow(Append(s, c)) <=> NeverBelow(s) /\ Net(Append(s, c)) >= 0
<1> DEFINE t == Append(s, c)
           n == Len(s)
<1>1. n \in Nat /\ Len(t) = n + 1 /\ t[n + 1] = c /\ \A k \in 1 .. n : t[k] = s[k]
  BY AppendProperties
<1> HIDE DEF t
<1>2. \A k \in 0 .. n : Depth(t, k) = Depth(s, k)
  <2> SUFFICES ASSUME NEW k \in 0 .. n PROVE Depth(t, k) = Depth(s, k)
    OBVIOUS
  <2>1. k \in Nat /\ \A j \in 1 .. k : t[j] = s[j]
    BY <1>1
  <2> QED
    BY <2>1, DepthPrefix
<1>3. Depth(t, n + 1) = Depth(t, n) + CharWeight(c)
  BY <1>1, DepthStep
<1>4. Net(t) = Net(s) + CharWeight(c) /\ Net(t) = Depth(t, n + 1)
  <2>1. n \in 0 .. n
    BY <1>1
  <2> QED
    BY <2>1, <1>1, <1>2, <1>3 DEF Net
<1>5. NeverBelow(t) <=> NeverBelow(s) /\ Net(t) >= 0
  <2>1. \A k \in 1 .. n : Depth(t, k) = Depth(s, k)
    BY <1>2
  <2>2. 1 .. Len(t) = (1 .. n) \union {n + 1}
    BY <1>1
  <2>3. NeverBelow(t) <=> \A k \in (1 .. n) \union {n + 1} : Depth(t, k) >= 0
    BY <2>2 DEF NeverBelow
  <2> QED
    BY <2>1, <2>3, <1>4 DEF NeverBelow
<1> QED
  BY <1>4, <1>5 DEF t

LEMMA ReduceNet ==
  ASSUME NEW C
  PROVE  \A s \in Seq(C) : /\ Net(Reduce(s)) = Net(s)
                           /\ NeverBelow(Reduce(s)) <=> NeverBelow(s)
<1> DEFINE T == {s \in Seq(C) : /\ Net(Reduce(s)) = Net(s)
                                /\ NeverBelow(Reduce(s)) <=> NeverBelow(s)}
<1>1. <<>> \in T
  BY ReduceEmpty
<1>2. ASSUME NEW s \in Seq(C), s \in T, NEW c \in C PROVE Append(s, c) \in T
  <2> DEFINE a == Reduce(s)
             t == Append(s, c)
  <2>1. a \in Seq(C) /\ t \in Seq(C)
    BY ReduceType, AppendProperties
  <2>2. Net(a) = Net(s) /\ (NeverBelow(a) <=> NeverBelow(s))
    BY <1>2
  <2>3. Net(t) = Net(s) + CharWeight(c) /\ (NeverBelow(t) <=> NeverBelow(s) /\ Net(t) >= 0)
    BY NetAppend
  <2>4. Reduce(t) = AddChar(a, c)
    BY ReduceAppend
  <2> HIDE DEF a, t
  <2>5. CASE a # <<>> /\ <<Last(a), c>> \in Cancelling
    <3> DEFINE b == Front(a)
               d == Last(a)
    <3>1. b \in Seq(C) /\ d \in C /\ Append(b, d) = a
      BY <2>1, <2>5, FrontProperties
    <3>2. AddChar(a, c) = b
      BY <2>5 DEF AddChar
    <3>3. CharWeight(d) \in {0, 1} /\ CharWeight(c) = -CharWeight(d)
      BY <2>5 DEF Cancelling, CharWeight
    <3> HIDE DEF b, d
    <3>4. Net(a) = Net(b) + CharWeight(d) /\ (NeverBelow(a) <=> NeverBelow(b) /\ Net(a) >= 0)
      BY <3>1, NetAppend
    <3>5. Net(b) \in Int /\ (NeverBelow(b) => Net(b) >= 0) /\ Net(s) \in Int
      BY <3>1, NetType
    <3>6. Net(b) = Net(t)
      BY <2>2, <2>3, <3>3, <3>4, <3>5
    <3>7. NeverBelow(b) <=> NeverBelow(t)
      <4>1. NeverBelow(b) => Net(a) >= 0 /\ Net(t) >= 0
        BY <3>3, <3>4, <3>5, <3>6
      <4> QED
        BY <4>1, <2>2, <2>3, <3>4
    <3> QED
      BY <2>1, <2>4, <3>2, <3>6, <3>7 DEF t
  <2>6. CASE ~(a # <<>> /\ <<Last(a), c>> \in Cancelling)
    <3>1. AddChar(a, c) = Append(a, c)
      BY <2>6 DEF AddChar
    <3>2. /\ Net(Append(a, c)) = Net(a) + CharWeight(c)
          /\ NeverBelow(Append(a, c)) <=> NeverBelow(a) /\ Net(Append(a, c)) >= 0
      BY <2>1, NetAppend
    <3>3. Net(Reduce(t)) = Net(t) /\ (NeverBelow(Reduce(t)) <=> NeverBelow(t))
      BY <2>2, <2>3, <2>4, <3>1, <3>2
    <3> QED
      BY <2>1, <3>3 DEF t
  <2> QED
    BY <2>5, <2>6
<1>3. Seq(C) \subseteq T
  <2> HIDE DEF T
  <2> QED
    BY <1>1, <1>2, SeqInduction
<1> QED
  BY <1>3

LEMMA BalancedNet ==
  ASSUME NEW s
  PROVE  Balanced(s) <=> NeverBelow(s) /\ Net(s) = 0
  BY DEF Balanced, NeverBelow, Net

\* TextsOf that reduce to the same stream are balanced together: cancelling
\* neighbours, brackets among them, neither hides nor makes a mismatch
\* (lexer.c:67-105).
THEOREM BalancedReduce ==
  ASSUME NEW C, NEW s \in Seq(C), NEW t \in Seq(C), Reduce(s) = Reduce(t)
  PROVE  Balanced(s) <=> Balanced(t)
<1>1. /\ Net(Reduce(s)) = Net(s) /\ (NeverBelow(Reduce(s)) <=> NeverBelow(s))
      /\ Net(Reduce(t)) = Net(t) /\ (NeverBelow(Reduce(t)) <=> NeverBelow(t))
  BY ReduceNet
<1> QED
  BY <1>1, BalancedNet

LEMMA RunNet ==
  ASSUME NEW C, NEW s \in Seq(C), NEW c \in C
  PROVE  \A n \in Nat :
           /\ Net(s \o Run(c, n)) = Net(s) + (IF c = "[" THEN n ELSE IF c = "]" THEN 0 - n ELSE 0)
           /\ NeverBelow(s \o Run(c, n)) <=> NeverBelow(s) /\ Net(s \o Run(c, n)) >= 0
<1> DEFINE W(n) == IF c = "[" THEN n ELSE IF c = "]" THEN 0 - n ELSE 0
           T == {n \in Nat : /\ Net(s \o Run(c, n)) = Net(s) + W(n)
                             /\ NeverBelow(s \o Run(c, n)) <=>
                                  NeverBelow(s) /\ Net(s \o Run(c, n)) >= 0}
<1>0. Net(s) \in Int /\ (NeverBelow(s) => Net(s) >= 0)
  BY NetType
<1>1. 0 \in T
  <2>1. s \o Run(c, 0) = s
    BY RunUnit, ConcatEmptySeq
  <2>2. W(0) = 0
    OBVIOUS
  <2> HIDE DEF W
  <2>3. Net(s) = Net(s) + W(0)
    BY <1>0, <2>2
  <2> QED
    BY <1>0, <2>1, <2>3
<1>2. ASSUME NEW n \in Nat, n \in T PROVE n + 1 \in T
  <2> DEFINE r == s \o Run(c, n)
             t == s \o Run(c, n + 1)
  <2>1. r \in Seq(C) /\ t = Append(r, c)
    <3>1. Run(c, n) \in Seq(C) /\ Run(c, n + 1) = Append(Run(c, n), c) /\ <<c>> \in Seq(C)
      <4>1. <<c>> \in Seq(C) /\ Run(c, n) \in Seq(C)
        BY RunType
      <4> QED
        BY <4>1, RunAppend
    <3>2. Append(Run(c, n), c) = Run(c, n) \o <<c>>
      BY <3>1, AppendIsConcat
    <3>3. r \in Seq(C)
      BY <3>1, ConcatProperties
    <3>4. Append(r, c) = r \o <<c>>
      BY <3>3, AppendIsConcat
    <3>5. \A x, y, z \in Seq(C) : (x \o y) \o z = x \o (y \o z)
      BY ConcatAssociative
    <3>6. (s \o Run(c, n)) \o <<c>> = s \o (Run(c, n) \o <<c>>)
      BY <3>1, <3>5
    <3> QED
      BY <3>1, <3>2, <3>3, <3>4, <3>6
  <2>2. Net(r) = Net(s) + W(n) /\ (NeverBelow(r) <=> NeverBelow(s) /\ Net(r) >= 0)
    BY <1>2
  <2> HIDE DEF r
  <2>3. Net(t) = Net(r) + CharWeight(c) /\ (NeverBelow(t) <=> NeverBelow(r) /\ Net(t) >= 0)
    BY <2>1, NetAppend
  <2> HIDE DEF t
  <2>4. CASE c = "["
    BY <2>2, <2>3, <2>4, <1>0 DEF CharWeight, t
  <2>5. CASE c = "]"
    <3>1. c # "["
      BY <2>5
    <3> QED
      BY <2>2, <2>3, <2>5, <3>1, <1>0 DEF CharWeight, t
  <2>6. CASE c # "[" /\ c # "]"
    BY <2>2, <2>3, <2>6, <1>0 DEF CharWeight, t
  <2> QED
    BY <2>4, <2>5, <2>6
<1>3. Nat \subseteq T
  <2> HIDE DEF T
  <2> QED
    BY <1>1, <1>2, SetInduction
<1> QED
  BY <1>3

LEMMA TokDepthAppend ==
  ASSUME NEW ts \in Seq(Token), NEW t \in Token
  PROVE  LET us == Append(ts, t)
             n == Len(ts)
         IN  /\ us \in Seq(Token) /\ Len(us) = n + 1 /\ n \in Nat
             /\ \A k \in 0 .. n : TokDepth(us, k) = TokDepth(ts, k) /\ TokDepth(us, k) \in Int
             /\ TokDepth(us, n + 1) = TokDepth(ts, n) + Weight(t)
<1> DEFINE us == Append(ts, t)
           n == Len(ts)
<1>1. us \in Seq(Token) /\ Len(us) = n + 1 /\ n \in Nat /\ us[n + 1] = t
      /\ \A k \in 1 .. n : us[k] = ts[k]
  BY AppendProperties
<1> HIDE DEF us
<1>2. \A k \in 0 .. n : TokDepth(us, k) = TokDepth(ts, k)
  <2>1. n <= Len(us) /\ n <= Len(ts) /\ n \in Nat
    BY <1>1
  <2> HIDE DEF n
  <2> QED
    BY <1>1, <2>1, TokDepthPrefix
<1>3. TokDepth(us, n + 1) = TokDepth(us, n) + Weight(us[n + 1])
  <2>1. n + 1 \in 1 .. Len(us) /\ (n + 1) - 1 = n
    BY <1>1
  <2>2. \A k \in 1 .. Len(us) : TokDepth(us, k) = TokDepth(us, k - 1) + Weight(us[k])
    BY <1>1, TokDepthStep
  <2> QED
    BY <2>1, <2>2
<1>4. \A k \in 0 .. n : TokDepth(us, k) \in Int
  <2>1. \A k \in 0 .. Len(us) : TokDepth(us, k) \in Int
    BY <1>1, TokDepthStep
  <2> QED
    BY <1>1, <2>1
<1>5. n \in 0 .. n
  BY <1>1
<1> QED
  BY <1>1, <1>2, <1>3, <1>4, <1>5 DEF us

\* The depth of the tokens is the depth of the text they stand for.
LEMMA UnfoldNet ==
  \A ts \in Seq(Token) :
    /\ Net(UnfoldAll(ts)) = TokDepth(ts, Len(ts))
    /\ NeverBelow(UnfoldAll(ts)) <=> \A k \in 1 .. Len(ts) : TokDepth(ts, k) >= 0
<1> DEFINE T == {ts \in Seq(Token) :
                   /\ Net(UnfoldAll(ts)) = TokDepth(ts, Len(ts))
                   /\ NeverBelow(UnfoldAll(ts)) <=> \A k \in 1 .. Len(ts) : TokDepth(ts, k) >= 0}
<1>1. <<>> \in T
  <2>1. <<>> \in Seq(Token) /\ Len(<<>>) = 0
    OBVIOUS
  <2>2. TokDepth(<<>>, 0) = 0
    BY <2>1, TokDepthStep
  <2>3. Net(<<>>) = 0 /\ NeverBelow(<<>>)
    BY DepthStep DEF Net, NeverBelow
  <2> QED
    BY <2>1, <2>2, <2>3, UnfoldAllEmpty
<1>2. ASSUME NEW ts \in Seq(Token), ts \in T, NEW t \in Token PROVE Append(ts, t) \in T
  <2> DEFINE us == Append(ts, t)
             n == Len(ts)
             u == UnfoldAll(ts)
             v == UnfoldAll(us)
  <2>1. /\ us \in Seq(Token) /\ Len(us) = n + 1 /\ n \in Nat
        /\ \A k \in 0 .. n : TokDepth(us, k) = TokDepth(ts, k) /\ TokDepth(us, k) \in Int
        /\ TokDepth(us, n + 1) = TokDepth(ts, n) + Weight(t)
    BY TokDepthAppend
  <2>2. Net(u) = TokDepth(ts, n)
        /\ (NeverBelow(u) <=> \A k \in 1 .. n : TokDepth(ts, k) >= 0)
    BY <1>2
  <2>3. u \in Seq(Ops) /\ v = u \o Run(t.op, t.len) /\ t.op \in Ops /\ t.len \in Nat
    BY UnfoldAllType, UnfoldAllAppend, UnfoldIsRun
  <2> HIDE DEF us, u, v, n
  <2>4. /\ Net(v) = Net(u) + (IF t.op = "[" THEN t.len ELSE IF t.op = "]" THEN 0 - t.len ELSE 0)
        /\ NeverBelow(v) <=> NeverBelow(u) /\ Net(v) >= 0
    BY <2>3, RunNet
  <2>5. Weight(t) = IF t.op = "[" THEN t.len ELSE IF t.op = "]" THEN 0 - t.len ELSE 0
    <3>1. -(t.len) = 0 - t.len
      BY <2>3
    <3> QED
      BY <3>1 DEF Weight
  <2>6. Net(v) = TokDepth(us, n + 1)
    BY <2>1, <2>2, <2>4, <2>5
  <2>7. NeverBelow(v) <=> \A k \in 1 .. n + 1 : TokDepth(us, k) >= 0
    <3>1. 1 .. n + 1 = (1 .. n) \union {n + 1}
      BY <2>1
    <3>2. \A k \in 1 .. n : TokDepth(us, k) = TokDepth(ts, k)
      BY <2>1
    <3>3. (\A k \in (1 .. n) \union {n + 1} : TokDepth(us, k) >= 0)
            <=> (\A k \in 1 .. n : TokDepth(ts, k) >= 0) /\ Net(v) >= 0
      BY <2>6, <3>2
    <3> QED
      BY <2>2, <2>4, <3>1, <3>3
  <2>8. Net(v) = TokDepth(us, Len(us))
        /\ (NeverBelow(v) <=> \A k \in 1 .. Len(us) : TokDepth(us, k) >= 0)
    BY <2>1, <2>6, <2>7
  <2> QED
    BY <2>1, <2>8 DEF us, v
<1>3. Seq(Token) \subseteq T
  <2> HIDE DEF T
  <2> QED
    BY <1>1, <1>2, SeqInduction
<1> QED
  BY <1>3

\* Tokens are balanced when the text they stand for is: a level counted run by
\* run (lexer.c:112-129) tells what one counted by characters would.
THEOREM BalancedUnfold ==
  ASSUME NEW ts \in Seq(Token)
  PROVE  TokBalanced(ts) <=> Balanced(UnfoldAll(ts))
  BY UnfoldNet, BalancedNet DEF TokBalanced

-----------------------------------------------------------------------------
(* Where the tokens lie in the text they stand for.                        *)

\* Token k covers the characters of s from off[k - 1] + 1 to off[k].
Layout(ts, s, off) ==
  /\ off[0] = 0 /\ off[Len(ts)] = Len(s)
  /\ \A k \in 0 .. Len(ts) : off[k] \in Nat
  /\ \A k \in 1 .. Len(ts) : off[k] = off[k - 1] + ts[k].len
  /\ \A j, k \in 0 .. Len(ts) : j <= k => off[j] <= off[k]
  /\ \A k \in 1 .. Len(ts) : \A x \in off[k - 1] + 1 .. off[k] : s[x] = ts[k].op
  /\ \A x \in 1 .. Len(s) : \E k \in 1 .. Len(ts) : x \in off[k - 1] + 1 .. off[k]

LEMMA LayoutExists == \A ts \in Seq(Token) : \E off : Layout(ts, UnfoldAll(ts), off)
<1> DEFINE T == {ts \in Seq(Token) : \E off : Layout(ts, UnfoldAll(ts), off)}
<1>1. <<>> \in T
  <2>1. Layout(<<>>, <<>>, [k \in {0} |-> 0])
    BY DEF Layout
  <2>2. <<>> \in Seq(Token) /\ UnfoldAll(<<>>) = <<>>
    BY UnfoldAllEmpty
  <2> QED
    BY <2>1, <2>2
<1>2. ASSUME NEW ts \in Seq(Token), ts \in T, NEW t \in Token PROVE Append(ts, t) \in T
  <2> DEFINE us == Append(ts, t)
             n == Len(ts)
             s == UnfoldAll(ts)
             y == Run(t.op, t.len)
             v == UnfoldAll(us)
  <2>1. /\ us \in Seq(Token) /\ Len(us) = n + 1 /\ us[n + 1] = t
        /\ \A k \in 1 .. n : us[k] = ts[k]
    BY AppendProperties
  <2>2. s \in Seq(Ops) /\ y \in Seq(Ops) /\ Len(y) = t.len /\ t.len \in Nat /\ v = s \o y
        /\ \A k \in 1 .. t.len : y[k] = t.op
    <3>1. t.op \in Ops /\ t.len \in Nat /\ Unfold(t) = y
      BY UnfoldIsRun
    <3>2. y \in Seq(Ops) /\ Len(y) = t.len /\ \A k \in 1 .. t.len : y[k] = t.op
      BY <3>1, RunType
    <3>3. s \in Seq(Ops) /\ v = s \o y
      BY <3>1, UnfoldAllType, UnfoldAllAppend
    <3> QED
      BY <3>1, <3>2, <3>3
  <2>3. n \in Nat /\ Len(s) \in Nat
    BY <2>2
  <2>4. PICK f : Layout(ts, s, f)
    BY <1>2
  <2> DEFINE g == [k \in 0 .. n + 1 |-> IF k <= n THEN f[k] ELSE Len(s) + t.len]
  <2>5. g[n + 1] = Len(s) + t.len /\ \A k \in 0 .. n : g[k] = f[k]
    BY <2>3
  <2>n. Len(ts) = n
    OBVIOUS
  <2> HIDE DEF us, s, y, v, g, n
  <2>6. /\ Len(v) = Len(s) + t.len
        /\ \A k \in 1 .. Len(s) + t.len : v[k] = IF k <= Len(s) THEN s[k] ELSE y[k - Len(s)]
    BY <2>2, ConcatProperties
  <2>f. /\ f[0] = 0 /\ f[n] = Len(s)
        /\ \A k \in 0 .. n : f[k] \in Nat
        /\ \A k \in 1 .. n : f[k] = f[k - 1] + ts[k].len
        /\ \A j, k \in 0 .. n : j <= k => f[j] <= f[k]
        /\ \A k \in 1 .. n : \A x \in f[k - 1] + 1 .. f[k] : s[x] = ts[k].op
        /\ \A x \in 1 .. Len(s) : \E k \in 1 .. n : x \in f[k - 1] + 1 .. f[k]
    BY <2>4, <2>n DEF Layout
  <2>a. /\ \A k \in 0 .. n + 1 : k \in 0 .. n \/ k = n + 1
        /\ \A k \in 1 .. n + 1 : k \in 1 .. n \/ k = n + 1
        /\ \A k \in 1 .. n : k \in 0 .. n /\ k - 1 \in 0 .. n /\ k \in 1 .. n + 1
        /\ 0 \in 0 .. n /\ n \in 0 .. n /\ (n + 1) - 1 = n /\ n + 1 \in 1 .. n + 1
    BY <2>3
  <2>7. g[0] = 0 /\ g[n + 1] = Len(v)
    BY <2>5, <2>6, <2>a, <2>f
  <2>8. \A k \in 0 .. n + 1 : g[k] \in Nat
    <3>1. Len(s) + t.len \in Nat
      BY <2>2, <2>3
    <3> QED
      BY <3>1, <2>5, <2>a, <2>f
  <2>9. ASSUME NEW k \in 1 .. n + 1 PROVE g[k] = g[k - 1] + us[k].len
    <3>1. CASE k = n + 1
      <4>1. g[k] = Len(s) + t.len /\ us[k] = t
        BY <3>1, <2>1, <2>5
      <4>2. k - 1 = n /\ g[k - 1] = Len(s)
        BY <3>1, <2>5, <2>a, <2>f
      <4> QED
        BY ONLY <4>1, <4>2
    <3>2. CASE k \in 1 .. n
      <4>1. k \in 0 .. n /\ k - 1 \in 0 .. n
        BY <3>2, <2>a
      <4>2. g[k] = f[k] /\ g[k - 1] = f[k - 1]
        BY ONLY <4>1, <2>5
      <4>3. us[k] = ts[k] /\ f[k] = f[k - 1] + ts[k].len
        BY ONLY <3>2, <2>1, <2>f
      <4> QED
        BY ONLY <4>2, <4>3
    <3> QED
      BY <3>1, <3>2, <2>a
  <2>10. \A j, k \in 0 .. n + 1 : j <= k => g[j] <= g[k]
    <3> SUFFICES ASSUME NEW j \in 0 .. n + 1, NEW k \in 0 .. n + 1, j <= k PROVE g[j] <= g[k]
      OBVIOUS
    <3>1. CASE k \in 0 .. n
      <4>1. j \in 0 .. n
        BY <3>1, <2>3
      <4> QED
        BY <3>1, <4>1, <2>5, <2>f
    <3>2. CASE k = n + 1 /\ j = n + 1
      BY <3>2, <2>8
    <3>3. CASE k = n + 1 /\ j \in 0 .. n
      <4>1. f[j] <= f[n] /\ f[j] \in Nat
        BY <3>3, <2>a, <2>f, <2>3
      <4> QED
        BY <3>3, <4>1, <2>2, <2>3, <2>5, <2>f
    <3> QED
      BY <3>1, <3>2, <3>3, <2>a
  <2>11. ASSUME NEW k \in 1 .. n + 1, NEW x \in g[k - 1] + 1 .. g[k] PROVE v[x] = us[k].op
    <3>1. CASE k \in 1 .. n
      <4>1. x \in f[k - 1] + 1 .. f[k]
        BY <3>1, <2>5, <2>a
      <4>2. s[x] = ts[k].op
        BY <3>1, <4>1, <2>f
      <4>3. f[k] <= Len(s) /\ f[k - 1] \in Nat /\ f[k] \in Nat
        BY <3>1, <2>a, <2>f, <2>3
      <4>4. x \in 1 .. Len(s)
        BY <4>1, <4>3, <2>3
      <4>5. v[x] = s[x]
        BY <4>4, <2>6, <2>2, <2>3
      <4> QED
        BY <3>1, <4>2, <4>5, <2>1
    <3>2. CASE k = n + 1
      <4>1. x \in Len(s) + 1 .. Len(s) + t.len
        BY <3>2, <2>5, <2>a, <2>f
      <4>2. x \in 1 .. Len(s) + t.len /\ ~(x <= Len(s)) /\ x - Len(s) \in 1 .. t.len
        BY <4>1, <2>2, <2>3
      <4> QED
        BY <3>2, <4>2, <2>1, <2>2, <2>6
    <3> QED
      BY <3>1, <3>2, <2>a
  <2>12. ASSUME NEW x \in 1 .. Len(v)
         PROVE  \E k \in 1 .. n + 1 : x \in g[k - 1] + 1 .. g[k]
    <3>1. CASE x <= Len(s)
      <4>0. x \in 1 .. Len(s)
        BY <3>1, <2>2, <2>3, <2>6
      <4>1. PICK k \in 1 .. n : x \in f[k - 1] + 1 .. f[k]
        BY <4>0, <2>f
      <4>2. x \in g[k - 1] + 1 .. g[k]
        BY <4>1, <2>5, <2>a
      <4> QED
        BY <4>2, <2>a
    <3>2. CASE ~(x <= Len(s))
      <4>1. x \in Len(s) + 1 .. Len(s) + t.len
        BY <3>2, <2>2, <2>3, <2>6
      <4>2. x \in g[(n + 1) - 1] + 1 .. g[n + 1]
        BY <4>1, <2>5, <2>a, <2>f
      <4> QED
        BY <4>2, <2>a
    <3> QED
      BY <3>1, <3>2
  <2>13. Layout(us, v, g)
    BY <2>1, <2>7, <2>8, <2>9, <2>10, <2>11, <2>12 DEF Layout
  <2> QED
    BY <2>1, <2>13 DEF us, v
<1>3. Seq(Token) \subseteq T
  <2> HIDE DEF T
  <2> QED
    BY <1>1, <1>2, SeqInduction
<1> QED
  BY <1>3

Streams == Seq(Ops)
Machines == [wrap : BOOLEAN, size : Nat \ {0}, values : Nat \ {0}]
CellValues(e) == 0 .. e.values - 1
Tapes(e) == UNION {[D -> 1 .. e.values - 1] : D \in SUBSET Nat}
Datas(e) == {d \in [head : Nat, tape : Tapes(e), in : Seq(CellValues(e)), out : Seq(CellValues(e))] :
               e.wrap => d.head < e.size}
Confs(e) == [rest : Streams, loops : Seq(Streams), skip : Nat, data : Datas(e)]

-----------------------------------------------------------------------------
(* Tapes.                                                                  *)

LEMMA CellType ==
  ASSUME NEW e \in Machines, NEW t \in Tapes(e), NEW a
  PROVE  CellOf(t, a) \in CellValues(e) /\ CellOf(t, a) \in Nat
<1>0. e.values \in Nat \ {0}
  BY DEF Machines
<1>1. PICK D \in SUBSET Nat : t \in [D -> 1 .. e.values - 1]
  BY DEF Tapes
<1>2. CASE a \in D
  <2>1. CellOf(t, a) = t[a] /\ t[a] \in 1 .. e.values - 1
    BY <1>1, <1>2 DEF CellOf
  <2> QED
    BY <1>0, <2>1 DEF CellValues
<1>3. CASE a \notin D
  <2>1. CellOf(t, a) = 0
    BY <1>1, <1>3 DEF CellOf
  <2> QED
    BY <1>0, <2>1 DEF CellValues
<1> QED
  BY <1>2, <1>3

LEMMA SetCellType ==
  ASSUME NEW e \in Machines, NEW t \in Tapes(e), NEW a \in Nat, NEW v \in CellValues(e)
  PROVE  /\ SetCell(t, a, v) \in Tapes(e)
         /\ \A b \in Nat : CellOf(SetCell(t, a, v), b) = IF b = a THEN v ELSE CellOf(t, b)
<1>0. e.values \in Nat \ {0}
  BY DEF Machines
<1>1. PICK D \in SUBSET Nat : t \in [D -> 1 .. e.values - 1]
  BY DEF Tapes
<1> DEFINE g(c) == IF c = a THEN v ELSE t[c]
           N == {c \in DOMAIN t \union {a} : g(c) # 0}
           w == SetCell(t, a, v)
<1>2. w = [b \in N |-> g(b)]
  BY DEF SetCell
<1>3. N \subseteq Nat /\ DOMAIN t = D
  BY <1>1
<1>4. \A b \in N : g(b) \in 1 .. e.values - 1
  <2> SUFFICES ASSUME NEW b \in N PROVE g(b) \in 1 .. e.values - 1
    OBVIOUS
  <2>1. CASE b = a
    <3>1. g(b) = v /\ v # 0
      BY <2>1
    <3> QED
      BY <1>0, <3>1 DEF CellValues
  <2>2. CASE b # a
    <3>1. g(b) = t[b] /\ b \in D
      BY <2>2, <1>3
    <3> QED
      BY <1>1, <3>1
  <2> QED
    BY <2>1, <2>2
<1>5. w \in [N -> 1 .. e.values - 1]
  BY <1>2, <1>4
<1>6. w \in Tapes(e)
  BY <1>3, <1>5 DEF Tapes
<1>7. ASSUME NEW b \in Nat PROVE CellOf(w, b) = IF b = a THEN v ELSE CellOf(t, b)
  <2>1. CASE b \in N
    <3>1. CellOf(w, b) = g(b) /\ (b # a => b \in D)
      BY <1>2, <1>3, <2>1 DEF CellOf
    <3> QED
      BY <1>3, <3>1 DEF CellOf
  <2>2. CASE b \notin N
    <3>1. CellOf(w, b) = 0
      BY <1>2, <2>2 DEF CellOf
    <3>2. b = a => v = 0
      BY <2>2
    <3>3. b # a /\ b \in D => t[b] = 0
      BY <1>3, <2>2
    <3> QED
      BY <1>3, <3>1, <3>2, <3>3 DEF CellOf
  <2> QED
    BY <2>1, <2>2
<1> QED
  BY <1>6, <1>7

\* A tape is its cells.
LEMMA TapeEqual ==
  ASSUME NEW e \in Machines, NEW t \in Tapes(e), NEW u \in Tapes(e),
         \A a \in Nat : CellOf(t, a) = CellOf(u, a)
  PROVE  t = u
<1>0. e.values \in Nat \ {0}
  BY DEF Machines
<1>1. PICK D \in SUBSET Nat : t \in [D -> 1 .. e.values - 1]
  BY DEF Tapes
<1>2. PICK E \in SUBSET Nat : u \in [E -> 1 .. e.values - 1]
  BY DEF Tapes
<1>3. D = E
  <2>1. \A a \in Nat : (a \in D <=> CellOf(t, a) # 0) /\ (a \in E <=> CellOf(u, a) # 0)
    <3> SUFFICES ASSUME NEW a \in Nat
                 PROVE (a \in D <=> CellOf(t, a) # 0) /\ (a \in E <=> CellOf(u, a) # 0)
      OBVIOUS
    <3>1. /\ a \in D => CellOf(t, a) \in 1 .. e.values - 1
          /\ a \notin D => CellOf(t, a) = 0
      BY <1>1 DEF CellOf
    <3>2. /\ a \in E => CellOf(u, a) \in 1 .. e.values - 1
          /\ a \notin E => CellOf(u, a) = 0
      BY <1>2 DEF CellOf
    <3> QED
      BY <1>0, <3>1, <3>2
  <2> QED
    BY <2>1
<1>4. \A a \in D : t[a] = u[a]
  <2> SUFFICES ASSUME NEW a \in D PROVE t[a] = u[a]
    OBVIOUS
  <2>1. CellOf(t, a) = t[a] /\ CellOf(u, a) = u[a]
    BY <1>1, <1>2, <1>3 DEF CellOf
  <2> QED
    BY <2>1
<1>5. u \in [D -> 1 .. e.values - 1]
  BY <1>2, <1>3
<1>6. t = [a \in D |-> t[a]] /\ u = [a \in D |-> u[a]]
  BY ONLY <1>1, <1>5
<1>7. [a \in D |-> t[a]] = [a \in D |-> u[a]]
  BY ONLY <1>4
<1> QED
  BY <1>6, <1>7

LEMMA SetCellFacts ==
  ASSUME NEW e \in Machines, NEW t \in Tapes(e), NEW a \in Nat,
         NEW v \in CellValues(e), NEW w \in CellValues(e)
  PROVE  /\ SetCell(SetCell(t, a, v), a, w) = SetCell(t, a, w)
         /\ CellOf(t, a) = v => SetCell(t, a, v) = t
<1>1. /\ SetCell(t, a, v) \in Tapes(e) /\ SetCell(t, a, w) \in Tapes(e)
      /\ \A b \in Nat : CellOf(SetCell(t, a, v), b) = IF b = a THEN v ELSE CellOf(t, b)
      /\ \A b \in Nat : CellOf(SetCell(t, a, w), b) = IF b = a THEN w ELSE CellOf(t, b)
  BY SetCellType
<1> DEFINE u == SetCell(t, a, v)
<1>2. u \in Tapes(e)
  BY <1>1
<1>3. /\ SetCell(u, a, w) \in Tapes(e)
      /\ \A b \in Nat : CellOf(SetCell(u, a, w), b) = IF b = a THEN w ELSE CellOf(u, b)
  <2> HIDE DEF u
  <2> QED
    BY <1>2, SetCellType
<1>4. \A b \in Nat : CellOf(SetCell(u, a, w), b) = CellOf(SetCell(t, a, w), b)
  <2> HIDE DEF u
  <2>1. \A b \in Nat : CellOf(u, b) = IF b = a THEN v ELSE CellOf(t, b)
    BY <1>1 DEF u
  <2> QED
    BY <1>1, <1>3, <2>1
<1>5. SetCell(u, a, w) = SetCell(t, a, w)
  <2> HIDE DEF u
  <2> QED
    BY <1>1, <1>3, <1>4, TapeEqual
<1>6. CellOf(t, a) = v => SetCell(t, a, v) = t
  <2> SUFFICES ASSUME CellOf(t, a) = v PROVE u = t
    OBVIOUS
  <2>1. \A b \in Nat : CellOf(u, b) = CellOf(t, b)
    BY <1>1
  <2> HIDE DEF u
  <2> QED
    BY <1>2, <2>1, TapeEqual
<1> QED
  BY <1>5, <1>6

-----------------------------------------------------------------------------
(* Data.                                                                   *)

LEMMA DataFields ==
  ASSUME NEW e \in Machines, NEW d \in Datas(e)
  PROVE  /\ d.head \in Nat /\ (e.wrap => d.head < e.size)
         /\ d.tape \in Tapes(e) /\ d.in \in Seq(CellValues(e)) /\ d.out \in Seq(CellValues(e))
         /\ d = [head |-> d.head, tape |-> d.tape, in |-> d.in, out |-> d.out]
  BY DEF Datas

LEMMA DataMade ==
  ASSUME NEW e \in Machines, NEW h \in Nat, e.wrap => h < e.size, NEW t \in Tapes(e),
         NEW i \in Seq(CellValues(e)), NEW o \in Seq(CellValues(e))
  PROVE  [head |-> h, tape |-> t, in |-> i, out |-> o] \in Datas(e)
  BY DEF Datas

LEMMA DataEqual ==
  ASSUME NEW e \in Machines, NEW c \in Datas(e), NEW d \in Datas(e),
         c.head = d.head, c.tape = d.tape, c.in = d.in, c.out = d.out
  PROVE  c = d
<1>1. c = [head |-> c.head, tape |-> c.tape, in |-> c.in, out |-> c.out]
  BY DataFields
<1>2. d = [head |-> d.head, tape |-> d.tape, in |-> d.in, out |-> d.out]
  BY DataFields
<1> QED
  BY <1>1, <1>2

LEMMA ModValue ==
  ASSUME NEW e \in Machines, NEW v \in Int
  PROVE  v % e.values \in CellValues(e)
<1>1. e.values \in Nat \ {0}
  BY DEF Machines
<1> QED
  BY <1>1 DEF CellValues

LEMMA ModFacts ==
  ASSUME NEW e \in Machines, NEW v \in CellValues(e)
  PROVE  /\ v \in Nat /\ v % e.values = v
         /\ (((v + 1) % e.values) - 1) % e.values = v
         /\ (((v - 1) % e.values) + 1) % e.values = v
         /\ v # 0 => (v - 1) % e.values = v - 1 /\ v - 1 \in Nat
         /\ e.values - 1 \in CellValues(e) /\ (-1) % e.values = e.values - 1 /\ 0 \in CellValues(e)
         /\ 0 % e.values = 0
<1> DEFINE n == e.values
<1>1. n \in Nat \ {0} /\ v \in 0 .. n - 1
  BY DEF Machines, CellValues
<1> HIDE DEF n
<1>2. v % n = v /\ v \in Nat
  BY <1>1
<1>3. (((v + 1) % n) - 1) % n = v
  <2>1. CASE v + 1 = n
    <3>1. (v + 1) % n = 0
      BY <1>1, <2>1
    <3>2. (0 - 1) % n = n - 1
      BY <1>1
    <3> QED
      BY <1>1, <2>1, <3>1, <3>2
  <2>2. CASE v + 1 # n
    <3>1. (v + 1) % n = v + 1
      BY <1>1, <2>2
    <3>2. (v + 1) - 1 = v
      BY <1>1
    <3> QED
      BY <1>2, <3>1, <3>2
  <2> QED
    BY <2>1, <2>2
<1>4. v # 0 => (v - 1) % n = v - 1 /\ v - 1 \in Nat
  BY <1>1
<1>5. n - 1 \in 0 .. n - 1 /\ (-1) % n = n - 1 /\ 0 \in 0 .. n - 1 /\ 0 % n = 0
  BY <1>1
<1>6. (((v - 1) % n) + 1) % n = v
  <2>1. CASE v = 0
    <3>1. (v - 1) % n = n - 1
      BY <1>5, <2>1
    <3>2. (n - 1) + 1 = n /\ n % n = 0
      BY <1>1
    <3> QED
      BY <2>1, <3>1, <3>2
  <2>2. CASE v # 0
    <3>1. (v - 1) + 1 = v
      BY <1>1
    <3> QED
      BY <1>2, <1>4, <2>2, <3>1
  <2> QED
    BY <2>1, <2>2
<1> QED
  BY <1>2, <1>3, <1>4, <1>5, <1>6 DEF n, CellValues

LEMMA WrittenFacts ==
  ASSUME NEW e \in Machines, NEW d \in Datas(e), NEW v \in Int
  PROVE  LET w == WithCell(e, d, v)
         IN  /\ w \in Datas(e)
             /\ w.head = d.head /\ w.in = d.in /\ w.out = d.out
             /\ w.tape = SetCell(d.tape, d.head, v % e.values)
             /\ Here(w) = v % e.values
<1> DEFINE w == WithCell(e, d, v)
           t == SetCell(d.tape, d.head, v % e.values)
<1>1. /\ d.head \in Nat /\ (e.wrap => d.head < e.size)
      /\ d.tape \in Tapes(e) /\ d.in \in Seq(CellValues(e)) /\ d.out \in Seq(CellValues(e))
      /\ d = [head |-> d.head, tape |-> d.tape, in |-> d.in, out |-> d.out]
  BY DataFields
<1>2. v % e.values \in CellValues(e)
  BY ModValue
<1>3. t \in Tapes(e) /\ CellOf(t, d.head) = v % e.values
  BY <1>1, <1>2, SetCellType
<1>4. w = [d EXCEPT !.tape = t]
  BY DEF WithCell
<1> HIDE DEF t
<1>5. w = [head |-> d.head, tape |-> t, in |-> d.in, out |-> d.out]
  BY <1>1, <1>4
<1> HIDE DEF w
<1>6. w \in Datas(e) /\ w.head = d.head /\ w.in = d.in /\ w.out = d.out /\ w.tape = t
  BY <1>1, <1>3, <1>5, DataMade
<1> QED
  BY <1>3, <1>6 DEF Here, w, t

LEMMA TurnedFacts ==
  ASSUME NEW e \in Machines, NEW d \in Datas(e), NEW n \in Int, ~e.wrap => d.head + n >= 0
  PROVE  LET w == Shifted(e, d, n)
         IN  /\ w \in Datas(e)
             /\ w.tape = d.tape /\ w.in = d.in /\ w.out = d.out
             /\ w.head = IF e.wrap THEN (d.head + n) % e.size ELSE d.head + n
<1> DEFINE w == Shifted(e, d, n)
           h == IF e.wrap THEN (d.head + n) % e.size ELSE d.head + n
<1>1. /\ d.head \in Nat
      /\ d.tape \in Tapes(e) /\ d.in \in Seq(CellValues(e)) /\ d.out \in Seq(CellValues(e))
      /\ d = [head |-> d.head, tape |-> d.tape, in |-> d.in, out |-> d.out]
  BY DataFields
<1>2. h \in Nat /\ (e.wrap => h < e.size)
  <2>1. e.size \in Nat \ {0}
    BY DEF Machines
  <2> QED
    BY <1>1, <2>1
<1>3. w = [d EXCEPT !.head = h]
  BY DEF Shifted
<1> HIDE DEF h
<1>4. w = [head |-> h, tape |-> d.tape, in |-> d.in, out |-> d.out]
  BY <1>1, <1>3
<1> HIDE DEF w
<1>5. w \in Datas(e) /\ w.tape = d.tape /\ w.in = d.in /\ w.out = d.out /\ w.head = h
  BY <1>1, <1>2, <1>4, DataMade
<1> QED
  BY <1>5 DEF w, h

LEMMA HereType ==
  ASSUME NEW e \in Machines, NEW d \in Datas(e)
  PROVE  Here(d) \in CellValues(e) /\ Here(d) \in Nat
  BY DataFields, CellType DEF Here

LEMMA ObeyedType ==
  ASSUME NEW e \in Machines, NEW d \in Datas(e), NEW c,
         c = "<" => e.wrap \/ d.head # 0
  PROVE  Obeyed(e, c, d) \in Datas(e)
<1>0. /\ d.head \in Nat /\ (e.wrap => d.head < e.size)
      /\ d.tape \in Tapes(e) /\ d.in \in Seq(CellValues(e)) /\ d.out \in Seq(CellValues(e))
      /\ d = [head |-> d.head, tape |-> d.tape, in |-> d.in, out |-> d.out]
      /\ Here(d) \in CellValues(e) /\ Here(d) \in Nat
      /\ \A v \in CellValues(e) : v \in Int
  BY DataFields, HereType DEF CellValues
<1>1. CASE c = ">"
  <2>1. 1 \in Int /\ d.head + 1 >= 0
    BY <1>0
  <2> QED
    BY <2>1, <1>1, TurnedFacts DEF Obeyed
<1>2. CASE c = "<"
  <2>1. -1 \in Int /\ (~e.wrap => d.head + (-1) >= 0)
    BY <1>0, <1>2
  <2> QED
    BY <2>1, <1>2, TurnedFacts DEF Obeyed
<1>3. CASE c \in {"+", "-"}
  <2>1. Here(d) + 1 \in Int /\ Here(d) - 1 \in Int
    BY <1>0
  <2>2. WithCell(e, d, Here(d) + 1) \in Datas(e) /\ WithCell(e, d, Here(d) - 1) \in Datas(e)
    BY <2>1, WrittenFacts
  <2> QED
    BY <2>2, <1>3 DEF Obeyed
<1>4. CASE c = "."
  <2> DEFINE o == Append(d.out, Here(d))
             w == [d EXCEPT !.out = o]
  <2>1. o \in Seq(CellValues(e))
    BY <1>0
  <2> HIDE DEF o
  <2>2. w = [head |-> d.head, tape |-> d.tape, in |-> d.in, out |-> o]
    BY <1>0
  <2>3. w \in Datas(e)
    BY <1>0, <2>1, <2>2, DataMade
  <2> QED
    BY <2>3, <1>4 DEF Obeyed, o
<1>5. CASE c = ","
  <2>1. CASE d.in = <<>>
    <3>1. -1 \in Int
      OBVIOUS
    <3> QED
      BY <3>1, <2>1, <1>5, WrittenFacts DEF Obeyed
  <2>2. CASE d.in # <<>>
    <3> DEFINE v == Head(d.in)
               b == WithCell(e, d, v)
               i == Tail(d.in)
               w == [b EXCEPT !.in = i]
    <3>1. v \in CellValues(e) /\ i \in Seq(CellValues(e))
      BY <1>0, <2>2
    <3>2. v \in Int
      BY <1>0, <3>1
    <3> HIDE DEF v
    <3>3. b \in Datas(e) /\ b.in = d.in
      BY <3>2, WrittenFacts
    <3> HIDE DEF b
    <3>4. /\ b.head \in Nat /\ (e.wrap => b.head < e.size) /\ b.tape \in Tapes(e)
          /\ b.out \in Seq(CellValues(e))
          /\ b = [head |-> b.head, tape |-> b.tape, in |-> b.in, out |-> b.out]
      BY <3>3, DataFields
    <3>i. [b EXCEPT !.in = Tail(@)] = w
      BY <3>3
    <3> HIDE DEF i
    <3>5. w = [head |-> b.head, tape |-> b.tape, in |-> i, out |-> b.out]
      BY <3>4
    <3>6. [head |-> b.head, tape |-> b.tape, in |-> i, out |-> b.out] \in Datas(e)
      BY <3>1, <3>4, DataMade
    <3>7. Obeyed(e, c, d) = [WithCell(e, d, Head(d.in)) EXCEPT !.in = Tail(@)]
      BY <2>2, <1>5 DEF Obeyed
    <3>8. Obeyed(e, c, d) = [b EXCEPT !.in = Tail(@)]
      BY <3>7 DEF b, v
    <3> QED
      BY <3>i, <3>5, <3>6, <3>8
  <2> QED
    BY <2>1, <2>2
<1>6. CASE c \notin {">", "<", "+", "-", ".", ","}
  BY <1>6 DEF Obeyed
<1> QED
  BY <1>1, <1>2, <1>3, <1>4, <1>5, <1>6

-----------------------------------------------------------------------------
(* Steps.                                                                  *)

LEMMA JoinFacts ==
  ASSUME NEW C, NEW a \in Seq(C), NEW b \in Seq(C)
  PROVE  /\ a \o b \in Seq(C) /\ Len(a \o b) = Len(a) + Len(b)
         /\ \A k \in 1 .. Len(a) : (a \o b)[k] = a[k]
         /\ \A k \in 1 .. Len(b) : (a \o b)[Len(a) + k] = b[k]
<1> DEFINE m == Len(a)
           n == Len(b)
           s == a \o b
<1>1. m \in Nat /\ n \in Nat
  OBVIOUS
<1>2. /\ s \in Seq(C) /\ Len(s) = m + n
      /\ \A i \in 1 .. m + n : s[i] = IF i <= m THEN a[i] ELSE b[i - m]
  BY ConcatProperties
<1> HIDE DEF m, n, s
<1>3. \A k \in 1 .. m : s[k] = a[k]
  BY <1>1, <1>2
<1>4. ASSUME NEW k \in 1 .. n PROVE s[m + k] = b[k]
  <2>1. m + k \in 1 .. m + n /\ ~(m + k <= m) /\ (m + k) - m = k
    BY <1>1
  <2> QED
    BY <2>1, <1>2
<1> QED
  BY <1>2, <1>3, <1>4 DEF m, n, s

LEMMA ConsFacts ==
  ASSUME NEW C, NEW c \in C, NEW s \in Seq(C)
  PROVE  /\ <<c>> \o s \in Seq(C) /\ <<c>> \o s # <<>>
         /\ Head(<<c>> \o s) = c /\ Tail(<<c>> \o s) = s
<1> DEFINE o == <<c>>
           t == o \o s
<1>1. o \in Seq(C) /\ Len(o) = 1 /\ o[1] = c /\ Len(s) \in Nat
  OBVIOUS
<1> HIDE DEF o
<1>2. /\ t \in Seq(C) /\ Len(t) = Len(s) + 1 /\ t[1] = c
      /\ \A k \in 1 .. Len(s) : t[k + 1] = s[k]
  <2>1. /\ t \in Seq(C) /\ Len(t) = Len(o) + Len(s)
        /\ \A k \in 1 .. Len(o) : t[k] = o[k]
        /\ \A k \in 1 .. Len(s) : t[Len(o) + k] = s[k]
    <3>1. o \in Seq(C) /\ s \in Seq(C)
      BY <1>1
    <3> QED
      BY ONLY <3>1, JoinFacts
  <2>2. \A k \in 1 .. Len(s) : Len(o) + k = k + 1
    BY <1>1
  <2> QED
    BY <1>1, <2>1, <2>2
<1> HIDE DEF t
<1>3. t # <<>> /\ Head(t) = c
  BY <1>1, <1>2
<1>4. Tail(t) \in Seq(C) /\ Len(Tail(t)) = Len(s) /\ \A k \in 1 .. Len(s) : Tail(t)[k] = t[k + 1]
  BY <1>1, <1>2, <1>3
<1> DEFINE u == Tail(t)
<1>5. u \in Seq(C) /\ Len(u) = Len(s) /\ \A k \in 1 .. Len(u) : u[k] = s[k]
  BY <1>2, <1>4
<1> HIDE DEF u
<1>6. u = s
  BY <1>5, SeqEqual
<1> QED
  BY <1>2, <1>3, <1>6 DEF t, o, u

LEMMA ConsSplit ==
  ASSUME NEW C, NEW t \in Seq(C), t # <<>>
  PROVE  Head(t) \in C /\ Tail(t) \in Seq(C) /\ t = <<Head(t)>> \o Tail(t)
<1> DEFINE c == Head(t)
           s == Tail(t)
           o == <<c>>
           u == o \o s
<1>1. c \in C /\ s \in Seq(C) /\ c = t[1] /\ Len(s) = Len(t) - 1 /\ Len(t) \in Nat
      /\ \A k \in 1 .. Len(s) : s[k] = t[k + 1]
  OBVIOUS
<1> HIDE DEF c, s
<1>2. o \in Seq(C) /\ Len(o) = 1 /\ o[1] = c
  BY <1>1
<1> HIDE DEF o
<1>3. /\ u \in Seq(C) /\ Len(u) = Len(o) + Len(s)
      /\ \A k \in 1 .. Len(o) : u[k] = o[k]
      /\ \A k \in 1 .. Len(s) : u[Len(o) + k] = s[k]
  <2>1. o \in Seq(C) /\ s \in Seq(C)
    BY <1>1, <1>2
  <2> QED
    BY ONLY <2>1, JoinFacts
<1> HIDE DEF u
<1>4. \A k \in 1 .. Len(u) : u[k] = t[k]
  <2> SUFFICES ASSUME NEW k \in 1 .. Len(u) PROVE u[k] = t[k]
    OBVIOUS
  <2>1. CASE k = 1
    BY <2>1, <1>1, <1>2, <1>3
  <2>2. CASE k # 1
    <3>1. k - 1 \in 1 .. Len(s) /\ Len(o) + (k - 1) = k /\ (k - 1) + 1 = k
      BY <2>2, <1>1, <1>2, <1>3
    <3> QED
      BY <3>1, <1>1, <1>3
  <2> QED
    BY <2>1, <2>2
<1>5. Len(u) = Len(t)
  BY <1>1, <1>2, <1>3
<1>6. u = t
  BY <1>3, <1>4, <1>5, SeqEqual
<1> QED
  BY <1>1, <1>6 DEF u, o, c, s

LEMMA ConfFields ==
  \A s, l, k, d : LET x == Conf(s, l, k, d)
                  IN  x.rest = s /\ x.loops = l /\ x.skip = k /\ x.data = d
  BY DEF Conf

LEMMA ConfMade ==
  /\ \A e : \A s \in Streams, l \in Seq(Streams), k \in Nat : \A d \in Datas(e) : Conf(s, l, k, d) \in Confs(e)
  /\ \A e : \A x \in Confs(e) : /\ x.rest \in Streams /\ x.loops \in Seq(Streams) /\ x.skip \in Nat
                                /\ x.data \in Datas(e) /\ x = Conf(x.rest, x.loops, x.skip, x.data)
  BY DEF Conf, Confs

\* Whether, and where, the machine moves.
May(e, x) == ~Halted(x) /\ ~Stuck(e, x)

LEMMA StepSkip ==
  ASSUME NEW e, NEW c \in Ops, NEW s \in Streams, NEW l, NEW k \in Nat \ {0}, NEW d
  PROVE  /\ May(e, Conf(<<c>> \o s, l, k, d))
         /\ Step(e, Conf(<<c>> \o s, l, k, d)) = Conf(s, l, Opened(c, k), d)
<1> DEFINE x == Conf(<<c>> \o s, l, k, d)
<1>x. x = Conf(<<c>> \o s, l, k, d) /\ c \in Ops
  OBVIOUS
<1> HIDE DEF x
<1>1. /\ Head(x.rest) = c /\ Tail(x.rest) = s /\ ~Halted(x)
      /\ x.loops = l /\ x.skip = k /\ x.data = d
  <2>1. <<c>> \o s # <<>> /\ Head(<<c>> \o s) = c /\ Tail(<<c>> \o s) = s
    BY <1>x, ConsFacts DEF Streams
  <2> QED
    BY <1>x, <2>1 DEF Conf, Halted
<1>2. k > 0 /\ k # 0
  OBVIOUS
<1>3. May(e, x)
  BY <1>1, <1>2 DEF May, Stuck
<1>4. Step(e, x) = Conf(s, l, Opened(c, k), d)
  BY <1>1, <1>2 DEF Step
<1> QED
  BY <1>3, <1>4 DEF x

LEMMA PlainMay ==
  ASSUME NEW e, NEW c \in Ops, c # "[", c # "]", NEW s \in Streams, NEW l, NEW d
  PROVE  May(e, Conf(<<c>> \o s, l, 0, d)) <=> (c = "<" => e.wrap \/ d.head # 0)
<1> DEFINE x == Conf(<<c>> \o s, l, 0, d)
<1>x. x = Conf(<<c>> \o s, l, 0, d) /\ c \in Ops
  OBVIOUS
<1> HIDE DEF x
<1>1. /\ Head(x.rest) = c /\ Tail(x.rest) = s /\ ~Halted(x)
      /\ x.loops = l /\ x.skip = 0 /\ x.data = d
  <2>1. <<c>> \o s # <<>> /\ Head(<<c>> \o s) = c /\ Tail(<<c>> \o s) = s
    BY <1>x, ConsFacts DEF Streams
  <2> QED
    BY <1>x, <2>1 DEF Conf, Halted
<1>2. c # "[" /\ c # "]" /\ ~(0 > 0)
  OBVIOUS
<1>3. May(e, x) <=> (c = "<" => e.wrap \/ d.head # 0)
  BY <1>1, <1>2 DEF May, Stuck
<1> QED
  BY <1>3 DEF x

LEMMA StepPlain ==
  ASSUME NEW e, NEW c \in Ops, c # "[", c # "]", NEW s \in Streams, NEW l, NEW d
  PROVE  Step(e, Conf(<<c>> \o s, l, 0, d)) = Conf(s, l, 0, Obeyed(e, c, d))
<1> DEFINE x == Conf(<<c>> \o s, l, 0, d)
<1>x. x = Conf(<<c>> \o s, l, 0, d) /\ c \in Ops
  OBVIOUS
<1> HIDE DEF x
<1>1. /\ Head(x.rest) = c /\ Tail(x.rest) = s /\ ~Halted(x)
      /\ x.loops = l /\ x.skip = 0 /\ x.data = d
  <2>1. <<c>> \o s # <<>> /\ Head(<<c>> \o s) = c /\ Tail(<<c>> \o s) = s
    BY <1>x, ConsFacts DEF Streams
  <2> QED
    BY <1>x, <2>1 DEF Conf, Halted
<1>2. c # "[" /\ c # "]" /\ ~(0 > 0)
  OBVIOUS
<1>4. Step(e, x) = Conf(s, l, 0, Obeyed(e, c, d))
  BY <1>1, <1>2, Zenon DEF Step
<1> QED
  BY <1>4 DEF x

LEMMA StepLoop ==
  ASSUME NEW e, NEW s \in Streams, NEW l, NEW d
  PROVE  /\ May(e, Conf(<<"[">> \o s, l, 0, d))
         /\ Here(d) = 0 => Step(e, Conf(<<"[">> \o s, l, 0, d)) = Conf(s, l, 1, d)
         /\ Here(d) # 0 => Step(e, Conf(<<"[">> \o s, l, 0, d))
                              = Conf(s, Append(l, <<"[">> \o s), 0, d)
<1> DEFINE x == Conf(<<"[">> \o s, l, 0, d)
           t == <<"[">> \o s
<1>0. "[" \in Ops
  BY DEF Ops, CoreOps
<1>x. x = Conf(<<"[">> \o s, l, 0, d) /\ "[" \in Ops
  BY <1>0
<1> HIDE DEF x
<1>1. /\ Head(x.rest) = "[" /\ Tail(x.rest) = s /\ ~Halted(x) /\ x.rest = t
      /\ x.loops = l /\ x.skip = 0 /\ x.data = d
  <2>1. <<"[">> \o s # <<>> /\ Head(<<"[">> \o s) = "[" /\ Tail(<<"[">> \o s) = s
    BY <1>x, ConsFacts DEF Streams
  <2> QED
    BY <1>x, <2>1 DEF Conf, Halted, t
<1>2. ~(0 > 0) /\ "[" # "]" /\ "[" # "<"
  OBVIOUS
<1> HIDE DEF t
<1>3. May(e, x)
  BY <1>1, <1>2 DEF May, Stuck
<1>4. Here(d) = 0 => Step(e, x) = Conf(s, l, 1, d)
  BY <1>1, <1>2, Zenon DEF Step
<1>5. Here(d) # 0 => Step(e, x) = Conf(s, Append(l, t), 0, d)
  BY <1>1, <1>2, Zenon DEF Step
<1> QED
  BY <1>3, <1>4, <1>5 DEF x, t

LEMMA StepClose ==
  ASSUME NEW e, NEW s \in Streams, NEW l, NEW d
  PROVE  /\ May(e, Conf(<<"]">> \o s, l, 0, d)) <=> l # <<>>
         /\ Step(e, Conf(<<"]">> \o s, l, 0, d)) = Conf(l[Len(l)], SubSeq(l, 1, Len(l) - 1), 0, d)
<1> DEFINE x == Conf(<<"]">> \o s, l, 0, d)
<1>0. "]" \in Ops
  BY DEF Ops, CoreOps
<1>x. x = Conf(<<"]">> \o s, l, 0, d) /\ "]" \in Ops
  BY <1>0
<1> HIDE DEF x
<1>1. /\ Head(x.rest) = "]" /\ Tail(x.rest) = s /\ ~Halted(x)
      /\ x.loops = l /\ x.skip = 0 /\ x.data = d
  <2>1. <<"]">> \o s # <<>> /\ Head(<<"]">> \o s) = "]" /\ Tail(<<"]">> \o s) = s
    BY <1>x, ConsFacts DEF Streams
  <2> QED
    BY <1>x, <2>1 DEF Conf, Halted
<1>2. ~(0 > 0) /\ "[" # "]" /\ "]" # "<"
  OBVIOUS
<1>3. May(e, x) <=> l # <<>>
  BY <1>1, <1>2 DEF May, Stuck
<1>4. Step(e, x) = Conf(l[Len(l)], SubSeq(l, 1, Len(l) - 1), 0, d)
  BY <1>1, <1>2, Zenon DEF Step
<1> QED
  BY <1>3, <1>4 DEF x

LEMMA LoopsLast ==
  ASSUME NEW l \in Seq(Streams), NEW t \in Streams
  PROVE  LET m == Append(l, t)
         IN  /\ m \in Seq(Streams) /\ m # <<>> /\ m[Len(m)] = t /\ SubSeq(m, 1, Len(m) - 1) = l
<1> DEFINE m == Append(l, t)
<1>1. /\ m \in Seq(Streams) /\ Len(m) = Len(l) + 1 /\ m[Len(l) + 1] = t /\ Len(l) \in Nat
      /\ \A k \in 1 .. Len(l) : m[k] = l[k]
  BY AppendProperties
<1>2. Front(m) = l /\ Last(m) = t /\ m # <<>>
  BY FrontAppend
<1> QED
  BY <1>1, <1>2 DEF Front, Last

LEMMA LoopsPop ==
  ASSUME NEW l \in Seq(Streams), l # <<>>
  PROVE  /\ l[Len(l)] \in Streams /\ SubSeq(l, 1, Len(l) - 1) \in Seq(Streams)
         /\ Len(SubSeq(l, 1, Len(l) - 1)) = Len(l) - 1 /\ Len(l) \in Nat \ {0}
         /\ \A k \in 1 .. Len(l) - 1 : SubSeq(l, 1, Len(l) - 1)[k] = l[k]
<1>1. Len(l) \in Nat \ {0}
  BY EmptySeq
<1> QED
  BY <1>1, FrontProperties DEF Front

LEMMA StepType ==
  ASSUME NEW e \in Machines, NEW x \in Confs(e), May(e, x)
  PROVE  Step(e, x) \in Confs(e)
<1> DEFINE t == x.rest
           c == Head(t)
           s == Tail(t)
           l == x.loops
           k == x.skip
           d == x.data
<1>1. /\ t \in Streams /\ l \in Seq(Streams) /\ k \in Nat /\ d \in Datas(e) /\ x = Conf(t, l, k, d)
      /\ t # <<>>
  BY ConfMade DEF May, Halted
<1>2. c \in Ops /\ s \in Streams /\ t = <<c>> \o s
  BY <1>1, ConsSplit DEF Streams
<1> HIDE DEF t, c, s, l, k, d
<1>3. x = Conf(<<c>> \o s, l, k, d)
  BY <1>1, <1>2
<1>4. CASE k > 0
  <2>1. Opened(c, k) \in Nat /\ k \in Nat \ {0}
    BY <1>1, <1>4 DEF Opened
  <2>2. Step(e, x) = Conf(s, l, Opened(c, k), d)
    BY <1>2, <1>3, <2>1, StepSkip
  <2> QED
    BY <2>1, <2>2, <1>1, <1>2, ConfMade
<1>5. CASE k = 0 /\ c = "["
  <2>1. Append(l, t) \in Seq(Streams)
    BY <1>1
  <2>2. Step(e, x) = Conf(s, l, 1, d) \/ Step(e, x) = Conf(s, Append(l, t), 0, d)
    BY <1>2, <1>3, <1>5, StepLoop
  <2>3. s \in Streams /\ l \in Seq(Streams) /\ 0 \in Nat /\ 1 \in Nat /\ d \in Datas(e)
    BY <1>1, <1>2
  <2>4. Conf(s, l, 1, d) \in Confs(e) /\ Conf(s, Append(l, t), 0, d) \in Confs(e)
    BY <2>1, <2>3, ConfMade
  <2> QED
    BY <2>2, <2>4
<1>6. CASE k = 0 /\ c = "]"
  <2>0. x = Conf(<<"]">> \o s, l, 0, d)
    BY <1>3, <1>6
  <2>1. l # <<>>
    BY <1>2, <2>0, StepClose
  <2> DEFINE m == SubSeq(l, 1, Len(l) - 1)
             q == l[Len(l)]
  <2>2. Step(e, x) = Conf(q, m, 0, d)
    BY <1>2, <2>0, StepClose
  <2>3. q \in Streams /\ m \in Seq(Streams) /\ 0 \in Nat /\ d \in Datas(e)
    BY <1>1, <2>1, LoopsPop
  <2> HIDE DEF m, q
  <2>4. Conf(q, m, 0, d) \in Confs(e)
    BY <2>3, ConfMade
  <2> QED
    BY <2>2, <2>4
<1>7. CASE k = 0 /\ c \notin {"[", "]"}
  <2>0. x = Conf(<<c>> \o s, l, 0, d) /\ c \in Ops /\ c # "[" /\ c # "]"
    BY <1>2, <1>3, <1>7
  <2>1. c = "<" => e.wrap \/ d.head # 0
    BY <1>2, <2>0, PlainMay
  <2>2. Step(e, x) = Conf(s, l, 0, Obeyed(e, c, d))
    <3>1. s \in Streams
      BY <1>2
    <3>2. Step(e, Conf(<<c>> \o s, l, 0, d)) = Conf(s, l, 0, Obeyed(e, c, d))
      BY <2>0, <3>1, StepPlain
    <3> QED
      BY <2>0, <3>2
  <2>3. Obeyed(e, c, d) \in Datas(e)
    BY <1>1, <2>1, ObeyedType
  <2> QED
    BY <2>2, <2>3, <1>1, <1>2, ConfMade
<1> QED
  BY <1>1, <1>4, <1>5, <1>6, <1>7

-----------------------------------------------------------------------------
(* Executions that end.                                                    *)

EndsIn(e, x, d, n) == \E r : /\ r[0] = x
                             /\ \A k \in 0 .. n - 1 : May(e, r[k]) /\ r[k + 1] = Step(e, r[k])
                             /\ Halted(r[n]) /\ r[n].data = d
Ends(e, x, d) == \E n \in Nat : EndsIn(e, x, d, n)

LEMMA EndsFirst ==
  ASSUME NEW e, NEW x, NEW d, NEW n \in Nat, EndsIn(e, x, d, n)
  PROVE  /\ n = 0 => Halted(x) /\ x.data = d
         /\ n > 0 => May(e, x) /\ EndsIn(e, Step(e, x), d, n - 1)
<1>1. PICK r : /\ r[0] = x
               /\ \A k \in 0 .. n - 1 : May(e, r[k]) /\ r[k + 1] = Step(e, r[k])
               /\ Halted(r[n]) /\ r[n].data = d
  BY DEF EndsIn
<1>2. ASSUME n > 0 PROVE May(e, x) /\ EndsIn(e, Step(e, x), d, n - 1)
  <2> DEFINE q == [k \in 0 .. n - 1 |-> r[k + 1]]
  <2>1. 0 \in 0 .. n - 1 /\ n - 1 \in 0 .. n - 1 /\ (n - 1) + 1 = n /\ 0 + 1 = 1
    BY <1>2
  <2>2. May(e, x) /\ q[0] = Step(e, x)
    BY <1>1, <2>1
  <2>3. q[n - 1] = r[n]
    BY <2>1
  <2>4. ASSUME NEW k \in 0 .. (n - 1) - 1 PROVE May(e, q[k]) /\ q[k + 1] = Step(e, q[k])
    <3>1. k \in 0 .. n - 1 /\ k + 1 \in 0 .. n - 1
      BY <1>2
    <3>2. q[k] = r[k + 1] /\ q[k + 1] = r[(k + 1) + 1]
      BY <3>1
    <3> QED
      BY <3>1, <3>2, <1>1
  <2> HIDE DEF q
  <2> QED
    BY <1>1, <2>2, <2>3, <2>4 DEF EndsIn
<1> QED
  BY <1>1, <1>2

LEMMA EndsNow ==
  ASSUME NEW e, NEW x, Halted(x)
  PROVE  EndsIn(e, x, x.data, 0)
<1> DEFINE r == [k \in {0} |-> x]
<1>1. r[0] = x
  OBVIOUS
<1> HIDE DEF r
<1> QED
  BY <1>1 DEF EndsIn

LEMMA EndsBefore ==
  ASSUME NEW e, NEW x, NEW d, NEW n \in Nat, May(e, x), EndsIn(e, Step(e, x), d, n)
  PROVE  EndsIn(e, x, d, n + 1)
<1>1. PICK r : /\ r[0] = Step(e, x)
               /\ \A k \in 0 .. n - 1 : May(e, r[k]) /\ r[k + 1] = Step(e, r[k])
               /\ Halted(r[n]) /\ r[n].data = d
  BY DEF EndsIn
<1> DEFINE q == [k \in 0 .. n + 1 |-> IF k = 0 THEN x ELSE r[k - 1]]
<1>2. q[0] = x /\ q[n + 1] = r[n]
  <2>1. 0 \in 0 .. n + 1 /\ n + 1 \in 0 .. n + 1 /\ (n + 1) - 1 = n /\ n + 1 # 0
    OBVIOUS
  <2> QED
    BY <2>1
<1>3. ASSUME NEW k \in 0 .. (n + 1) - 1 PROVE May(e, q[k]) /\ q[k + 1] = Step(e, q[k])
  <2>1. k \in 0 .. n + 1 /\ k + 1 \in 0 .. n + 1 /\ k + 1 # 0 /\ (k + 1) - 1 = k
    OBVIOUS
  <2>2. q[k + 1] = r[k]
    BY <2>1
  <2>3. CASE k = 0
    BY <2>2, <2>3, <1>1, <1>2
  <2>4. CASE k # 0
    <3>1. k - 1 \in 0 .. n - 1 /\ (k - 1) + 1 = k
      BY <2>4
    <3>2. q[k] = r[k - 1]
      BY <2>1, <2>4
    <3> QED
      BY <3>1, <3>2, <2>2, <1>1
  <2> QED
    BY <2>3, <2>4
<1> HIDE DEF q
<1> QED
  BY <1>1, <1>2, <1>3 DEF EndsIn

\* y is further on the way of x.
Reaches(e, x, y) ==
  /\ \A d : \A n \in Nat : EndsIn(e, x, d, n) => \E m \in 0 .. n : EndsIn(e, y, d, m)
  /\ \A d : Ends(e, y, d) => Ends(e, x, d)

LEMMA LeadsRefl == \A e, x : Reaches(e, x, x)
<1> SUFFICES ASSUME NEW e, NEW x, NEW d, NEW n \in Nat, EndsIn(e, x, d, n)
             PROVE  \E m \in 0 .. n : EndsIn(e, x, d, m)
  BY DEF Reaches
<1>1. n \in 0 .. n
  OBVIOUS
<1> QED
  BY <1>1

LEMMA LeadsTrans ==
  ASSUME NEW e, NEW x, NEW y, NEW z, Reaches(e, x, y), Reaches(e, y, z)
  PROVE  Reaches(e, x, z)
<1>1. ASSUME NEW d, NEW n \in Nat, EndsIn(e, x, d, n)
      PROVE  \E m \in 0 .. n : EndsIn(e, z, d, m)
  <2>1. PICK k \in 0 .. n : EndsIn(e, y, d, k)
    BY <1>1 DEF Reaches
  <2>2. k \in Nat
    OBVIOUS
  <2>3. PICK m \in 0 .. k : EndsIn(e, z, d, m)
    BY <2>1, <2>2 DEF Reaches
  <2>4. m \in 0 .. n
    OBVIOUS
  <2> QED
    BY <2>3, <2>4
<1>2. ASSUME NEW d, Ends(e, z, d) PROVE Ends(e, x, d)
  BY <1>2 DEF Reaches
<1> QED
  BY <1>1, <1>2 DEF Reaches

LEMMA LeadsStep ==
  ASSUME NEW e, NEW x, May(e, x)
  PROVE  Reaches(e, x, Step(e, x))
<1>1. ASSUME NEW d, NEW n \in Nat, EndsIn(e, x, d, n)
      PROVE  \E m \in 0 .. n : EndsIn(e, Step(e, x), d, m)
  <2>1. n # 0
    BY <1>1, EndsFirst DEF May
  <2>2. EndsIn(e, Step(e, x), d, n - 1) /\ n - 1 \in 0 .. n
    BY <1>1, <2>1, EndsFirst
  <2> QED
    BY <2>2
<1>2. ASSUME NEW d, Ends(e, Step(e, x), d) PROVE Ends(e, x, d)
  <2>1. PICK n \in Nat : EndsIn(e, Step(e, x), d, n)
    BY <1>2 DEF Ends
  <2>2. EndsIn(e, x, d, n + 1) /\ n + 1 \in Nat
    BY <2>1, EndsBefore
  <2> QED
    BY <2>2 DEF Ends
<1> QED
  BY <1>1, <1>2 DEF Reaches

\* At least one step: an execution that ends gets shorter.
LEMMA LeadsLess ==
  ASSUME NEW e, NEW x, NEW y, NEW d, NEW n \in Nat, EndsIn(e, x, d, n), ~Halted(x),
         May(e, x) => Reaches(e, Step(e, x), y)
  PROVE  \E m \in Nat : m < n /\ EndsIn(e, y, d, m)
<1>1. n # 0
  BY EndsFirst
<1>2. May(e, x) /\ EndsIn(e, Step(e, x), d, n - 1) /\ n - 1 \in Nat
  BY <1>1, EndsFirst
<1>3. PICK m \in 0 .. n - 1 : EndsIn(e, y, d, m)
  BY <1>2 DEF Reaches
<1>4. m \in Nat /\ m < n
  BY <1>2
<1> QED
  BY <1>3, <1>4

-----------------------------------------------------------------------------
(* Characters that undo each other.                                        *)

LEMMA WrittenTwice ==
  ASSUME NEW e \in Machines, NEW d \in Datas(e), NEW a \in Int, NEW b \in Int
  PROVE  /\ WithCell(e, WithCell(e, d, a), b) = WithCell(e, d, b)
         /\ a % e.values = Here(d) => WithCell(e, d, a) = d
<1> DEFINE w == WithCell(e, d, a)
           z == WithCell(e, w, b)
           u == WithCell(e, d, b)
           va == a % e.values
           vb == b % e.values
<1>1. /\ d.head \in Nat /\ d.tape \in Tapes(e) /\ va \in CellValues(e) /\ vb \in CellValues(e)
  BY DataFields, ModValue
<1>2. /\ w \in Datas(e) /\ w.head = d.head /\ w.in = d.in /\ w.out = d.out
      /\ w.tape = SetCell(d.tape, d.head, va)
  BY WrittenFacts
<1>3. /\ u \in Datas(e) /\ u.head = d.head /\ u.in = d.in /\ u.out = d.out
      /\ u.tape = SetCell(d.tape, d.head, vb)
  BY WrittenFacts
<1> HIDE DEF w
<1>4. /\ z \in Datas(e) /\ z.head = w.head /\ z.in = w.in /\ z.out = w.out
      /\ z.tape = SetCell(w.tape, w.head, vb)
  BY <1>2, WrittenFacts
<1> HIDE DEF z, u, va, vb
<1>5. z.tape = u.tape
  BY <1>1, <1>2, <1>3, <1>4, SetCellFacts
<1>6. z = u
  BY <1>2, <1>3, <1>4, <1>5, DataEqual
<1>7. va = Here(d) => w = d
  <2> SUFFICES ASSUME va = Here(d) PROVE w = d
    OBVIOUS
  <2>1. w.tape = d.tape
    BY <1>1, <1>2, SetCellFacts DEF Here
  <2> QED
    BY <2>1, <1>2, DataEqual
<1> QED
  BY <1>6, <1>7 DEF z, u, w, va

LEMMA UndoneAdding ==
  ASSUME NEW e \in Machines, NEW d \in Datas(e)
  PROVE  /\ Obeyed(e, "-", Obeyed(e, "+", d)) = d
         /\ Obeyed(e, "+", Obeyed(e, "-", d)) = d
<1> DEFINE v == Here(d)
           a == v + 1
           b == (a % e.values) - 1
           p == v - 1
           q == (p % e.values) + 1
<1>1. v \in CellValues(e) /\ v \in Nat
  BY HereType
<1> HIDE DEF v
<1>2. a \in Int /\ p \in Int /\ a % e.values \in CellValues(e) /\ p % e.values \in CellValues(e)
  BY <1>1, ModValue
<1>3. b \in Int /\ q \in Int
  BY <1>2 DEF CellValues
<1>4. b % e.values = v /\ q % e.values = v
  BY <1>1, ModFacts
<1>5. Obeyed(e, "+", d) = WithCell(e, d, a) /\ Obeyed(e, "-", d) = WithCell(e, d, p)
  BY DEF Obeyed, v
<1>6. Here(WithCell(e, d, a)) = a % e.values /\ Here(WithCell(e, d, p)) = p % e.values
  BY <1>2, WrittenFacts
<1>7. /\ Obeyed(e, "-", WithCell(e, d, a)) = WithCell(e, WithCell(e, d, a), b)
      /\ Obeyed(e, "+", WithCell(e, d, p)) = WithCell(e, WithCell(e, d, p), q)
  BY <1>6 DEF Obeyed
<1> HIDE DEF a, b, p, q
<1>8. /\ WithCell(e, WithCell(e, d, a), b) = WithCell(e, d, b)
      /\ WithCell(e, WithCell(e, d, p), q) = WithCell(e, d, q)
  BY <1>2, <1>3, WrittenTwice
<1>9. WithCell(e, d, b) = d /\ WithCell(e, d, q) = d
  BY <1>3, <1>4, WrittenTwice DEF v
<1> QED
  BY <1>5, <1>7, <1>8, <1>9

LEMMA ModBack ==
  ASSUME NEW n \in Nat \ {0}, NEW v \in 0 .. n - 1
  PROVE  (((v + 1) % n) + (-1)) % n = v /\ (((v + (-1)) % n) + 1) % n = v
<1>1. (((v + 1) % n) + (-1)) % n = v
  <2>1. CASE v + 1 = n
    <3>1. (v + 1) % n = 0
      BY <2>1
    <3>2. (0 + (-1)) % n = n - 1
      OBVIOUS
    <3> QED
      BY <2>1, <3>1, <3>2
  <2>2. CASE v + 1 # n
    <3>1. (v + 1) % n = v + 1
      BY <2>2
    <3>2. (v + 1) + (-1) = v /\ v % n = v
      OBVIOUS
    <3> QED
      BY <3>1, <3>2
  <2> QED
    BY <2>1, <2>2
<1>2. (((v + (-1)) % n) + 1) % n = v
  <2>1. CASE v = 0
    <3>1. (v + (-1)) % n = n - 1
      BY <2>1
    <3>2. (n - 1) + 1 = n /\ n % n = 0
      OBVIOUS
    <3> QED
      BY <2>1, <3>1, <3>2
  <2>2. CASE v # 0
    <3>1. (v + (-1)) % n = v - 1
      BY <2>2
    <3>2. (v - 1) + 1 = v /\ v % n = v
      OBVIOUS
    <3> QED
      BY <3>1, <3>2
  <2> QED
    BY <2>1, <2>2
<1> QED
  BY <1>1, <1>2

LEMMA TurnedBack ==
  ASSUME NEW e \in Machines, NEW d \in Datas(e), NEW n, NEW m,
         (n = 1 /\ m = -1) \/ (n = -1 /\ m = 1),
         n = -1 => e.wrap \/ d.head # 0
  PROVE  /\ Shifted(e, d, n) \in Datas(e) /\ Shifted(e, Shifted(e, d, n), m) = d
         /\ ~e.wrap /\ n = 1 => Shifted(e, d, n).head # 0
<1> DEFINE w == Shifted(e, d, n)
           z == Shifted(e, w, m)
           h == d.head
<1>1. h \in Nat /\ (e.wrap => h < e.size) /\ e.size \in Nat \ {0} /\ e.wrap \in BOOLEAN
  BY DataFields DEF Machines
<1>2. n \in Int /\ m \in Int /\ (~e.wrap => h + n >= 0)
  BY <1>1
<1>3. /\ w \in Datas(e) /\ w.tape = d.tape /\ w.in = d.in /\ w.out = d.out
      /\ w.head = IF e.wrap THEN (h + n) % e.size ELSE h + n
  BY <1>2, TurnedFacts
<1> HIDE DEF w
<1>4. ~e.wrap => w.head + m = h
  BY <1>1, <1>2, <1>3
<1>5. e.wrap => (w.head + m) % e.size = h
  <2> SUFFICES ASSUME e.wrap PROVE (w.head + m) % e.size = h
    OBVIOUS
  <2> DEFINE s == e.size
  <2>1. s \in Nat \ {0} /\ h \in 0 .. s - 1 /\ w.head = (h + n) % s
    BY <1>1, <1>3
  <2> HIDE DEF s, h
  <2>2. (((h + 1) % s) + (-1)) % s = h /\ (((h + (-1)) % s) + 1) % s = h
    BY <2>1, ModBack
  <2>3. CASE n = 1
    BY <2>1, <2>2, <2>3 DEF s
  <2>4. CASE n = -1
    BY <2>1, <2>2, <2>4 DEF s
  <2> QED
    BY <2>3, <2>4
<1>6. /\ z \in Datas(e) /\ z.tape = w.tape /\ z.in = w.in /\ z.out = w.out
      /\ z.head = IF e.wrap THEN (w.head + m) % e.size ELSE w.head + m
  <2>1. ~e.wrap => w.head + m >= 0
    BY <1>1, <1>4
  <2> QED
    BY <1>2, <1>3, <2>1, TurnedFacts
<1> HIDE DEF z
<1>7. z.head = d.head
  BY <1>4, <1>5, <1>6
<1>8. z = d
  BY <1>3, <1>6, <1>7, DataEqual
<1>9. ~e.wrap /\ n = 1 => w.head # 0
  BY <1>1, <1>3
<1> QED
  BY <1>3, <1>8, <1>9 DEF z, w

LEMMA UndoneMoving ==
  ASSUME NEW e \in Machines, NEW d \in Datas(e)
  PROVE  /\ Obeyed(e, "<", Obeyed(e, ">", d)) = d
         /\ e.wrap \/ Obeyed(e, ">", d).head # 0
         /\ e.wrap \/ d.head # 0 => Obeyed(e, ">", Obeyed(e, "<", d)) = d
<1>1. \A x : Obeyed(e, ">", x) = Shifted(e, x, 1) /\ Obeyed(e, "<", x) = Shifted(e, x, -1)
  BY DEF Obeyed
<1>2. e.wrap \in BOOLEAN
  BY DEF Machines
<1>3. Shifted(e, Shifted(e, d, 1), -1) = d /\ (e.wrap \/ Shifted(e, d, 1).head # 0)
  BY <1>2, TurnedBack
<1>4. e.wrap \/ d.head # 0 => Shifted(e, Shifted(e, d, -1), 1) = d
  BY TurnedBack
<1> QED
  BY <1>1, <1>3, <1>4


LEMMA LeadsTo ==
  ASSUME NEW e, NEW x, NEW y, May(e, x), Step(e, x) = y
  PROVE  Reaches(e, x, y)
  BY LeadsStep

LEMMA OpenedFacts ==
  ASSUME NEW k \in Nat
  PROVE  /\ Opened("[", k) = k + 1
         /\ Opened("]", k) = k - 1
         /\ \A c : c # "[" /\ c # "]" => Opened(c, k) = k
  BY DEF Opened

LEMMA CancellingKinds ==
  ASSUME NEW a, NEW b, <<a, b>> \in Cancelling
  PROVE  /\ a \in Ops /\ b \in Ops
         /\ \/ a = "[" /\ b = "]"
            \/ a # "[" /\ a # "]" /\ b # "[" /\ b # "]"
         /\ \/ a = "+" /\ b = "-"
            \/ a = "-" /\ b = "+"
            \/ a = ">" /\ b = "<"
            \/ a = "<" /\ b = ">"
            \/ a = "[" /\ b = "]"
  BY DEF Cancelling, Ops, CoreOps

\* A loop around nothing is left at once or never.
LEMMA HollowLoop ==
  ASSUME NEW e \in Machines, NEW v \in Streams, NEW l \in Seq(Streams), NEW d \in Datas(e), NEW f,
         Here(d) # 0
  PROVE  ~Ends(e, Conf(<<"[">> \o (<<"]">> \o v), l, 0, d), f)
<1> DEFINE s == <<"]">> \o v
           t == <<"[">> \o s
           x == Conf(t, l, 0, d)
           y == Conf(s, Append(l, t), 0, d)
           T == {n \in Nat : EndsIn(e, x, f, n)}
<1>0. "[" \in Ops /\ "]" \in Ops
  BY DEF Ops, CoreOps
<1>1. s \in Streams
  BY <1>0, ConsFacts DEF Streams
<1>2. t \in Streams /\ t # <<>>
  BY <1>0, <1>1, ConsFacts DEF Streams
<1>3. May(e, x) /\ Step(e, x) = y
  BY <1>1, StepLoop
<1> DEFINE m == Append(l, t)
<1>4. m \in Seq(Streams) /\ m # <<>> /\ m[Len(m)] = t /\ SubSeq(m, 1, Len(m) - 1) = l
  <2> HIDE DEF t
  <2> QED
    BY <1>2, LoopsLast
<1>5. May(e, y) /\ Step(e, y) = x
  <2> HIDE DEF m, t
  <2>1. May(e, Conf(<<"]">> \o v, m, 0, d))
    BY <1>4, StepClose
  <2>2. Step(e, Conf(<<"]">> \o v, m, 0, d)) = Conf(m[Len(m)], SubSeq(m, 1, Len(m) - 1), 0, d)
    BY StepClose
  <2> QED
    BY <1>4, <2>1, <2>2 DEF m
<1>6. ~Halted(x)
  BY <1>2 DEF Conf, Halted
<1> HIDE DEF x, y, s, t, m
<1>7. Reaches(e, Step(e, x), x)
  BY <1>3, <1>5, LeadsTo
<1>8. ASSUME T # {} PROVE FALSE
  <2>1. PICK n \in T : \A m2 \in T : n <= m2
    BY <1>8, LeastNatural
  <2>2. PICK m2 \in Nat : m2 < n /\ EndsIn(e, x, f, m2)
    BY <1>6, <1>7, <2>1, LeadsLess
  <2>3. m2 \in T
    BY <2>2
  <2> QED
    BY <2>1, <2>2, <2>3
<1> QED
  BY <1>8 DEF Ends, x, t, s

\* A cancelling pair does nothing, if what follows it is ever reached.
LEMMA PairPassed ==
  ASSUME NEW e \in Machines, NEW a, NEW b, <<a, b>> \in Cancelling,
         NEW v \in Streams, NEW l \in Seq(Streams), NEW k \in Nat, NEW d \in Datas(e), NEW f,
         NEW n \in Nat, EndsIn(e, Conf(<<a>> \o (<<b>> \o v), l, k, d), f, n)
  PROVE  \E m \in Nat : m < n /\ EndsIn(e, Conf(v, l, k, d), f, m)
<1> DEFINE s == <<b>> \o v
           t == <<a>> \o s
           x == Conf(t, l, k, d)
           y == Conf(v, l, k, d)
<1>0. a \in Ops /\ b \in Ops
  BY CancellingKinds
<1>1. s \in Streams
  BY <1>0, ConsFacts DEF Streams
<1>2. t \in Streams /\ t # <<>>
  BY <1>0, <1>1, ConsFacts DEF Streams
<1>3. ~Halted(x)
  BY <1>2 DEF Conf, Halted
<1>e. EndsIn(e, x, f, n)
  OBVIOUS
<1>4. CASE k # 0
  <2> DEFINE j == Opened(a, k)
  <2>1. j \in Nat \ {0} /\ Opened(b, j) = k
    <3>1. CASE a = "[" /\ b = "]"
      <4>1. j = k + 1 /\ k + 1 \in Nat
        BY <3>1, OpenedFacts
      <4>2. Opened("]", k + 1) = (k + 1) - 1
        BY <4>1, OpenedFacts
      <4> QED
        BY <3>1, <4>1, <4>2
    <3>2. CASE a # "[" /\ a # "]" /\ b # "[" /\ b # "]"
      BY <3>2, <1>4, OpenedFacts
    <3> QED
      BY <3>1, <3>2, CancellingKinds
  <2> HIDE DEF j
  <2> DEFINE z == Conf(s, l, j, d)
  <2>2. k \in Nat \ {0}
    BY <1>4
  <2>3. Step(e, x) = z
    BY <1>0, <1>1, <2>2, StepSkip DEF j
  <2>4. May(e, z) /\ Step(e, z) = Conf(v, l, Opened(b, j), d)
    BY <1>0, <2>1, StepSkip
  <2>5. Reaches(e, Step(e, x), y)
    <3> HIDE DEF z, x
    <3> QED
      BY <2>1, <2>3, <2>4, LeadsTo
  <2>7. \E m \in Nat : m < n /\ EndsIn(e, y, f, m)
    <3> HIDE DEF x, y
    <3> QED
      BY <1>3, <1>e, <2>5, LeadsLess
  <2> QED
    BY <2>7
<1>5. CASE k = 0 /\ a # "[" /\ a # "]" /\ b # "[" /\ b # "]"
  <2> DEFINE g == Obeyed(e, a, d)
             z == Conf(s, l, 0, g)
  <2>1. Step(e, x) = z
    BY <1>0, <1>1, <1>5, StepPlain
  <2>2. May(e, x) => (a = "<" => e.wrap \/ d.head # 0)
    <3>1. May(e, Conf(<<a>> \o s, l, 0, d)) <=> (a = "<" => e.wrap \/ d.head # 0)
      <4> HIDE DEF s
      <4> QED
        BY <1>0, <1>1, <1>5, PlainMay
    <3> QED
      BY <1>5, <3>1
  <2>3. ASSUME a = "<" => e.wrap \/ d.head # 0
        PROVE  (b = "<" => e.wrap \/ g.head # 0) /\ Obeyed(e, b, g) = d
    <3>1. CASE a \in {"+", "-"}
      BY <3>1, CancellingKinds, UndoneAdding
    <3>2. CASE a \in {"<", ">"}
      BY <2>3, <3>2, CancellingKinds, UndoneMoving
    <3> QED
      BY <1>5, <3>1, <3>2, CancellingKinds
  <2> HIDE DEF g
  <2>4. (b = "<" => e.wrap \/ g.head # 0) => May(e, z)
    <3>1. May(e, Conf(<<b>> \o v, l, 0, g)) <=> (b = "<" => e.wrap \/ g.head # 0)
      BY <1>0, <1>5, PlainMay
    <3> QED
      BY <3>1
  <2>5. Step(e, z) = Conf(v, l, 0, Obeyed(e, b, g))
    BY <1>0, <1>5, StepPlain
  <2>6. May(e, x) => Reaches(e, Step(e, x), y)
    <3> SUFFICES ASSUME May(e, x) PROVE Reaches(e, Step(e, x), y)
      OBVIOUS
    <3>1. May(e, z) /\ Step(e, z) = Conf(v, l, 0, d)
      BY <2>2, <2>3, <2>4, <2>5
    <3>2. Step(e, z) = y
      BY <1>5, <3>1
    <3> HIDE DEF x, y, z
    <3> QED
      BY <2>1, <3>1, <3>2, LeadsTo
  <2>7. \E m \in Nat : m < n /\ EndsIn(e, y, f, m)
    <3> HIDE DEF x, y
    <3> QED
      BY <1>3, <1>e, <2>6, LeadsLess
  <2> QED
    BY <2>7
<1>6. CASE k = 0 /\ a = "[" /\ b = "]"
  <2>0. x = Conf(<<"[">> \o (<<"]">> \o v), l, 0, d) /\ s = <<"]">> \o v
    BY <1>6
  <2>1. Here(d) = 0
    <3>1. Ends(e, x, f)
      BY <1>e DEF Ends
    <3> HIDE DEF x
    <3> QED
      BY <2>0, <3>1, HollowLoop
  <2> DEFINE z == Conf(s, l, 1, d)
  <2>2. Step(e, Conf(<<"[">> \o s, l, 0, d)) = z
    <3> HIDE DEF s
    <3> QED
      BY <1>1, <2>1, StepLoop
  <2>3. Step(e, x) = z
    BY <1>6, <2>2
  <2>4. May(e, z) /\ Step(e, z) = Conf(v, l, Opened(b, 1), d)
    <3>1. 1 \in Nat \ {0}
      OBVIOUS
    <3> QED
      BY <1>0, <3>1, StepSkip
  <2>5. Opened(b, 1) = k
    <3>1. Opened("]", 1) = 1 - 1
      BY OpenedFacts
    <3> QED
      BY <1>6, <3>1
  <2>6. Reaches(e, Step(e, x), y)
    <3> HIDE DEF z, x
    <3> QED
      BY <2>3, <2>4, <2>5, LeadsTo
  <2>7. \E m \in Nat : m < n /\ EndsIn(e, y, f, m)
    <3> HIDE DEF x, y
    <3> QED
      BY <1>3, <1>e, <2>6, LeadsLess
  <2> QED
    BY <2>7
<1> QED
  BY <1>4, <1>5, <1>6, CancellingKinds

-----------------------------------------------------------------------------
(* Streams that differ in one place, and executions of them.                 *)

Alike(p, q, s, t) ==
  s = t \/ \E w, v \in Streams : s = w \o (p \o v) /\ t = w \o (q \o v)
AlikeLoops(p, q, l, m) ==
  /\ l \in Seq(Streams) /\ m \in Seq(Streams) /\ Len(l) = Len(m)
  /\ \A k \in 1 .. Len(l) : Alike(p, q, l[k], m[k])
AlikeConf(p, q, x, y) ==
  /\ Alike(p, q, x.rest, y.rest) /\ AlikeLoops(p, q, x.loops, y.loops)
  /\ x.skip = y.skip /\ x.data = y.data

\* What replaces p by q on the way of an execution that ends still ends there.
Local(e, p, q) ==
  \A v \in Streams : \A l, m : \A k \in Nat : \A d \in Datas(e) : \A f : \A n \in Nat :
    AlikeLoops(p, q, l, m) /\ EndsIn(e, Conf(p \o v, l, k, d), f, n) =>
      \E x, y \in Confs(e) : \E j \in Nat :
        /\ j < n /\ AlikeConf(p, q, x, y) /\ EndsIn(e, x, f, j)
        /\ Ends(e, y, f) => Ends(e, Conf(q \o v, m, k, d), f)

LEMMA TextJoined ==
  ASSUME NEW s \in Streams, NEW t \in Streams
  PROVE  s \o t \in Streams
  BY JoinFacts DEF Streams

LEMMA TextCons ==
  ASSUME NEW c \in Ops, NEW s \in Streams
  PROVE  <<c>> \o s \in Streams /\ <<c>> \in Streams /\ <<c>> \o s # <<>>
<1>1. <<c>> \in Seq(Ops)
  OBVIOUS
<1> QED
  BY <1>1, ConsFacts DEF Streams

LEMMA TextAssoc == \A aa, bb, cc \in Streams : (aa \o bb) \o cc = aa \o (bb \o cc)
  BY ConcatAssociative DEF Streams

\* Concatenation, by a name the provers leave as it is.
Cat(s, t) == s \o t

LEMMA CatAssoc == \A s, t, u \in Streams : Cat(Cat(s, t), u) = Cat(s, Cat(t, u))
  BY TextAssoc DEF Cat

LEMMA TextEmpty ==
  ASSUME NEW s \in Streams
  PROVE  s \o <<>> = s /\ <<>> \o s = s /\ <<>> \in Streams
  BY ConcatEmptySeq DEF Streams

LEMMA AlikeLonger ==
  ASSUME NEW p \in Streams, NEW q \in Streams, NEW c \in Ops, NEW s \in Streams, NEW t \in Streams,
         Alike(p, q, s, t)
  PROVE  Alike(p, q, <<c>> \o s, <<c>> \o t)
<1>1. CASE s = t
  BY <1>1 DEF Alike
<1>2. CASE s # t
  <2>1. PICK w \in Streams, v \in Streams : s = w \o (p \o v) /\ t = w \o (q \o v)
    BY <1>2 DEF Alike
  <2> DEFINE a == <<c>>
             z == a \o w
  <2>2. a \in Streams /\ z \in Streams /\ p \o v \in Streams /\ q \o v \in Streams
    BY TextCons, TextJoined
  <2> HIDE DEF a
  <2>3. a \o s = z \o (p \o v) /\ a \o t = z \o (q \o v)
    <3> DEFINE g == p \o v
               h == q \o v
    <3>1. g \in Streams /\ h \in Streams /\ a \in Streams /\ w \in Streams
      BY <2>2
    <3>s. s = w \o g /\ t = w \o h
      BY <2>1
    <3> HIDE DEF g, h
    <3>2. Cat(Cat(a, w), g) = Cat(a, Cat(w, g))
      BY <3>1, CatAssoc
    <3>3. Cat(Cat(a, w), h) = Cat(a, Cat(w, h))
      BY <3>1, CatAssoc
    <3> QED
      BY <3>s, <3>2, <3>3 DEF g, h, Cat
  <2> HIDE DEF z
  <2>4. Alike(p, q, a \o s, a \o t)
    BY <2>2, <2>3 DEF Alike
  <2> QED
    BY <2>4 DEF a
<1> QED
  BY <1>1, <1>2

AlikeHeads(p, q, s, t) ==
  \/ s = <<>> /\ t = <<>>
  \/ \E c \in Ops : \E u, z \in Streams :
       s = <<c>> \o u /\ t = <<c>> \o z /\ Alike(p, q, u, z)
  \/ \E v \in Streams : s = p \o v /\ t = q \o v

LEMMA AlikeCases ==
  ASSUME NEW p \in Streams, NEW q \in Streams, NEW s \in Streams, NEW t \in Streams, Alike(p, q, s, t)
  PROVE  AlikeHeads(p, q, s, t)
<1>1. CASE s = t /\ s # <<>>
  <2>1. Head(s) \in Ops /\ Tail(s) \in Streams /\ s = <<Head(s)>> \o Tail(s)
    BY <1>1, ConsSplit DEF Streams
  <2>2. Alike(p, q, Tail(s), Tail(s))
    BY DEF Alike
  <2> QED
    BY <1>1, <2>1, <2>2 DEF AlikeHeads
<1>2. CASE s # t
  <2>1. PICK w \in Streams, v \in Streams : s = w \o (p \o v) /\ t = w \o (q \o v)
    BY <1>2 DEF Alike
  <2>2. p \o v \in Streams /\ q \o v \in Streams
    BY TextJoined
  <2>3. CASE w = <<>>
    <3>1. s = p \o v /\ t = q \o v
      BY <2>1, <2>2, <2>3, TextEmpty
    <3> QED
      BY <3>1 DEF AlikeHeads
  <2>4. CASE w # <<>>
    <3> DEFINE c == Head(w)
               a == <<c>>
               r == Tail(w)
               u == r \o (p \o v)
               z == r \o (q \o v)
    <3>1. c \in Ops /\ r \in Streams /\ w = a \o r /\ a \in Streams
      <4>1. c \in Ops /\ r \in Streams /\ w = a \o r
        BY <2>4, ConsSplit DEF Streams
      <4> QED
        BY <4>1, TextCons
    <3> HIDE DEF c, r
    <3>2. u \in Streams /\ z \in Streams
      BY <2>2, <3>1, TextJoined
    <3>3. s = a \o u /\ t = a \o z
      <4> DEFINE g == p \o v
                 h == q \o v
      <4>1. g \in Streams /\ h \in Streams /\ a \in Streams /\ r \in Streams
        BY <2>2, <3>1
      <4>s. s = (a \o r) \o g /\ t = (a \o r) \o h
        BY <2>1, <3>1
      <4> HIDE DEF g, h, a
      <4>2. Cat(Cat(a, r), g) = Cat(a, Cat(r, g))
        BY <4>1, CatAssoc
      <4>3. Cat(Cat(a, r), h) = Cat(a, Cat(r, h))
        BY <4>1, CatAssoc
      <4> QED
        BY <4>s, <4>2, <4>3 DEF g, h, Cat
    <3>4. Alike(p, q, u, z)
      BY <3>1 DEF Alike
    <3> HIDE DEF u, z
    <3> QED
      BY <3>1, <3>2, <3>3, <3>4 DEF AlikeHeads
  <2> QED
    BY <2>3, <2>4
<1> QED
  BY <1>1, <1>2 DEF AlikeHeads

LEMMA LoopsPushed ==
  ASSUME NEW p \in Streams, NEW q \in Streams, NEW l, NEW m, AlikeLoops(p, q, l, m),
         NEW s \in Streams, NEW t \in Streams, Alike(p, q, s, t)
  PROVE  AlikeLoops(p, q, Append(l, s), Append(m, t))
<1> DEFINE a == Append(l, s)
           b == Append(m, t)
<1>1. l \in Seq(Streams) /\ m \in Seq(Streams) /\ Len(l) = Len(m) /\ Len(l) \in Nat
  BY DEF AlikeLoops
<1>2. /\ a \in Seq(Streams) /\ Len(a) = Len(l) + 1 /\ a[Len(l) + 1] = s
      /\ \A k \in 1 .. Len(l) : a[k] = l[k]
  BY <1>1, AppendProperties
<1>3. /\ b \in Seq(Streams) /\ Len(b) = Len(l) + 1 /\ b[Len(l) + 1] = t
      /\ \A k \in 1 .. Len(l) : b[k] = m[k]
  BY <1>1, AppendProperties
<1> HIDE DEF a, b
<1>4. ASSUME NEW k \in 1 .. Len(a) PROVE Alike(p, q, a[k], b[k])
  <2>1. CASE k = Len(l) + 1
    BY <2>1, <1>2, <1>3
  <2>2. CASE k # Len(l) + 1
    <3>1. k \in 1 .. Len(l)
      BY <2>2, <1>1, <1>2
    <3> QED
      BY <3>1, <1>2, <1>3 DEF AlikeLoops
  <2> QED
    BY <2>1, <2>2
<1>5. AlikeLoops(p, q, a, b)
  BY <1>2, <1>3, <1>4 DEF AlikeLoops
<1> QED
  BY <1>5 DEF a, b

LEMMA LoopsPopped ==
  ASSUME NEW p, NEW q, NEW l, NEW m, AlikeLoops(p, q, l, m), l # <<>>
  PROVE  /\ m # <<>> /\ Alike(p, q, l[Len(l)], m[Len(m)])
         /\ AlikeLoops(p, q, SubSeq(l, 1, Len(l) - 1), SubSeq(m, 1, Len(m) - 1))
<1>1. l \in Seq(Streams) /\ m \in Seq(Streams) /\ Len(l) = Len(m) /\ Len(l) \in Nat
  BY DEF AlikeLoops
<1>2. Len(l) # 0
  BY <1>1, EmptySeq
<1>3. m # <<>>
  BY <1>1, <1>2
<1> DEFINE a == SubSeq(l, 1, Len(l) - 1)
           b == SubSeq(m, 1, Len(m) - 1)
<1>4. /\ a \in Seq(Streams) /\ Len(a) = Len(l) - 1
      /\ \A k \in 1 .. Len(l) - 1 : a[k] = l[k]
  BY <1>1, LoopsPop
<1>5. /\ b \in Seq(Streams) /\ Len(b) = Len(m) - 1
      /\ \A k \in 1 .. Len(m) - 1 : b[k] = m[k]
  BY <1>1, <1>3, LoopsPop
<1> HIDE DEF a, b
<1>6. AlikeLoops(p, q, a, b)
  BY <1>1, <1>4, <1>5 DEF AlikeLoops
<1>7. Len(l) \in 1 .. Len(l)
  BY <1>1, <1>2
<1> QED
  BY <1>1, <1>3, <1>6, <1>7 DEF AlikeLoops, a, b

LEMMA AlikeMade ==
  ASSUME NEW e, NEW p, NEW q, NEW s \in Streams, NEW t \in Streams, NEW l, NEW m, NEW k \in Nat,
         NEW d \in Datas(e), Alike(p, q, s, t), AlikeLoops(p, q, l, m)
  PROVE  /\ AlikeConf(p, q, Conf(s, l, k, d), Conf(t, m, k, d))
         /\ Conf(s, l, k, d) \in Confs(e) /\ Conf(t, m, k, d) \in Confs(e)
  BY ConfMade DEF AlikeConf, Conf, AlikeLoops

\* The same character has the same effect on alike texts.
LEMMA AlikeStep ==
  ASSUME NEW e \in Machines, NEW p \in Streams, NEW q \in Streams, NEW c \in Ops,
         NEW s \in Streams, NEW t \in Streams, Alike(p, q, s, t),
         NEW l, NEW m, AlikeLoops(p, q, l, m), NEW k \in Nat, NEW d \in Datas(e),
         May(e, Conf(<<c>> \o s, l, k, d))
  PROVE  /\ May(e, Conf(<<c>> \o t, m, k, d))
         /\ \E x, y \in Confs(e) : /\ x = Step(e, Conf(<<c>> \o s, l, k, d))
                                   /\ y = Step(e, Conf(<<c>> \o t, m, k, d))
                                   /\ AlikeConf(p, q, x, y)
<1> DEFINE a == Conf(<<c>> \o s, l, k, d)
           b == Conf(<<c>> \o t, m, k, d)
           Good(x, y) == /\ Step(e, a) = x /\ Step(e, b) = y /\ AlikeConf(p, q, x, y)
                         /\ x \in Confs(e) /\ y \in Confs(e) /\ May(e, b)
<1>1. CASE k # 0
  <2> DEFINE j == Opened(c, k)
  <2>1. k \in Nat \ {0} /\ j \in Nat
    <3>1. k \in Nat \ {0}
      BY <1>1
    <3> QED
      BY <3>1 DEF Opened
  <2>2. Step(e, a) = Conf(s, l, j, d) /\ Step(e, b) = Conf(t, m, j, d) /\ May(e, b)
    BY <2>1, StepSkip
  <2> HIDE DEF j
  <2>3. Good(Conf(s, l, j, d), Conf(t, m, j, d))
    BY <2>1, <2>2, AlikeMade
  <2> QED
    BY <2>3
<1>2. CASE k = 0 /\ c = "[" /\ Here(d) = 0
  <2>1. Step(e, a) = Conf(s, l, 1, d) /\ Step(e, b) = Conf(t, m, 1, d) /\ May(e, b)
    BY <1>2, StepLoop
  <2>2. 1 \in Nat
    OBVIOUS
  <2>3. Good(Conf(s, l, 1, d), Conf(t, m, 1, d))
    BY <2>1, <2>2, AlikeMade
  <2> QED
    BY <2>3
<1>3. CASE k = 0 /\ c = "[" /\ Here(d) # 0
  <2> DEFINE z == <<c>> \o s
             w == <<c>> \o t
             ll == Append(l, z)
             mm == Append(m, w)
  <2>1. Step(e, a) = Conf(s, ll, 0, d) /\ Step(e, b) = Conf(t, mm, 0, d) /\ May(e, b)
    BY <1>3, StepLoop
  <2>2. AlikeLoops(p, q, ll, mm)
    <3>1. z \in Streams /\ w \in Streams /\ Alike(p, q, z, w)
      BY TextCons, AlikeLonger
    <3> HIDE DEF z, w
    <3> QED
      BY <3>1, LoopsPushed
  <2>3. 0 \in Nat
    OBVIOUS
  <2> HIDE DEF ll, mm
  <2>4. Good(Conf(s, ll, 0, d), Conf(t, mm, 0, d))
    BY <2>1, <2>2, <2>3, AlikeMade
  <2> QED
    BY <2>4
<1>4. CASE k = 0 /\ c = "]"
  <2>0. a = Conf(<<"]">> \o s, l, 0, d) /\ b = Conf(<<"]">> \o t, m, 0, d)
    BY <1>4
  <2> DEFINE ll == SubSeq(l, 1, Len(l) - 1)
             mm == SubSeq(m, 1, Len(m) - 1)
             z == l[Len(l)]
             w == m[Len(m)]
  <2>1. l # <<>>
    BY <2>0, StepClose
  <2>2. m # <<>> /\ Alike(p, q, z, w) /\ AlikeLoops(p, q, ll, mm)
    BY <2>1, LoopsPopped
  <2>3. z \in Streams /\ w \in Streams
    BY <2>1, <2>2, LoopsPop DEF AlikeLoops
  <2>4. Step(e, a) = Conf(z, ll, 0, d) /\ Step(e, b) = Conf(w, mm, 0, d)
    BY <2>0, StepClose
  <2>5. May(e, b)
    BY <2>0, <2>2, StepClose
  <2>6. 0 \in Nat
    OBVIOUS
  <2> HIDE DEF ll, mm, z, w
  <2>7. Good(Conf(z, ll, 0, d), Conf(w, mm, 0, d))
    BY <2>2, <2>3, <2>4, <2>5, <2>6, AlikeMade
  <2> QED
    BY <2>7
<1>5. CASE k = 0 /\ c # "[" /\ c # "]"
  <2>0. a = Conf(<<c>> \o s, l, 0, d) /\ b = Conf(<<c>> \o t, m, 0, d) /\ May(e, a)
    BY <1>5
  <2> DEFINE g == Obeyed(e, c, d)
  <2>1. c = "<" => e.wrap \/ d.head # 0
    BY <1>5, <2>0, PlainMay
  <2>2. May(e, b)
    BY <1>5, <2>0, <2>1, PlainMay
  <2>3. Step(e, a) = Conf(s, l, 0, g) /\ Step(e, b) = Conf(t, m, 0, g)
    BY <1>5, StepPlain
  <2>4. g \in Datas(e)
    BY <2>1, ObeyedType
  <2>5. 0 \in Nat
    OBVIOUS
  <2> HIDE DEF g
  <2>6. Good(Conf(s, l, 0, g), Conf(t, m, 0, g))
    BY <2>2, <2>3, <2>4, <2>5, AlikeMade
  <2> QED
    BY <2>6
<1> QED
  BY <1>1, <1>2, <1>3, <1>4, <1>5

LEMMA AlikeEnds ==
  ASSUME NEW e \in Machines, NEW p \in Streams, NEW q \in Streams, Local(e, p, q)
  PROVE  \A n \in Nat : \A x, y \in Confs(e) : \A f :
           AlikeConf(p, q, x, y) /\ EndsIn(e, x, f, n) => Ends(e, y, f)
<1> DEFINE Lost(n) == \E x, y \in Confs(e) : \E f :
                        AlikeConf(p, q, x, y) /\ EndsIn(e, x, f, n) /\ ~Ends(e, y, f)
           T == {n \in Nat : Lost(n)}
<1>1. SUFFICES ASSUME T # {} PROVE FALSE
  OBVIOUS
<1>2. PICK n \in T : \A m \in T : n <= m
  <2>1. T \subseteq Nat
    OBVIOUS
  <2> QED
    BY <1>1, <2>1, LeastNatural
<1>3. n \in Nat /\ \A m \in Nat : m < n => ~Lost(m)
  BY <1>2
<1>4a. PICK x \in Confs(e), y \in Confs(e) : \E f :
         AlikeConf(p, q, x, y) /\ EndsIn(e, x, f, n) /\ ~Ends(e, y, f)
  BY <1>2
<1>4. PICK f : AlikeConf(p, q, x, y) /\ EndsIn(e, x, f, n) /\ ~Ends(e, y, f)
  BY <1>4a
<1> HIDE DEF T
<1>5. \A x1, y1 \in Confs(e) : \A j \in Nat :
        j < n /\ AlikeConf(p, q, x1, y1) /\ EndsIn(e, x1, f, j) => Ends(e, y1, f)
  BY <1>3
<1> HIDE DEF Lost
<1> DEFINE s == x.rest
           t == y.rest
           l == x.loops
           m == y.loops
           k == x.skip
           d == x.data
<1>6. /\ s \in Streams /\ t \in Streams /\ k \in Nat /\ d \in Datas(e)
      /\ x = Conf(s, l, k, d) /\ y = Conf(t, m, k, d)
      /\ Alike(p, q, s, t) /\ AlikeLoops(p, q, l, m)
  BY <1>4, ConfMade DEF AlikeConf
<1>7. CASE s = <<>> /\ t = <<>>
  <2>1. Halted(x) /\ Halted(y)
    BY <1>7 DEF Halted
  <2>2. x.data = f
    BY <1>3, <1>4, <2>1, EndsFirst DEF May
  <2>3. y.data = f
    BY <1>4, <2>2 DEF AlikeConf
  <2>4. EndsIn(e, y, f, 0)
    BY <2>1, <2>3, EndsNow
  <2>5. Ends(e, y, f)
    BY <2>4 DEF Ends
  <2> QED
    BY <1>4, <2>5
<1>8. CASE \E c \in Ops : \E u, z \in Streams : s = <<c>> \o u /\ t = <<c>> \o z /\ Alike(p, q, u, z)
  <2>1. PICK c \in Ops, u \in Streams, z \in Streams :
          s = <<c>> \o u /\ t = <<c>> \o z /\ Alike(p, q, u, z)
    BY <1>8
  <2>2. ~Halted(x)
    BY <2>1, TextCons DEF Halted
  <2>3. May(e, x) /\ EndsIn(e, Step(e, x), f, n - 1) /\ n - 1 \in Nat /\ n - 1 < n
    BY <1>3, <1>4, <2>2, EndsFirst
  <2>4. May(e, y) /\ \E x1, y1 \in Confs(e) :
          x1 = Step(e, x) /\ y1 = Step(e, y) /\ AlikeConf(p, q, x1, y1)
    BY <1>6, <2>1, <2>3, AlikeStep
  <2>5. Ends(e, Step(e, y), f)
    BY <1>5, <2>3, <2>4
  <2>6. PICK j \in Nat : EndsIn(e, Step(e, y), f, j)
    BY <2>5 DEF Ends
  <2>7. EndsIn(e, y, f, j + 1) /\ j + 1 \in Nat
    BY <2>4, <2>6, EndsBefore
  <2>8. Ends(e, y, f)
    BY <2>7 DEF Ends
  <2> QED
    BY <1>4, <2>8
<1>9. CASE \E v \in Streams : s = p \o v /\ t = q \o v
  <2>1. PICK v \in Streams : s = p \o v /\ t = q \o v
    BY <1>9
  <2>2. EndsIn(e, Conf(p \o v, l, k, d), f, n)
    BY <1>4, <1>6, <2>1
  <2>3. PICK x1 \in Confs(e), y1 \in Confs(e), j \in Nat :
          /\ j < n /\ AlikeConf(p, q, x1, y1) /\ EndsIn(e, x1, f, j)
          /\ Ends(e, y1, f) => Ends(e, Conf(q \o v, m, k, d), f)
    BY <1>3, <1>6, <2>2 DEF Local
  <2>4. Ends(e, Conf(q \o v, m, k, d), f)
    BY <1>5, <2>3
  <2> QED
    BY <1>4, <1>6, <2>1, <2>4
<1> QED
  <2>1. AlikeHeads(p, q, s, t)
    BY <1>6, AlikeCases
  <2> HIDE DEF s, t
  <2> QED
    BY <1>7, <1>8, <1>9, <2>1 DEF AlikeHeads

\* What the text t does whenever the text s, read from the same data, ends.
Follows(e, s, t) == \A d \in Datas(e) : \A f : Ends(e, Begin(s, d), f) => Ends(e, Begin(t, d), f)

LEMMA FollowsRefl == \A e, s : Follows(e, s, s)
  BY DEF Follows

LEMMA FollowsTrans ==
  ASSUME NEW e, NEW s, NEW t, NEW u, Follows(e, s, t), Follows(e, t, u)
  PROVE  Follows(e, s, u)
  BY DEF Follows

\* A text in which something is replaced locally ends wherever it ended, with
\* the same output and cells, although a loop around the place reads it again
\* every turn (what lexer.c:56-111 and optm.c:18-38 rely on).
THEOREM LocalFollows ==
  ASSUME NEW e \in Machines, NEW p \in Streams, NEW q \in Streams, Local(e, p, q),
         NEW w \in Streams, NEW v \in Streams
  PROVE  Follows(e, w \o (p \o v), w \o (q \o v))
<1> DEFINE s == w \o (p \o v)
           t == w \o (q \o v)
<1>1. s \in Streams /\ t \in Streams
  BY TextJoined
<1>2. Alike(p, q, s, t)
  BY DEF Alike
<1> HIDE DEF s, t
<1>3. ASSUME NEW d \in Datas(e), NEW f, Ends(e, Begin(s, d), f)
      PROVE  Ends(e, Begin(t, d), f)
  <2>1. AlikeLoops(p, q, <<>>, <<>>)
    BY DEF AlikeLoops
  <2>2. /\ AlikeConf(p, q, Conf(s, <<>>, 0, d), Conf(t, <<>>, 0, d))
        /\ Conf(s, <<>>, 0, d) \in Confs(e) /\ Conf(t, <<>>, 0, d) \in Confs(e)
    BY <1>1, <1>2, <2>1, AlikeMade
  <2>3. PICK n \in Nat : EndsIn(e, Conf(s, <<>>, 0, d), f, n)
    BY <1>3 DEF Ends, Begin
  <2>4. Ends(e, Conf(t, <<>>, 0, d), f)
    BY <2>2, <2>3, AlikeEnds
  <2> QED
    BY <2>4 DEF Begin
<1> QED
  BY <1>3 DEF Follows, s, t

LEMMA PairLocal ==
  ASSUME NEW e \in Machines, NEW a, NEW b, <<a, b>> \in Cancelling
  PROVE  Local(e, <<a>> \o <<b>>, <<>>) /\ <<a>> \o <<b>> \in Streams
<1> DEFINE p == <<a>> \o <<b>>
<1>1. a \in Ops /\ b \in Ops /\ <<a>> \in Streams /\ <<b>> \in Streams /\ <<>> \in Streams
  BY CancellingKinds DEF Streams
<1>2. p \in Streams
  BY <1>1, TextJoined
<1>3. ASSUME NEW v \in Streams PROVE p \o v = <<a>> \o (<<b>> \o v) /\ <<>> \o v = v
  BY <1>1, <1>3, TextAssoc, TextEmpty
<1>4. ASSUME NEW v \in Streams, NEW l, NEW m, NEW k \in Nat, NEW d \in Datas(e), NEW f, NEW n \in Nat,
             AlikeLoops(p, <<>>, l, m), EndsIn(e, Conf(p \o v, l, k, d), f, n)
      PROVE  \E x, y \in Confs(e) : \E j \in Nat :
               /\ j < n /\ AlikeConf(p, <<>>, x, y) /\ EndsIn(e, x, f, j)
               /\ Ends(e, y, f) => Ends(e, Conf(<<>> \o v, m, k, d), f)
  <2>1. l \in Seq(Streams)
    BY <1>4 DEF AlikeLoops
  <2>2. EndsIn(e, Conf(<<a>> \o (<<b>> \o v), l, k, d), f, n)
    BY <1>3, <1>4
  <2>3. PICK j \in Nat : j < n /\ EndsIn(e, Conf(v, l, k, d), f, j)
    BY <2>1, <2>2, PairPassed
  <2>4. Alike(p, <<>>, v, v)
    BY DEF Alike
  <2> HIDE DEF p
  <2>5. /\ AlikeConf(p, <<>>, Conf(v, l, k, d), Conf(v, m, k, d))
        /\ Conf(v, l, k, d) \in Confs(e) /\ Conf(v, m, k, d) \in Confs(e)
    BY <1>1, <1>2, <1>4, <2>4, AlikeMade
  <2> QED
    BY <1>3, <2>3, <2>5
<1> QED
  BY <1>2, <1>4 DEF Local

LEMMA PairDeleted ==
  ASSUME NEW e \in Machines, NEW a, NEW b, <<a, b>> \in Cancelling,
         NEW w \in Streams, NEW v \in Streams
  PROVE  Follows(e, w \o (<<a>> \o (<<b>> \o v)), w \o v)
<1>1. Follows(e, w \o ((<<a>> \o <<b>>) \o v), w \o (<<>> \o v))
  BY PairLocal, TextEmpty, LocalFollows
<1>2. (<<a>> \o <<b>>) \o v = <<a>> \o (<<b>> \o v) /\ <<>> \o v = v
  <2>1. <<a>> \in Streams /\ <<b>> \in Streams
    BY CancellingKinds DEF Streams
  <2> QED
    BY <2>1, TextAssoc, TextEmpty
<1> QED
  BY <1>1, <1>2

-----------------------------------------------------------------------------
(* The loop that clears a cell.                                            *)

ClearThen(v) == <<"[">> \o (<<"-">> \o (<<"]">> \o v))

LEMMA ClearTexts ==
  ASSUME NEW v \in Streams
  PROVE  /\ <<"]">> \o v \in Streams /\ <<"-">> \o (<<"]">> \o v) \in Streams
         /\ ClearThen(v) \in Streams
<1>1. "[" \in Ops /\ "]" \in Ops /\ "-" \in Ops
  BY DEF Ops, CoreOps
<1>2. <<"]">> \o v \in Streams
  BY <1>1, TextCons
<1>3. <<"-">> \o (<<"]">> \o v) \in Streams
  BY <1>1, <1>2, TextCons
<1>4. <<"[">> \o (<<"-">> \o (<<"]">> \o v)) \in Streams
  BY <1>1, <1>3, TextCons
<1> QED
  BY <1>2, <1>3, <1>4 DEF ClearThen

\* It is passed over with the text around it.
LEMMA ClearPassed ==
  ASSUME NEW e, NEW v \in Streams, NEW l, NEW k \in Nat \ {0}, NEW d
  PROVE  Reaches(e, Conf(ClearThen(v), l, k, d), Conf(v, l, k, d))
<1> DEFINE t == <<"]">> \o v
           s == <<"-">> \o t
<1>1. t \in Streams /\ s \in Streams /\ "[" \in Ops /\ "]" \in Ops /\ "-" \in Ops
  BY ClearTexts DEF Ops, CoreOps
<1>2. k + 1 \in Nat \ {0} /\ k \in Nat
  OBVIOUS
<1>3. Opened("[", k) = k + 1 /\ Opened("-", k + 1) = k + 1 /\ Opened("]", k + 1) = k
  BY <1>2 DEF Opened
<1>4. Reaches(e, Conf(<<"]">> \o v, l, k + 1, d), Conf(v, l, k, d))
  <2>1. May(e, Conf(<<"]">> \o v, l, k + 1, d))
        /\ Step(e, Conf(<<"]">> \o v, l, k + 1, d)) = Conf(v, l, Opened("]", k + 1), d)
    BY <1>1, <1>2, StepSkip
  <2> QED
    BY <1>3, <2>1, LeadsTo
<1> HIDE DEF t
<1>5. Reaches(e, Conf(<<"-">> \o t, l, k + 1, d), Conf(t, l, k + 1, d))
  <2>1. May(e, Conf(<<"-">> \o t, l, k + 1, d))
        /\ Step(e, Conf(<<"-">> \o t, l, k + 1, d)) = Conf(t, l, Opened("-", k + 1), d)
    BY <1>1, <1>2, StepSkip
  <2> QED
    BY <1>3, <2>1, LeadsTo
<1> HIDE DEF s
<1>6. Reaches(e, Conf(<<"[">> \o s, l, k, d), Conf(s, l, k + 1, d))
  <2>1. May(e, Conf(<<"[">> \o s, l, k, d))
        /\ Step(e, Conf(<<"[">> \o s, l, k, d)) = Conf(s, l, Opened("[", k), d)
    BY <1>1, <1>2, StepSkip
  <2> QED
    BY <1>3, <2>1, LeadsTo
<1>7. Reaches(e, Conf(<<"[">> \o s, l, k, d), Conf(t, l, k + 1, d))
  BY <1>5, <1>6, LeadsTrans DEF s
<1> QED
  BY <1>4, <1>7, LeadsTrans DEF ClearThen, s, t

\* It is passed over where the cell is zero.
LEMMA ClearSkipped ==
  ASSUME NEW e, NEW v \in Streams, NEW l, NEW d, Here(d) = 0
  PROVE  Reaches(e, Conf(ClearThen(v), l, 0, d), Conf(v, l, 0, d))
<1> DEFINE t == <<"]">> \o v
           s == <<"-">> \o t
<1>1. t \in Streams /\ s \in Streams /\ "]" \in Ops /\ "-" \in Ops
  BY ClearTexts DEF Ops, CoreOps
<1>3. Opened("-", 1) = 1 /\ Opened("]", 1) = 0 /\ 1 \in Nat \ {0}
  BY DEF Opened
<1>4. Reaches(e, Conf(<<"]">> \o v, l, 1, d), Conf(v, l, 0, d))
  <2>1. May(e, Conf(<<"]">> \o v, l, 1, d))
        /\ Step(e, Conf(<<"]">> \o v, l, 1, d)) = Conf(v, l, Opened("]", 1), d)
    BY <1>1, <1>3, StepSkip
  <2> QED
    BY <1>3, <2>1, LeadsTo
<1> HIDE DEF t
<1>5. Reaches(e, Conf(<<"-">> \o t, l, 1, d), Conf(t, l, 1, d))
  <2>1. May(e, Conf(<<"-">> \o t, l, 1, d))
        /\ Step(e, Conf(<<"-">> \o t, l, 1, d)) = Conf(t, l, Opened("-", 1), d)
    BY <1>1, <1>3, StepSkip
  <2> QED
    BY <1>3, <2>1, LeadsTo
<1> HIDE DEF s
<1>6. Reaches(e, Conf(<<"[">> \o s, l, 0, d), Conf(s, l, 1, d))
  BY <1>1, StepLoop, LeadsTo
<1>7. Reaches(e, Conf(<<"[">> \o s, l, 0, d), Conf(t, l, 1, d))
  BY <1>5, <1>6, LeadsTrans DEF s
<1> QED
  BY <1>4, <1>7, LeadsTrans DEF ClearThen, s, t

\* One turn takes one off the cell.
LEMMA ClearTurn ==
  ASSUME NEW e \in Machines, NEW v \in Streams, NEW l \in Seq(Streams), NEW d \in Datas(e), Here(d) # 0
  PROVE  LET g == WithCell(e, d, Here(d) - 1)
         IN  /\ g \in Datas(e) /\ Here(g) = Here(d) - 1 /\ Here(g) \in Nat
             /\ WithCell(e, g, 0) = WithCell(e, d, 0)
             /\ Reaches(e, Conf(ClearThen(v), l, 0, d), Conf(ClearThen(v), l, 0, g))
<1> DEFINE t == <<"]">> \o v
           s == <<"-">> \o t
           z == ClearThen(v)
           m == Append(l, z)
           h == Here(d) - 1
           g == WithCell(e, d, h)
<1>1. t \in Streams /\ s \in Streams /\ z \in Streams /\ "]" \in Ops /\ "-" \in Ops
  BY ClearTexts DEF Ops, CoreOps
<1>0. z = <<"[">> \o s
  BY DEF ClearThen
<1>2. h \in Int /\ 0 \in Int /\ h % e.values = h /\ h \in Nat
  BY HereType, ModFacts
<1>3. Obeyed(e, "-", d) = g
  BY DEF Obeyed
<1> HIDE DEF h
<1>4. g \in Datas(e) /\ Here(g) = h
  BY <1>2, WrittenFacts
<1>5. WithCell(e, g, 0) = WithCell(e, d, 0)
  BY <1>2, WrittenTwice
<1> HIDE DEF g
<1>6. m \in Seq(Streams) /\ m # <<>> /\ m[Len(m)] = z /\ SubSeq(m, 1, Len(m) - 1) = l
  BY <1>1, LoopsLast
<1> HIDE DEF m, z
<1>7. Reaches(e, Conf(<<"]">> \o v, m, 0, g), Conf(z, l, 0, g))
  <2>1. May(e, Conf(<<"]">> \o v, m, 0, g))
    BY <1>6, StepClose
  <2>2. Step(e, Conf(<<"]">> \o v, m, 0, g)) = Conf(m[Len(m)], SubSeq(m, 1, Len(m) - 1), 0, g)
    BY <1>1, StepClose
  <2> QED
    BY <1>6, <2>1, <2>2, LeadsTo
<1> HIDE DEF t
<1>8. Reaches(e, Conf(<<"-">> \o t, m, 0, d), Conf(t, m, 0, g))
  <2>0. "-" # "[" /\ "-" # "]" /\ "-" # "<"
    OBVIOUS
  <2>1. May(e, Conf(<<"-">> \o t, m, 0, d))
    BY <1>1, <2>0, PlainMay
  <2>2. Step(e, Conf(<<"-">> \o t, m, 0, d)) = Conf(t, m, 0, g)
    BY <1>1, <1>3, <2>0, StepPlain
  <2> QED
    BY <2>1, <2>2, LeadsTo
<1> HIDE DEF s
<1>9. Reaches(e, Conf(z, l, 0, d), Conf(s, m, 0, d))
  <2>1. May(e, Conf(<<"[">> \o s, l, 0, d))
        /\ Step(e, Conf(<<"[">> \o s, l, 0, d)) = Conf(s, Append(l, <<"[">> \o s), 0, d)
    BY <1>1, StepLoop
  <2> QED
    BY <1>0, <2>1, LeadsTo DEF m
<1>10. Reaches(e, Conf(s, m, 0, d), Conf(z, l, 0, g))
  BY <1>7, <1>8, LeadsTrans DEF s, t
<1>11. Reaches(e, Conf(z, l, 0, d), Conf(z, l, 0, g))
  BY <1>9, <1>10, LeadsTrans
<1> QED
  BY <1>2, <1>4, <1>5, <1>11 DEF z, g, h

LEMMA Clearing ==
  ASSUME NEW e \in Machines, NEW v \in Streams, NEW l \in Seq(Streams)
  PROVE  \A d \in Datas(e) : Reaches(e, Conf(ClearThen(v), l, 0, d), Conf(v, l, 0, WithCell(e, d, 0)))
<1> DEFINE Good(d) == Reaches(e, Conf(ClearThen(v), l, 0, d), Conf(v, l, 0, WithCell(e, d, 0)))
           T == {n \in Nat : \A d \in Datas(e) : Here(d) = n => Good(d)}
<1>1. ASSUME NEW d \in Datas(e), Here(d) = 0 PROVE Good(d)
  <2>1. WithCell(e, d, 0) = d
    <3>1. 0 % e.values = Here(d) /\ 0 \in Int
      BY <1>1, HereType, ModFacts
    <3> QED
      BY <3>1, WrittenTwice
  <2> QED
    BY <1>1, <2>1, ClearSkipped
<1>2. ASSUME NEW n \in T PROVE n + 1 \in T
  <2>1. ASSUME NEW d \in Datas(e), Here(d) = n + 1 PROVE Good(d)
    <3> DEFINE g == WithCell(e, d, Here(d) - 1)
    <3>1. Here(d) # 0
      BY <2>1
    <3>2. /\ g \in Datas(e) /\ Here(g) = Here(d) - 1
          /\ WithCell(e, g, 0) = WithCell(e, d, 0)
          /\ Reaches(e, Conf(ClearThen(v), l, 0, d), Conf(ClearThen(v), l, 0, g))
      BY <3>1, ClearTurn
    <3> HIDE DEF g
    <3>3. Good(g)
      BY <1>2, <2>1, <3>2
    <3> QED
      BY <3>2, <3>3, LeadsTrans
  <2> QED
    BY <2>1
<1>3. 0 \in T
  BY <1>1
<1> HIDE DEF Good
<1>4. Nat \subseteq T
  <2> HIDE DEF T
  <2> QED
    BY <1>2, <1>3, SetInduction
<1> QED
  BY <1>4, HereType DEF Good

\* A loop around that loop.
NestThen(v) == <<"[">> \o ClearThen(<<"]">> \o v)

LEMMA NestTexts ==
  ASSUME NEW v \in Streams
  PROVE  /\ <<"]">> \o v \in Streams /\ ClearThen(<<"]">> \o v) \in Streams
         /\ NestThen(v) \in Streams /\ NestThen(v) # <<>>
<1>1. "[" \in Ops
  BY DEF Ops, CoreOps
<1>2. <<"]">> \o v \in Streams
  BY ClearTexts
<1>3. ClearThen(<<"]">> \o v) \in Streams
  BY <1>2, ClearTexts
<1>4. NestThen(v) \in Streams /\ NestThen(v) # <<>>
  BY <1>1, <1>3, TextCons DEF NestThen
<1> QED
  BY <1>2, <1>3, <1>4

\* Where both loops lead: to the same data.
ClearedData(e, k, d) == IF k = 0 THEN WithCell(e, d, 0) ELSE d

LEMMA ClearLeads ==
  ASSUME NEW e \in Machines, NEW v \in Streams, NEW l \in Seq(Streams), NEW k \in Nat, NEW d \in Datas(e)
  PROVE  /\ Reaches(e, Conf(ClearThen(v), l, k, d), Conf(v, l, k, ClearedData(e, k, d)))
         /\ ClearedData(e, k, d) \in Datas(e)
<1>1. CASE k = 0
  <2>1. Reaches(e, Conf(ClearThen(v), l, 0, d), Conf(v, l, 0, WithCell(e, d, 0)))
    BY Clearing
  <2>2. WithCell(e, d, 0) \in Datas(e)
    BY WrittenFacts
  <2> QED
    BY <1>1, <2>1, <2>2 DEF ClearedData
<1>2. CASE k # 0
  <2>1. k \in Nat \ {0}
    BY <1>2
  <2>2. Reaches(e, Conf(ClearThen(v), l, k, d), Conf(v, l, k, d))
    BY <2>1, ClearPassed
  <2> QED
    BY <1>2, <2>2 DEF ClearedData
<1> QED
  BY <1>1, <1>2

\* Reading on over a bracketed text that is passed over.
LEMMA NestPassed ==
  ASSUME NEW e \in Machines, NEW v \in Streams, NEW l \in Seq(Streams), NEW k \in Nat, NEW d \in Datas(e)
  PROVE  Reaches(e, Conf(ClearThen(<<"]">> \o v), l, k + 1, d), Conf(v, l, k, d))
<1> DEFINE t == <<"]">> \o v
<1>1. t \in Streams /\ k + 1 \in Nat \ {0} /\ "]" \in Ops
  BY NestTexts DEF Ops, CoreOps
<1>2. Opened("]", k + 1) = k
  BY DEF Opened
<1>3. Reaches(e, Conf(<<"]">> \o v, l, k + 1, d), Conf(v, l, k, d))
  <2>1. May(e, Conf(<<"]">> \o v, l, k + 1, d))
        /\ Step(e, Conf(<<"]">> \o v, l, k + 1, d)) = Conf(v, l, Opened("]", k + 1), d)
    BY <1>1, StepSkip
  <2> QED
    BY <1>2, <2>1, LeadsTo
<1> HIDE DEF t
<1>4. Reaches(e, Conf(ClearThen(t), l, k + 1, d), Conf(t, l, k + 1, d))
  BY <1>1, ClearPassed
<1>5. Reaches(e, Conf(ClearThen(t), l, k + 1, d), Conf(v, l, k, d))
  BY <1>3, <1>4, LeadsTrans DEF t
<1> QED
  BY <1>5 DEF t

LEMMA NestStep ==
  ASSUME NEW e \in Machines, NEW v \in Streams, NEW l \in Seq(Streams), NEW k \in Nat, NEW d \in Datas(e)
  PROVE  Reaches(e, Step(e, Conf(NestThen(v), l, k, d)), Conf(v, l, k, ClearedData(e, k, d)))
<1> DEFINE t == <<"]">> \o v
           s == ClearThen(t)
           x == Conf(<<"[">> \o s, l, k, d)
           g == WithCell(e, d, 0)
<1>1. t \in Streams /\ s \in Streams /\ "[" \in Ops /\ NestThen(v) = <<"[">> \o s
      /\ <<"[">> \o s \in Streams
  BY NestTexts DEF Ops, CoreOps, NestThen
<1>2. CASE k # 0
  <2>1. k \in Nat \ {0}
    BY <1>2
  <2>2. Step(e, x) = Conf(s, l, Opened("[", k), d)
    <3> HIDE DEF s
    <3> QED
      BY <1>1, <2>1, StepSkip
  <2>3. Opened("[", k) = k + 1
    BY DEF Opened
  <2>4. Reaches(e, Conf(s, l, k + 1, d), Conf(v, l, k, d))
    BY NestPassed
  <2> HIDE DEF x, s
  <2> QED
    BY <1>1, <1>2, <2>2, <2>3, <2>4 DEF ClearedData, x
<1>3. CASE k = 0 /\ Here(d) = 0
  <2>1. Step(e, x) = Conf(s, l, 1, d)
    <3> HIDE DEF s
    <3>1. Step(e, Conf(<<"[">> \o s, l, 0, d)) = Conf(s, l, 1, d)
      BY <1>1, <1>3, StepLoop
    <3> QED
      BY <1>3, <3>1
  <2>2. Reaches(e, Conf(s, l, 0 + 1, d), Conf(v, l, 0, d))
    BY NestPassed
  <2>3. g = d
    <3>1. 0 % e.values = Here(d) /\ 0 \in Int
      BY <1>3, HereType, ModFacts
    <3> QED
      BY <3>1, WrittenTwice
  <2> HIDE DEF x, s, g
  <2>4. ClearedData(e, 0, d) = d /\ 0 + 1 = 1
    BY <2>3 DEF ClearedData, g
  <2> QED
    BY <1>1, <1>3, <2>1, <2>2, <2>4 DEF x
<1>4. CASE k = 0 /\ Here(d) # 0
  <2> DEFINE z == <<"[">> \o s
             m == Append(l, z)
  <2>1. Step(e, x) = Conf(s, m, 0, d)
    <3> HIDE DEF s
    <3>1. Step(e, Conf(<<"[">> \o s, l, 0, d)) = Conf(s, Append(l, <<"[">> \o s), 0, d)
      BY <1>1, <1>4, StepLoop
    <3> QED
      BY <1>4, <3>1
  <2>2. m \in Seq(Streams) /\ m # <<>> /\ m[Len(m)] = z /\ SubSeq(m, 1, Len(m) - 1) = l
    <3> HIDE DEF z
    <3> QED
      BY <1>1, LoopsLast DEF z
  <2> HIDE DEF m
  <2>3. g \in Datas(e) /\ Here(g) = 0
    <3>1. 0 % e.values = 0 /\ 0 \in Int
      BY HereType, ModFacts
    <3> QED
      BY <3>1, WrittenFacts
  <2>4. Reaches(e, Conf(ClearThen(t), m, 0, d), Conf(t, m, 0, g))
    <3> HIDE DEF t
    <3> QED
      BY <1>1, <2>2, Clearing
  <2>5. Reaches(e, Conf(<<"]">> \o v, m, 0, g), Conf(z, l, 0, g))
    <3> HIDE DEF z, g
    <3>1. May(e, Conf(<<"]">> \o v, m, 0, g))
      BY <2>2, StepClose
    <3>2. Step(e, Conf(<<"]">> \o v, m, 0, g)) = Conf(m[Len(m)], SubSeq(m, 1, Len(m) - 1), 0, g)
      BY StepClose
    <3> QED
      BY <2>2, <3>1, <3>2, LeadsTo
  <2>6. Reaches(e, Conf(z, l, 0, g), Conf(v, l, 0, g))
    <3>1. May(e, Conf(<<"[">> \o s, l, 0, g)) /\ Step(e, Conf(<<"[">> \o s, l, 0, g)) = Conf(s, l, 1, g)
      <4> HIDE DEF s, g
      <4> QED
        BY <1>1, <2>3, StepLoop
    <3>2. Reaches(e, Conf(<<"[">> \o s, l, 0, g), Conf(s, l, 1, g))
      <4> HIDE DEF s, g
      <4> QED
        BY <3>1, LeadsTo
    <3>3. Reaches(e, Conf(s, l, 0 + 1, g), Conf(v, l, 0, g))
      <4> HIDE DEF g
      <4> QED
        BY <2>3, NestPassed
    <3> HIDE DEF s, g
    <3>4. 0 + 1 = 1
      OBVIOUS
    <3> QED
      BY <3>2, <3>3, <3>4, LeadsTrans
  <2>7. ClearedData(e, k, d) = g
    BY <1>4 DEF ClearedData
  <2> HIDE DEF z, g, x
  <2>8. Reaches(e, Conf(t, m, 0, g), Conf(v, l, 0, g))
    BY <2>5, <2>6, LeadsTrans DEF t
  <2> HIDE DEF t
  <2>9. Reaches(e, Conf(s, m, 0, d), Conf(v, l, 0, g))
    BY <2>4, <2>8, LeadsTrans DEF s
  <2> HIDE DEF s
  <2> QED
    BY <1>1, <1>4, <2>1, <2>7, <2>9 DEF x
<1> QED
  BY <1>2, <1>3, <1>4

ClearLoop == <<"[">> \o (<<"-">> \o <<"]">>)
NestLoop == <<"[">> \o (ClearLoop \o <<"]">>)

LEMMA ConsCat ==
  ASSUME NEW c \in Ops, NEW s \in Streams, NEW v \in Streams
  PROVE  (<<c>> \o s) \o v = <<c>> \o (s \o v)
  BY TextCons, TextAssoc

LEMMA ClearText ==
  ASSUME NEW v \in Streams
  PROVE  ClearLoop \in Streams /\ ClearLoop \o v = ClearThen(v)
<1> DEFINE s == <<"]">>
           t == <<"-">> \o s
<1>1. "[" \in Ops /\ "]" \in Ops /\ "-" \in Ops
  BY DEF Ops, CoreOps
<1>2. s \in Streams
  BY <1>1 DEF Streams
<1> HIDE DEF s
<1>3. t \in Streams /\ t \o v = <<"-">> \o (s \o v)
  BY <1>1, <1>2, TextCons, ConsCat
<1> HIDE DEF t
<1>4. <<"[">> \o t \in Streams /\ (<<"[">> \o t) \o v = <<"[">> \o (t \o v)
  BY <1>1, <1>3, TextCons, ConsCat
<1> QED
  BY <1>3, <1>4 DEF ClearLoop, ClearThen, t, s

LEMMA NestText ==
  ASSUME NEW v \in Streams
  PROVE  NestLoop \in Streams /\ NestLoop \o v = NestThen(v)
<1> DEFINE s == <<"]">>
           t == ClearLoop \o s
<1>1. "[" \in Ops /\ s \in Streams
  <2>1. "[" \in Ops /\ "]" \in Ops
    BY DEF Ops, CoreOps
  <2> QED
    BY <2>1 DEF Streams
<1>2. ClearLoop \in Streams
  BY ClearText
<1>3. t \in Streams
  BY <1>1, <1>2, TextJoined
<1> HIDE DEF s
<1>4. s \o v \in Streams
  BY <1>1, TextJoined
<1>5. t \o v = ClearLoop \o (s \o v)
  BY <1>1, <1>2, TextAssoc
<1>6. ClearLoop \o (s \o v) = ClearThen(s \o v)
  BY <1>4, ClearText
<1> HIDE DEF t
<1>7. <<"[">> \o t \in Streams /\ (<<"[">> \o t) \o v = <<"[">> \o (t \o v)
  BY <1>1, <1>3, TextCons, ConsCat
<1> QED
  BY <1>5, <1>6, <1>7 DEF NestLoop, NestThen, t, s

LEMMA NestLocal ==
  ASSUME NEW e \in Machines
  PROVE  Local(e, NestLoop, ClearLoop)
<1>1. NestLoop \in Streams /\ ClearLoop \in Streams
  <2>1. <<>> \in Streams
    BY DEF Streams
  <2> QED
    BY <2>1, NestText, ClearText
<1>2. ASSUME NEW v \in Streams, NEW l, NEW m, NEW k \in Nat, NEW d \in Datas(e), NEW f, NEW n \in Nat,
             AlikeLoops(NestLoop, ClearLoop, l, m), EndsIn(e, Conf(NestLoop \o v, l, k, d), f, n)
      PROVE  \E x, y \in Confs(e) : \E j \in Nat :
               /\ j < n /\ AlikeConf(NestLoop, ClearLoop, x, y) /\ EndsIn(e, x, f, j)
               /\ Ends(e, y, f) => Ends(e, Conf(ClearLoop \o v, m, k, d), f)
  <2> DEFINE g == ClearedData(e, k, d)
             w == Conf(NestThen(v), l, k, d)
             x == Conf(v, l, k, g)
             y == Conf(v, m, k, g)
  <2>1. l \in Seq(Streams) /\ m \in Seq(Streams)
    BY <1>2 DEF AlikeLoops
  <2>2. Reaches(e, Conf(ClearThen(v), m, k, d), y) /\ g \in Datas(e)
    BY <2>1, ClearLeads
  <2>3. Reaches(e, Step(e, w), x)
    BY <2>1, NestStep
  <2>4. EndsIn(e, w, f, n)
    BY <1>2, NestText
  <2>5. ~Halted(w)
    BY NestTexts, ConfFields DEF Halted
  <2> HIDE DEF w, x
  <2>6. PICK j \in Nat : j < n /\ EndsIn(e, x, f, j)
    BY <2>3, <2>4, <2>5, LeadsLess
  <2>7. AlikeConf(NestLoop, ClearLoop, x, y) /\ x \in Confs(e) /\ y \in Confs(e)
    <3>1. Alike(NestLoop, ClearLoop, v, v)
      BY DEF Alike
    <3> HIDE DEF g
    <3> QED
      BY <1>1, <1>2, <2>2, <3>1, AlikeMade DEF x
  <2>8. Ends(e, y, f) => Ends(e, Conf(ClearLoop \o v, m, k, d), f)
    BY <2>2, ClearText DEF Reaches
  <2> QED
    BY <2>6, <2>7, <2>8
<1> QED
  BY <1>2 DEF Local

-----------------------------------------------------------------------------
(* Streams that may replace one another anywhere in a program.               *)

Yields(s, t) ==
  /\ s \in Streams /\ t \in Streams
  /\ \A e \in Machines : \A w, v \in Streams : Follows(e, w \o (s \o v), w \o (t \o v))

LEMMA YieldsRefl ==
  ASSUME NEW s \in Streams
  PROVE  Yields(s, s)
  BY FollowsRefl DEF Yields

LEMMA YieldsTrans ==
  ASSUME NEW s, NEW t, NEW u, Yields(s, t), Yields(t, u)
  PROVE  Yields(s, u)
<1>1. s \in Streams /\ u \in Streams
  BY DEF Yields
<1>2. ASSUME NEW e \in Machines, NEW w \in Streams, NEW v \in Streams
      PROVE  Follows(e, w \o (s \o v), w \o (u \o v))
  <2> DEFINE a == w \o (s \o v)
             b == w \o (t \o v)
             c == w \o (u \o v)
  <2>1. Follows(e, a, b) /\ Follows(e, b, c)
    BY DEF Yields
  <2> HIDE DEF a, b, c
  <2>2. Follows(e, a, c)
    BY <2>1, FollowsTrans
  <2> QED
    BY <2>2 DEF a, c
<1> QED
  BY <1>1, <1>2 DEF Yields

LEMMA YieldsText ==
  ASSUME NEW s, NEW t, Yields(s, t), NEW e \in Machines
  PROVE  Follows(e, s, t)
<1>1. s \in Streams /\ t \in Streams /\ <<>> \in Streams
  BY DEF Yields, Streams
<1>2. Follows(e, <<>> \o (s \o <<>>), <<>> \o (t \o <<>>))
  BY <1>1 DEF Yields
<1> QED
  BY <1>1, <1>2, TextEmpty

LEMMA CatType == \A s, t \in Streams : Cat(s, t) \in Streams
  BY TextJoined DEF Cat

LEMMA YieldsAt ==
  ASSUME NEW s, NEW t, Yields(s, t), NEW a \in Streams, NEW b \in Streams
  PROVE  Yields(Cat(a, Cat(s, b)), Cat(a, Cat(t, b)))
<1>1. s \in Streams /\ t \in Streams
  BY DEF Yields
<1>2. Cat(a, Cat(s, b)) \in Streams /\ Cat(a, Cat(t, b)) \in Streams
  BY <1>1, CatType
<1>3. ASSUME NEW e \in Machines, NEW w \in Streams, NEW v \in Streams
      PROVE  Follows(e, Cat(w, Cat(Cat(a, Cat(s, b)), v)), Cat(w, Cat(Cat(a, Cat(t, b)), v)))
  <2>1. Cat(w, a) \in Streams /\ Cat(b, v) \in Streams
    BY CatType
  <2>2. Follows(e, Cat(Cat(w, a), Cat(s, Cat(b, v))), Cat(Cat(w, a), Cat(t, Cat(b, v))))
    BY <2>1 DEF Yields, Cat
  <2>3. ASSUME NEW u \in Streams
        PROVE  Cat(w, Cat(Cat(a, Cat(u, b)), v)) = Cat(Cat(w, a), Cat(u, Cat(b, v)))
    <3>1. Cat(u, b) \in Streams /\ Cat(Cat(u, b), v) \in Streams
      BY CatType
    <3>2. Cat(Cat(a, Cat(u, b)), v) = Cat(a, Cat(Cat(u, b), v))
      BY <3>1, CatAssoc
    <3>3. Cat(Cat(u, b), v) = Cat(u, Cat(b, v))
      BY CatAssoc
    <3>4. Cat(w, Cat(a, Cat(Cat(u, b), v))) = Cat(Cat(w, a), Cat(Cat(u, b), v))
      BY <3>1, CatAssoc
    <3> QED
      BY <3>2, <3>3, <3>4
  <2> QED
    BY <1>1, <2>2, <2>3
<1> QED
  BY <1>2, <1>3 DEF Yields, Cat

LEMMA CatEmpty == \A s \in Streams : Cat(s, <<>>) = s /\ Cat(<<>>, s) = s
  BY TextEmpty DEF Cat

LEMMA YieldsBefore ==
  ASSUME NEW s, NEW t, Yields(s, t), NEW b \in Streams
  PROVE  Yields(s \o b, t \o b)
<1>1. s \in Streams /\ t \in Streams /\ <<>> \in Streams
  BY DEF Yields, Streams
<1>2. Yields(Cat(<<>>, Cat(s, b)), Cat(<<>>, Cat(t, b)))
  BY <1>1, YieldsAt
<1>3. Cat(s, b) \in Streams /\ Cat(t, b) \in Streams
  BY <1>1, CatType
<1>4. Yields(Cat(s, b), Cat(t, b))
  BY <1>2, <1>3, CatEmpty
<1> QED
  BY <1>4 DEF Cat

LEMMA YieldsAfter ==
  ASSUME NEW s, NEW t, Yields(s, t), NEW a \in Streams
  PROVE  Yields(a \o s, a \o t)
<1>1. s \in Streams /\ t \in Streams /\ <<>> \in Streams
  BY DEF Yields, Streams
<1>2. Yields(Cat(a, Cat(s, <<>>)), Cat(a, Cat(t, <<>>)))
  BY <1>1, YieldsAt
<1>3. Cat(s, <<>>) = s /\ Cat(t, <<>>) = t
  BY <1>1, CatEmpty
<1> QED
  BY <1>2, <1>3 DEF Cat

LEMMA YieldsLocal ==
  ASSUME NEW p \in Streams, NEW q \in Streams, \A e \in Machines : Local(e, p, q)
  PROVE  Yields(p, q)
  BY LocalFollows DEF Yields

LEMMA YieldsPair ==
  ASSUME NEW a, NEW b, <<a, b>> \in Cancelling
  PROVE  Yields(<<a>> \o <<b>>, <<>>)
<1>1. \A e \in Machines : Local(e, <<a>> \o <<b>>, <<>>)
  BY PairLocal
<1>2. <<a>> \o <<b>> \in Streams /\ <<>> \in Streams
  <2>1. <<a>> \in Streams /\ <<b>> \in Streams /\ <<>> \in Streams
    BY CancellingKinds DEF Streams
  <2> QED
    BY <2>1, TextJoined
<1> DEFINE p == <<a>> \o <<b>>
<1> HIDE DEF p
<1>3. Yields(p, <<>>)
  BY <1>1, <1>2, YieldsLocal DEF p
<1> QED
  BY <1>3 DEF p

LEMMA YieldsNest == Yields(NestLoop, ClearLoop)
<1>1. <<>> \in Streams
  BY DEF Streams
<1> QED
  BY <1>1, NestText, ClearText, NestLocal, YieldsLocal
-----------------------------------------------------------------------------
(* Runs of characters.                                                     *)

LEMMA RunText ==
  ASSUME NEW c \in Ops, NEW n \in Nat
  PROVE  Run(c, n) \in Streams
  BY RunType DEF Streams

LEMMA RunEnds ==
  ASSUME NEW c \in Ops, NEW n \in Nat
  PROVE  /\ Run(c, n + 1) = Cat(Run(c, n), <<c>>) /\ Run(c, n + 1) = Cat(<<c>>, Run(c, n))
         /\ <<c>> \in Streams /\ Run(c, n) \in Streams /\ Run(c, n + 1) \in Streams
<1>1. Run(c, n + 1) = Run(c, n) \o Run(c, 1)
  BY RunSplit
<1>2. Run(c, n + 1) = Run(c, 1) \o Run(c, n)
  <2>1. Run(c, 1 + n) = Run(c, 1) \o Run(c, n)
    BY RunSplit
  <2>2. 1 + n = n + 1
    OBVIOUS
  <2> QED
    BY <2>1, <2>2
<1>3. Run(c, 1) = <<c>>
  BY RunUnit
<1>4. Run(c, n) \in Streams /\ Run(c, n + 1) \in Streams
  BY RunText
<1>5. <<c>> \in Streams
  BY DEF Streams
<1> QED
  BY <1>1, <1>2, <1>3, <1>4, <1>5 DEF Cat

LEMMA YieldsEqualRuns ==
  ASSUME NEW d, NEW c, <<d, c>> \in Cancelling
  PROVE  \A n \in Nat : Yields(Cat(Run(d, n), Run(c, n)), <<>>)
<1> DEFINE T == {n \in Nat : Yields(Cat(Run(d, n), Run(c, n)), <<>>)}
<1>0. d \in Ops /\ c \in Ops /\ <<>> \in Streams
  BY CancellingKinds DEF Streams
<1>1. 0 \in T
  <2>1. Run(d, 0) = <<>> /\ Run(c, 0) = <<>>
    BY RunUnit
  <2>2. Cat(<<>>, <<>>) = <<>>
    BY <1>0, CatEmpty
  <2>3. Yields(Cat(Run(d, 0), Run(c, 0)), <<>>)
    BY <1>0, <2>1, <2>2, YieldsRefl
  <2> QED
    BY <2>3
<1>2. ASSUME NEW n \in T PROVE n + 1 \in T
  <2> DEFINE a == Run(d, n)
             b == Run(c, n)
             p == Cat(<<d>>, <<c>>)
  <2>1. n \in Nat /\ Yields(Cat(a, b), <<>>)
    OBVIOUS
  <2>2. /\ a \in Streams /\ b \in Streams /\ <<d>> \in Streams /\ <<c>> \in Streams
        /\ Run(d, n + 1) = Cat(a, <<d>>) /\ Run(c, n + 1) = Cat(<<c>>, b)
    BY <1>0, <2>1, RunEnds
  <2>3. Yields(p, <<>>)
    BY YieldsPair DEF Cat
  <2> HIDE DEF a, b
  <2>4. Yields(Cat(a, Cat(p, b)), Cat(a, Cat(<<>>, b)))
    BY <2>2, <2>3, YieldsAt
  <2>5. Cat(Cat(a, <<d>>), Cat(<<c>>, b)) = Cat(a, Cat(p, b))
    <3>1. Cat(<<c>>, b) \in Streams
      BY <2>2, CatType
    <3>2. Cat(Cat(a, <<d>>), Cat(<<c>>, b)) = Cat(a, Cat(<<d>>, Cat(<<c>>, b)))
      BY <2>2, <3>1, CatAssoc
    <3>3. Cat(<<d>>, Cat(<<c>>, b)) = Cat(p, b)
      BY <2>2, CatAssoc
    <3> QED
      BY <3>2, <3>3
  <2>6. Cat(<<>>, b) = b
    BY <2>2, CatEmpty
  <2>7. Yields(Cat(Run(d, n + 1), Run(c, n + 1)), Cat(a, b))
    BY <2>2, <2>4, <2>5, <2>6
  <2>8. Yields(Cat(Run(d, n + 1), Run(c, n + 1)), <<>>)
    BY <2>1, <2>7, YieldsTrans
  <2> QED
    BY <2>1, <2>8
<1>3. Nat \subseteq T
  <2> HIDE DEF T
  <2> QED
    BY <1>1, <1>2, SetInduction
<1> QED
  BY <1>3

\* Of two opposite runs, the longer one is left, shortened by the other.
LEMMA YieldsRuns ==
  ASSUME NEW d, NEW c, <<d, c>> \in Cancelling, NEW m \in Nat, NEW n \in Nat
  PROVE  /\ m >= n => Yields(Run(d, m) \o Run(c, n), Run(d, m - n))
         /\ n >= m => Yields(Run(d, m) \o Run(c, n), Run(c, n - m))
<1>0. d \in Ops /\ c \in Ops /\ <<>> \in Streams
  BY CancellingKinds DEF Streams
<1>1. CASE m >= n
  <2> DEFINE a == Run(d, m - n)
             b == Run(d, n)
             r == Run(c, n)
  <2>1. m - n \in Nat /\ (m - n) + n = m
    BY <1>1
  <2>2. Run(d, m) = Cat(a, b)
    <3>1. Run(d, (m - n) + n) = Run(d, m - n) \o Run(d, n)
      BY <2>1, RunSplit
    <3> QED
      BY <2>1, <3>1 DEF Cat
  <2>3. a \in Streams /\ b \in Streams /\ r \in Streams
    BY <1>0, <2>1, RunText
  <2>4. Yields(Cat(b, r), <<>>)
    BY YieldsEqualRuns
  <2> HIDE DEF a, b, r
  <2>5. Yields(Cat(a, Cat(Cat(b, r), <<>>)), Cat(a, Cat(<<>>, <<>>)))
    BY <1>0, <2>3, <2>4, YieldsAt
  <2>6. Cat(Cat(b, r), <<>>) = Cat(b, r) /\ Cat(a, Cat(<<>>, <<>>)) = a
    <3>1. Cat(b, r) \in Streams
      BY <2>3, CatType
    <3>2. Cat(<<>>, <<>>) = <<>> /\ Cat(a, <<>>) = a
      BY <1>0, <2>3, CatEmpty
    <3> QED
      BY <3>1, <3>2, CatEmpty
  <2>7. Cat(a, Cat(b, r)) = Cat(Cat(a, b), r)
    BY <2>3, CatAssoc
  <2>8. Yields(Cat(Run(d, m), r), a)
    BY <2>2, <2>5, <2>6, <2>7
  <2>9. Yields(Run(d, m) \o Run(c, n), Run(d, m - n))
    BY <2>8 DEF a, r, Cat
  <2>10. n >= m => m - n = 0 /\ n - m = 0
    BY <1>1
  <2>11. n >= m => Run(d, m - n) = Run(c, n - m)
    BY <2>10, RunUnit
  <2> QED
    BY <2>9, <2>11
<1>2. CASE ~(m >= n)
  <2> DEFINE a == Run(c, n - m)
             b == Run(c, m)
             r == Run(d, m)
  <2>1. n - m \in Nat /\ m + (n - m) = n
    BY <1>2
  <2>2. Run(c, n) = Cat(b, a)
    <3>1. Run(c, m + (n - m)) = Run(c, m) \o Run(c, n - m)
      BY <2>1, RunSplit
    <3> QED
      BY <2>1, <3>1 DEF Cat
  <2>3. a \in Streams /\ b \in Streams /\ r \in Streams
    BY <1>0, <2>1, RunText
  <2>4. Yields(Cat(r, b), <<>>)
    BY YieldsEqualRuns
  <2> HIDE DEF a, b, r
  <2>5. Yields(Cat(<<>>, Cat(Cat(r, b), a)), Cat(<<>>, Cat(<<>>, a)))
    BY <1>0, <2>3, <2>4, YieldsAt
  <2>6. Cat(<<>>, Cat(Cat(r, b), a)) = Cat(Cat(r, b), a) /\ Cat(<<>>, Cat(<<>>, a)) = a
    <3>1. Cat(Cat(r, b), a) \in Streams
      BY <2>3, CatType
    <3>2. Cat(<<>>, a) = a
      BY <2>3, CatEmpty
    <3> QED
      BY <3>1, <3>2, CatEmpty
  <2>7. Cat(Cat(r, b), a) = Cat(r, Cat(b, a))
    BY <2>3, CatAssoc
  <2>8. Yields(Cat(r, Run(c, n)), a)
    BY <2>2, <2>5, <2>6, <2>7
  <2>9. Yields(Run(d, m) \o Run(c, n), Run(c, n - m))
    BY <2>8 DEF a, r, Cat
  <2> QED
    BY <1>2, <2>9
<1> QED
  BY <1>1, <1>2

\* Loops around nothing but the loop that clears a cell.
LEMMA YieldsNests ==
  \A n \in Nat : Yields(Cat(Run("[", n + 1), Cat(<<"-">>, Run("]", n + 1))), ClearLoop)
<1> DEFINE R(n) == Cat(Run("[", n + 1), Cat(<<"-">>, Run("]", n + 1)))
           T == {n \in Nat : Yields(R(n), ClearLoop)}
           o == <<"[">>
           m == <<"-">>
           c == <<"]">>
<1>0. "[" \in Ops /\ "]" \in Ops /\ "-" \in Ops /\ <<>> \in Streams
  BY DEF Ops, CoreOps, Streams
<1>1. o \in Streams /\ m \in Streams /\ c \in Streams
  BY <1>0 DEF Streams
<1>2. ClearLoop \in Streams /\ NestLoop = Cat(o, Cat(ClearLoop, c)) /\ ClearLoop = Cat(o, Cat(m, c))
  BY <1>0, ClearText DEF NestLoop, ClearLoop, Cat
<1>3. 0 \in T
  <2>1. Run("[", 1) = o /\ Run("]", 1) = c /\ 0 + 1 = 1
    BY RunUnit
  <2>2. R(0) = ClearLoop
    BY <1>2, <2>1
  <2> HIDE DEF R
  <2> QED
    BY <1>2, <2>2, YieldsRefl
<1>4. ASSUME NEW n \in T PROVE n + 1 \in T
  <2> DEFINE a == Run("[", n + 1)
             b == Run("]", n + 1)
  <2>1. n \in Nat /\ n + 1 \in Nat /\ Yields(Cat(a, Cat(m, b)), ClearLoop)
    OBVIOUS
  <2>2. /\ a \in Streams /\ b \in Streams
        /\ Run("[", (n + 1) + 1) = Cat(o, a) /\ Run("]", (n + 1) + 1) = Cat(b, c)
    BY <1>0, <2>1, RunEnds
  <2> HIDE DEF a, b, o, m, c
  <2>3. Yields(Cat(o, Cat(Cat(a, Cat(m, b)), c)), Cat(o, Cat(ClearLoop, c)))
    BY <1>1, <2>1, YieldsAt
  <2>4. Cat(Cat(o, a), Cat(m, Cat(b, c))) = Cat(o, Cat(Cat(a, Cat(m, b)), c))
    <3>1. Cat(b, c) \in Streams /\ Cat(m, b) \in Streams /\ Cat(m, Cat(b, c)) \in Streams
      BY <1>1, <2>2, CatType
    <3>2. Cat(Cat(a, Cat(m, b)), c) = Cat(a, Cat(Cat(m, b), c)) /\ Cat(Cat(m, b), c) = Cat(m, Cat(b, c))
      BY <1>1, <2>2, <3>1, CatAssoc
    <3>3. Cat(Cat(o, a), Cat(m, Cat(b, c))) = Cat(o, Cat(a, Cat(m, Cat(b, c))))
      BY <1>1, <2>2, <3>1, CatAssoc
    <3> QED
      BY <3>2, <3>3
  <2>5. Yields(Cat(Cat(o, a), Cat(m, Cat(b, c))), NestLoop)
    BY <1>2, <2>3, <2>4
  <2>6. Yields(Cat(Cat(o, a), Cat(m, Cat(b, c))), ClearLoop)
    BY <2>5, YieldsNest, YieldsTrans
  <2>7. R(n + 1) = Cat(Cat(o, a), Cat(m, Cat(b, c)))
    BY <2>2 DEF m
  <2> HIDE DEF R
  <2> QED
    BY <2>1, <2>6, <2>7
<1>5. Nat \subseteq T
  <2> HIDE DEF T
  <2> QED
    BY <1>3, <1>4, SetInduction
<1> QED
  BY <1>5

-----------------------------------------------------------------------------
(* What the tokens spell.                                                  *)

LEMMA WeightOf ==
  ASSUME NEW t \in Token
  PROVE  /\ t.op \in Ops /\ t.len \in Nat
         /\ t.op = "[" => Weight(t) = t.len
         /\ t.op = "]" => Weight(t) = 0 - t.len
         /\ t.op \notin {"[", "]"} => Weight(t) = 0
         /\ t.len = 0 => Weight(t) = 0
  BY DEF Weight, Token

\* Tuples, built one element at a time.
LEMMA Tuples ==
  ASSUME NEW C, NEW a \in C, NEW b \in C, NEW c \in C, NEW d \in C
  PROVE  /\ <<a, b>> = Append(<<a>>, b)
         /\ <<a, b, c>> = Append(<<a, b>>, c)
         /\ <<a, b, c, d>> = Append(<<a, b, c>>, d)
         /\ <<a>> \in Seq(C) /\ <<a, b>> \in Seq(C) /\ <<a, b, c>> \in Seq(C)
         /\ <<a, b, c, d>> \in Seq(C)
<1>1. <<a, b>> = Append(<<a>>, b)
  <2> DEFINE r == <<a>>
             s == <<a, b>>
             t == Append(r, b)
  <2>1. r \in Seq(C) /\ Len(r) = 1 /\ s \in Seq(C) /\ Len(s) = 2
    OBVIOUS
  <2>2. s[1] = a /\ s[2] = b
        /\ r[1] = a
    OBVIOUS
  <2> HIDE DEF r, s
  <2>a. r \in Seq(C)
    BY <2>1
  <2>b. /\ t \in Seq(C) /\ Len(t) = Len(r) + 1 /\ t[Len(r) + 1] = b
        /\ \A k \in 1 .. Len(r) : t[k] = r[k]
    BY ONLY <2>a, b \in C, AppendProperties
  <2> HIDE DEF t
  <2>3. t \in Seq(C) /\ Len(t) = 2 /\ t[2] = b /\ \A k \in 1 .. 1 : t[k] = r[k]
    BY <2>1, <2>b
  <2>4. \A k \in 1 .. 2 : k = 1 \/ k = 2
    OBVIOUS
  <2>5. 1 \in 1 .. 1
    OBVIOUS
  <2>6. \A k \in 1 .. 2 : s[k] = t[k]
    BY <2>2, <2>3, <2>4, <2>5
  <2>7. s = t
    BY <2>1, <2>3, <2>6, SeqEqual
  <2> QED
    BY <2>7 DEF r, s, t
<1>2. <<a, b, c>> = Append(<<a, b>>, c)
  <2> DEFINE r == <<a, b>>
             s == <<a, b, c>>
             t == Append(r, c)
  <2>1. r \in Seq(C) /\ Len(r) = 2 /\ s \in Seq(C) /\ Len(s) = 3
    OBVIOUS
  <2>2. s[1] = a /\ s[2] = b /\ s[3] = c
        /\ r[1] = a /\ r[2] = b
    OBVIOUS
  <2> HIDE DEF r, s
  <2>a. r \in Seq(C)
    BY <2>1
  <2>b. /\ t \in Seq(C) /\ Len(t) = Len(r) + 1 /\ t[Len(r) + 1] = c
        /\ \A k \in 1 .. Len(r) : t[k] = r[k]
    BY ONLY <2>a, c \in C, AppendProperties
  <2> HIDE DEF t
  <2>3. t \in Seq(C) /\ Len(t) = 3 /\ t[3] = c /\ \A k \in 1 .. 2 : t[k] = r[k]
    BY <2>1, <2>b
  <2>4. \A k \in 1 .. 3 : k = 1 \/ k = 2 \/ k = 3
    OBVIOUS
  <2>5. 1 \in 1 .. 2 /\ 2 \in 1 .. 2
    OBVIOUS
  <2>6. \A k \in 1 .. 3 : s[k] = t[k]
    BY <2>2, <2>3, <2>4, <2>5
  <2>7. s = t
    BY <2>1, <2>3, <2>6, SeqEqual
  <2> QED
    BY <2>7 DEF r, s, t
<1>3. <<a, b, c, d>> = Append(<<a, b, c>>, d)
  <2> DEFINE r == <<a, b, c>>
             s == <<a, b, c, d>>
             t == Append(r, d)
  <2>1. r \in Seq(C) /\ Len(r) = 3 /\ s \in Seq(C) /\ Len(s) = 4
    OBVIOUS
  <2>2. s[1] = a /\ s[2] = b /\ s[3] = c /\ s[4] = d
        /\ r[1] = a /\ r[2] = b /\ r[3] = c
    OBVIOUS
  <2> HIDE DEF r, s
  <2>a. r \in Seq(C)
    BY <2>1
  <2>b. /\ t \in Seq(C) /\ Len(t) = Len(r) + 1 /\ t[Len(r) + 1] = d
        /\ \A k \in 1 .. Len(r) : t[k] = r[k]
    BY ONLY <2>a, d \in C, AppendProperties
  <2> HIDE DEF t
  <2>3. t \in Seq(C) /\ Len(t) = 4 /\ t[4] = d /\ \A k \in 1 .. 3 : t[k] = r[k]
    BY <2>1, <2>b
  <2>4. \A k \in 1 .. 4 : k = 1 \/ k = 2 \/ k = 3 \/ k = 4
    OBVIOUS
  <2>5. 1 \in 1 .. 3 /\ 2 \in 1 .. 3 /\ 3 \in 1 .. 3
    OBVIOUS
  <2>6. \A k \in 1 .. 4 : s[k] = t[k]
    BY <2>2, <2>3, <2>4, <2>5
  <2>7. s = t
    BY <2>1, <2>3, <2>6, SeqEqual
  <2> QED
    BY <2>7 DEF r, s, t
<1> QED
  BY <1>1, <1>2, <1>3

LEMMA ConcatAppend ==
  ASSUME NEW C, NEW r \in Seq(C), NEW u \in Seq(C), NEW e \in C
  PROVE  /\ r \o Append(u, e) = Append(r \o u, e)
         /\ r \o u \in Seq(C) /\ Append(u, e) \in Seq(C)
<1>1. <<e>> \in Seq(C) /\ r \o u \in Seq(C)
  BY ConcatProperties
<1>2. Append(u, e) = u \o <<e>> /\ Append(r \o u, e) = (r \o u) \o <<e>>
  BY <1>1, AppendIsConcat
<1> QED
  BY <1>1, <1>2, ConcatAssociative

\* The elements of a tuple go to the end of a sequence in turn.
LEMMA ConcatTuple ==
  ASSUME NEW C, NEW v \in Seq(C), NEW a \in C, NEW b \in C, NEW c \in C, NEW d \in C
  PROVE  /\ v \o <<a>> = Append(v, a)
         /\ v \o <<a, b>> = Append(Append(v, a), b)
         /\ v \o <<a, b, c>> = Append(Append(Append(v, a), b), c)
         /\ v \o <<a, b, c, d>> = Append(Append(Append(Append(v, a), b), c), d)
         /\ Append(v, a) \in Seq(C)
<1>1. /\ <<a, b>> = Append(<<a>>, b)
      /\ <<a, b, c>> = Append(<<a, b>>, c)
      /\ <<a, b, c, d>> = Append(<<a, b, c>>, d)
  BY Tuples
<1> DEFINE r == <<a>>
           s == <<a, b>>
           t == <<a, b, c>>
<1>2. r \in Seq(C) /\ s \in Seq(C) /\ t \in Seq(C)
  BY Tuples
<1>3. v \o r = Append(v, a)
  BY AppendIsConcat
<1> HIDE DEF r, s, t
<1>4. v \o Append(r, b) = Append(v \o r, b)
  BY ONLY v \in Seq(C), b \in C, <1>2, ConcatAppend
<1>5. v \o Append(s, c) = Append(v \o s, c)
  BY ONLY v \in Seq(C), c \in C, <1>2, ConcatAppend
<1>6. v \o Append(t, d) = Append(v \o t, d)
  BY ONLY v \in Seq(C), d \in C, <1>2, ConcatAppend
<1>7. Append(v, a) \in Seq(C)
  BY AppendProperties
<1> QED
  BY <1>1, <1>3, <1>4, <1>5, <1>6, <1>7 DEF r, s, t

\* The loop that Z stands for.
ZL == <<"[", "-", "]">>

\* The body of [->+<].
Body == <<"-", ">", "+", "<">>
Steps(n) == [k \in 1 .. 2 * n |-> IF k % 2 = 1 THEN ">" ELSE "+"]

LEMMA OpsKnown ==
  /\ \A c \in {"[", "]", "-", "+", ">", "<"} : c \in Ops
  /\ ZL \in Seq(Ops) /\ Len(ZL) = 3 /\ ZL[1] = "[" /\ ZL[2] = "-" /\ ZL[3] = "]"
<1>1. \A c \in {"[", "]", "-", "+", ">", "<"} : c \in Ops
  BY DEF Ops, CoreOps
<1>2. ZL \in Seq(Ops) /\ Len(ZL) = 3 /\ ZL[1] = "[" /\ ZL[2] = "-" /\ ZL[3] = "]"
  BY <1>1 DEF ZL
<1> QED
  BY <1>1, <1>2

LEMMA MeaningPlain ==
  ASSUME NEW t \in Token, t.op \notin {"Z", "A", "S", "M"}
  PROVE  Meaning(t) = Run(t.op, t.len)
<1>1. Meaning(t) = Unfold(t)
  BY DEF Meaning
<1> QED
  BY <1>1, UnfoldIsRun

LEMMA MeaningAssigned ==
  ASSUME NEW t \in Token
  PROVE  /\ t.op = "Z" => Meaning(t) = ZL
         /\ t.op = "A" => Meaning(t) = ZL \o Run("+", t.len)
         /\ t.op = "S" => Meaning(t) = ZL \o Run("-", t.len)
  BY DEF Meaning, ZL, Run

LEMMA MeaningMove ==
  ASSUME NEW t \in Token, t.op = "M"
  PROVE  /\ Meaning(t) = ((<<"[", "-">> \o Steps(t.len)) \o Run("<", t.len)) \o <<"]">>
         /\ Steps(t.len) \in Seq(Ops) /\ Run("<", t.len) \in Seq(Ops)
<1>0. t.len \in Nat /\ \A c \in {"[", "]", "-", "+", ">", "<"} : c \in Ops
  BY WeightOf, OpsKnown
<1>1. Meaning(t) = ((<<"[", "-">> \o Steps(t.len)) \o Run("<", t.len)) \o <<"]">>
  BY DEF Meaning, Steps, Run
<1>2. Run("<", t.len) \in Seq(Ops)
  BY <1>0, RunType
<1>3. Steps(t.len) \in Seq(Ops)
  <2>1. 2 * t.len \in Nat
    BY <1>0
  <2> QED
    BY <2>1, <1>0 DEF Steps
<1> QED
  BY <1>1, <1>2, <1>3

LEMMA MeaningType ==
  ASSUME NEW t \in Token
  PROVE  Meaning(t) \in Seq(Ops)
<1>0. t.len \in Nat /\ t.op \in Ops /\ \A c \in {"[", "]", "-", "+", ">", "<"} : c \in Ops
  BY WeightOf, OpsKnown
<1>1. CASE t.op \notin {"Z", "A", "S", "M"}
  BY <1>0, <1>1, MeaningPlain, RunType
<1>2. CASE t.op = "Z"
  BY <1>2, MeaningAssigned, OpsKnown
<1>3. ASSUME NEW o \in Ops, Meaning(t) = ZL \o Run(o, t.len) PROVE Meaning(t) \in Seq(Ops)
  <2>1. Run(o, t.len) \in Seq(Ops) /\ ZL \in Seq(Ops)
    BY <1>0, RunType, OpsKnown
  <2> QED
    BY <1>3, <2>1, ConcatProperties
<1>4. CASE t.op \in {"A", "S"}
  BY <1>0, <1>3, <1>4, MeaningAssigned
<1>5. CASE t.op = "M"
  <2> DEFINE a == <<"[", "-">>
             b == Steps(t.len)
             c == Run("<", t.len)
             d == <<"]">>
  <2>1. a \in Seq(Ops) /\ d \in Seq(Ops)
    BY <1>0
  <2>2. b \in Seq(Ops) /\ c \in Seq(Ops) /\ Meaning(t) = ((a \o b) \o c) \o d
    BY <1>5, MeaningMove
  <2> HIDE DEF a, b, c, d
  <2>3. a \o b \in Seq(Ops)
    BY ONLY <2>1, <2>2, ConcatProperties
  <2>4. (a \o b) \o c \in Seq(Ops)
    BY ONLY <2>2, <2>3, ConcatProperties
  <2>5. ((a \o b) \o c) \o d \in Seq(Ops)
    BY ONLY <2>1, <2>4, ConcatProperties
  <2> QED
    BY <2>2, <2>5
<1> QED
  BY <1>1, <1>2, <1>4, <1>5

\* Moving to the next cell is its loop.
LEMMA MoveOnce ==
  ASSUME NEW t \in Token, t.op = "M", t.len = 1
  PROVE  Meaning(t) = (<<"[">> \o Body) \o <<"]">> /\ Body \in Seq(Ops)
<1>0. \A c \in {"[", "]", "-", "+", ">", "<"} : c \in Ops
  BY OpsKnown
<1>1. Meaning(t) = ((<<"[", "-">> \o Steps(1)) \o Run("<", 1)) \o <<"]">>
  BY MeaningMove
<1>2. Run("<", 1) = <<"<">>
  BY RunUnit
<1>3. Steps(1) = <<">", "+">>
  <2> DEFINE f == Steps(1)
             g == <<">", "+">>
  <2>1. f \in Seq(Ops) /\ Len(f) = 2
    BY <1>0 DEF Steps
  <2>2. f[1] = ">" /\ f[2] = "+"
    BY DEF Steps
  <2>3. g \in Seq(Ops) /\ Len(g) = 2 /\ g[1] = ">" /\ g[2] = "+"
    BY <1>0
  <2> HIDE DEF f, g
  <2>4. \A k \in 1 .. 2 : k = 1 \/ k = 2
    OBVIOUS
  <2>5. \A k \in 1 .. 2 : f[k] = g[k]
    BY <2>2, <2>3, <2>4
  <2>6. f = g
    BY ONLY <2>1, <2>3, <2>5, SeqEqual
  <2> QED
    BY <2>6 DEF f, g
<1>4. <<"[">> \in Seq(Ops) /\ <<"[", "-">> \in Seq(Ops) /\ <<"[", "-">> = Append(<<"[">>, "-")
  BY <1>0, Tuples
<1> DEFINE a == <<"[">>
           b == Append(a, "-")
<1>5. a \in Seq(Ops) /\ b \in Seq(Ops)
  BY <1>4
<1> HIDE DEF a
<1>6. a \o Body = Append(Append(Append(b, ">"), "+"), "<")
  BY ONLY <1>0, <1>5, ConcatTuple DEF Body
<1> HIDE DEF b
<1>7. b \o <<">", "+">> = Append(Append(b, ">"), "+") /\ Append(b, ">") \in Seq(Ops)
  BY ONLY <1>0, <1>5, ConcatTuple
<1>8. Append(Append(b, ">"), "+") \in Seq(Ops)
  BY ONLY <1>0, <1>7, AppendProperties
<1>9. Append(Append(b, ">"), "+") \o <<"<">> = Append(Append(Append(b, ">"), "+"), "<")
  <2> DEFINE c == Append(Append(b, ">"), "+")
  <2>1. c \in Seq(Ops) /\ "<" \in Ops
    BY <1>0, <1>8
  <2> HIDE DEF c
  <2>2. c \o <<"<">> = Append(c, "<")
    BY ONLY <2>1, AppendIsConcat
  <2> QED
    BY <2>2 DEF c
<1>10. Body \in Seq(Ops)
  BY <1>0, Tuples DEF Body
<1> QED
  BY <1>1, <1>2, <1>3, <1>4, <1>6, <1>7, <1>9, <1>10 DEF a, b

LEMMA SpelledType ==
  ASSUME NEW ts \in Seq(Token)
  PROVE  /\ [k \in DOMAIN ts |-> Meaning(ts[k])] \in Seq(Seq(Ops))
         /\ Len([k \in DOMAIN ts |-> Meaning(ts[k])]) = Len(ts)
         /\ \A k \in 1 .. Len(ts) : [j \in DOMAIN ts |-> Meaning(ts[j])][k] = Meaning(ts[k])
         /\ Spelled(ts) \in Seq(Ops)
<1>1. \A k \in 1 .. Len(ts) : Meaning(ts[k]) \in Seq(Ops)
  BY MeaningType
<1>2. DOMAIN ts = 1 .. Len(ts) /\ Len(ts) \in Nat
  OBVIOUS
<1>3. /\ [k \in DOMAIN ts |-> Meaning(ts[k])] \in Seq(Seq(Ops))
      /\ Len([k \in DOMAIN ts |-> Meaning(ts[k])]) = Len(ts)
      /\ \A k \in 1 .. Len(ts) : [j \in DOMAIN ts |-> Meaning(ts[j])][k] = Meaning(ts[k])
  BY <1>1, <1>2
<1> QED
  BY <1>3, FlattenType DEF Spelled

LEMMA SpelledEmpty == Spelled(<<>>) = <<>>
<1>1. [k \in DOMAIN <<>> |-> Meaning(<<>>[k])] = <<>>
  <2>1. <<>> \in Seq(Token)
    OBVIOUS
  <2> QED
    BY <2>1, SpelledType
<1> QED
  BY <1>1, FlattenEmpty DEF Spelled

LEMMA SpelledAppend ==
  ASSUME NEW ts \in Seq(Token), NEW t \in Token
  PROVE  Spelled(Append(ts, t)) = Spelled(ts) \o Meaning(t)
<1> DEFINE us == Append(ts, t)
           U(x) == [k \in DOMAIN x |-> Meaning(x[k])]
<1>1. us \in Seq(Token) /\ Len(us) = Len(ts) + 1 /\ us[Len(ts) + 1] = t
      /\ \A k \in 1 .. Len(ts) : us[k] = ts[k]
  BY AppendProperties
<1>2. Meaning(t) \in Seq(Ops)
  BY MeaningType
<1>3. U(ts) \in Seq(Seq(Ops)) /\ Len(U(ts)) = Len(ts)
      /\ \A k \in 1 .. Len(ts) : U(ts)[k] = Meaning(ts[k])
  BY SpelledType
<1>4. U(us) \in Seq(Seq(Ops)) /\ Len(U(us)) = Len(us)
      /\ \A k \in 1 .. Len(us) : U(us)[k] = Meaning(us[k])
  <2> HIDE DEF us
  <2> QED
    BY <1>1, SpelledType
<1>5. U(us) = Append(U(ts), Meaning(t))
  <2> DEFINE a == U(us)
             b == U(ts)
             c == Append(b, Meaning(t))
             n == Len(ts)
  <2>0. n \in Nat /\ Len(a) = n + 1 /\ Len(b) = n /\ a \in Seq(Seq(Ops)) /\ b \in Seq(Seq(Ops))
    BY <1>1, <1>3, <1>4
  <2>1. \A k \in 1 .. n : a[k] = Meaning(ts[k]) /\ b[k] = Meaning(ts[k])
    <3> SUFFICES ASSUME NEW k \in 1 .. n PROVE a[k] = Meaning(ts[k]) /\ b[k] = Meaning(ts[k])
      OBVIOUS
    <3>1. k \in 1 .. Len(us) /\ us[k] = ts[k]
      BY <1>1
    <3> HIDE DEF us, U
    <3> QED
      BY <3>1, <1>3, <1>4
  <2>2. a[n + 1] = Meaning(t)
    <3>1. n + 1 \in 1 .. Len(us) /\ us[n + 1] = t
      BY <1>1
    <3> HIDE DEF us, U, n
    <3> QED
      BY <3>1, <1>4
  <2> HIDE DEF a, b, n
  <2>3. c \in Seq(Seq(Ops)) /\ Len(c) = n + 1 /\ c[n + 1] = Meaning(t)
        /\ \A k \in 1 .. n : c[k] = b[k]
    BY <2>0, <1>2, AppendProperties
  <2> HIDE DEF c
  <2>4. \A k \in 1 .. Len(a) : a[k] = c[k]
    BY <2>0, <2>1, <2>2, <2>3
  <2>5. Len(a) = Len(c)
    BY <2>0, <2>3
  <2>6. a = c
    BY ONLY <2>0, <2>3, <2>4, <2>5, SeqEqual
  <2> QED
    BY <2>6 DEF a, b, c
<1> QED
  BY <1>2, <1>3, <1>5, FlattenAppend DEF Spelled

LEMMA AppendedOp ==
  ASSUME NEW s \in Seq(Ops), NEW c \in Ops
  PROVE  /\ Append(s, c) \in Seq(Ops) /\ Len(Append(s, c)) = Len(s) + 1
         /\ \A k \in 1 .. Len(s) : Append(s, c)[k] = s[k]
         /\ Append(s, c)[Len(s) + 1] = c
<1>1. Append(s, c) \in Seq(Ops) /\ Len(Append(s, c)) = Len(s) + 1
  BY AppendProperties
<1>2. \A k \in 1 .. Len(s) : Append(s, c)[k] = s[k]
  BY AppendProperties
<1>3. Append(s, c)[Len(s) + 1] = c
  BY AppendProperties
<1> QED
  BY <1>1, <1>2, <1>3

LEMMA ClearIsZL == ClearLoop = ZL
<1>1. "[" \in Ops /\ "-" \in Ops /\ "]" \in Ops
  BY OpsKnown
<1>2. <<"[">> \in Seq(Ops) /\ <<"-">> \in Seq(Ops)
  BY <1>1, Tuples
<1>3. <<"-">> \o <<"]">> = <<"-", "]">>
  <2>1. <<"-">> \o <<"]">> = Append(<<"-">>, "]")
    BY <1>1, <1>2, ConcatTuple
  <2>2. <<"-", "]">> = Append(<<"-">>, "]")
    BY <1>1, Tuples
  <2> QED
    BY <2>1, <2>2
<1>4. <<"[">> \o <<"-", "]">> = <<"[", "-", "]">>
  <2>1. <<"[">> \o <<"-", "]">> = Append(Append(<<"[">>, "-"), "]")
    BY <1>1, <1>2, ConcatTuple
  <2>2. <<"[", "-">> = Append(<<"[">>, "-") /\ <<"[", "-", "]">> = Append(<<"[", "-">>, "]")
    BY <1>1, Tuples
  <2> QED
    BY <2>1, <2>2
<1> QED
  BY <1>3, <1>4 DEF ClearLoop, ZL

-----------------------------------------------------------------------------
(* Reading what a token stands for.                                        *)

LEMMA Product ==
  ASSUME NEW m \in Nat, NEW k \in Nat
  PROVE  m * k \in Nat
  OBVIOUS

LEMMA Multiples ==
  ASSUME NEW m \in Nat \ {0}, NEW c \in Int, -m < m * c, m * c < m
  PROVE  c = 0
<1>1. CASE c >= 1
  <2> DEFINE k == c - 1
  <2>1. k \in Nat /\ c = k + 1
    BY <1>1
  <2> HIDE DEF k
  <2>2. m * c = m * k + m
    BY <2>1
  <2>3. m * k \in Nat
    BY <2>1, Product
  <2> QED
    BY <2>2, <2>3
<1>2. CASE c <= -1
  <2> DEFINE k == (-1) - c
  <2>1. k \in Nat /\ c = (-1) - k
    BY <1>2
  <2> HIDE DEF k
  <2>2. m * c = (-m) - m * k
    BY <2>1
  <2>3. m * k \in Nat
    BY <2>1, Product
  <2> QED
    BY <2>2, <2>3
<1> QED
  BY <1>1, <1>2

\* A remainder taken early does not change the remainder of a sum.
LEMMA ModPeriod ==
  ASSUME NEW m \in Nat \ {0}, NEW x \in Int
  PROVE  (x + m) % m = x % m
<1> DEFINE y == x + m
           a == x \div m
           b == y \div m
           r == x % m
           s == y % m
           c == b - a - 1
<1>1. a \in Int /\ r \in 0 .. m - 1 /\ x = m * a + r
  OBVIOUS
<1>2. b \in Int /\ s \in 0 .. m - 1 /\ y = m * b + s
  <2>1. y \in Int
    OBVIOUS
  <2> HIDE DEF y
  <2> QED
    BY <2>1
<1>3. y = x + m
  OBVIOUS
<1> HIDE DEF y, a, b, r, s
<1>4. m * (b - a - 1) = m * b - m * a - m
  BY <1>1, <1>2
<1>5. m * b \in Int /\ m * a \in Int
  BY <1>1, <1>2
<1>6. m * c = r - s /\ c \in Int
  BY <1>1, <1>2, <1>3, <1>4, <1>5
<1> HIDE DEF c
<1>7. -m < m * c /\ m * c < m
  BY <1>1, <1>2, <1>6
<1>8. c = 0
  BY <1>6, <1>7, Multiples
<1>9. r = s
  BY <1>1, <1>2, <1>6, <1>8
<1> QED
  BY <1>9 DEF r, s, y

LEMMA ModPeriods ==
  ASSUME NEW m \in Nat \ {0}, NEW x \in Int
  PROVE  \A q \in Nat : (x + m * q) % m = x % m /\ (x - m * q) % m = x % m
<1> DEFINE T == {q \in Nat : (x + m * q) % m = x % m /\ (x - m * q) % m = x % m}
<1>1. 0 \in T
  OBVIOUS
<1>2. ASSUME NEW q \in Nat, q \in T PROVE q + 1 \in T
  <2> DEFINE a == m * q
  <2>1. m * (q + 1) = a + m /\ a \in Int
    OBVIOUS
  <2>2. (x + a) % m = x % m /\ (x - a) % m = x % m
    BY <1>2
  <2> HIDE DEF a
  <2> DEFINE u == x + a
             w == x - (a + m)
  <2>u. u \in Int /\ w \in Int
    BY <2>1
  <2> HIDE DEF u, w
  <2>3. (u + m) % m = u % m
    BY <2>u, ModPeriod
  <2>4. (w + m) % m = w % m
    BY <2>u, ModPeriod
  <2> USE DEF u, w
  <2>5. (x - (a + m)) + m = x - a /\ (x + a) + m = x + (a + m)
    BY <2>1
  <2> QED
    BY <2>1, <2>2, <2>3, <2>4, <2>5
<1>3. Nat \subseteq T
  <2> HIDE DEF T
  <2> QED
    BY <1>1, <1>2, SetInduction
<1> QED
  BY <1>3

LEMMA ModLess ==
  ASSUME NEW m \in Nat \ {0}, NEW v \in 0 .. m - 1
  PROVE  v % m = v
  OBVIOUS

LEMMA ModSum ==
  ASSUME NEW m \in Nat \ {0}, NEW x \in Int, NEW y \in Int
  PROVE  ((x % m) + y) % m = (x + y) % m /\ x % m \in 0 .. m - 1
<1> DEFINE r == x % m
           q == x \div m
<1>1. q \in Int /\ r \in 0 .. m - 1 /\ x = m * q + r
  OBVIOUS
<1> HIDE DEF r, q
<1>2. CASE q >= 0
  <2>1. q \in Nat
    BY <1>1, <1>2
  <2> DEFINE u == r + y
  <2>u. u \in Int
    BY <1>1
  <2> HIDE DEF u
  <2>2. (u + m * q) % m = u % m
    BY <2>1, <2>u, ModPeriods
  <2> USE DEF u
  <2>3. (r + y) + m * q = x + y
    BY <1>1
  <2> QED
    BY <1>1, <2>2, <2>3 DEF r
<1>3. CASE q < 0
  <2> DEFINE p == 0 - q
  <2>1. p \in Nat
    BY <1>1, <1>3
  <2> DEFINE u == r + y
  <2>u. u \in Int
    BY <1>1
  <2> HIDE DEF u
  <2>2. (u - m * p) % m = u % m
    BY <2>1, <2>u, ModPeriods
  <2> USE DEF u
  <2>3. (r + y) - m * p = x + y
    BY <1>1
  <2> HIDE DEF p
  <2> QED
    BY <1>1, <2>2, <2>3 DEF r
<1> QED
  BY <1>1, <1>2, <1>3

\* Reading s turns the data d into g, whatever is read next.
Passes(e, s, d, g) ==
  /\ g \in Datas(e)
  /\ \A v \in Streams, l \in Seq(Streams) : \A f :
       Ends(e, Conf(s \o v, l, 0, d), f) => Ends(e, Conf(v, l, 0, g), f)

LEMMA EndsStep ==
  ASSUME NEW e, NEW x, NEW f, Ends(e, x, f), ~Halted(x)
  PROVE  May(e, x) /\ Ends(e, Step(e, x), f)
<1>1. PICK k \in Nat : EndsIn(e, x, f, k)
  BY DEF Ends
<1>2. k # 0
  BY <1>1, EndsFirst
<1>3. May(e, x) /\ EndsIn(e, Step(e, x), f, k - 1) /\ k - 1 \in Nat
  BY <1>1, <1>2, EndsFirst
<1> QED
  BY <1>3 DEF Ends

LEMMA ReadsOn ==
  ASSUME NEW e, NEW c \in Ops, NEW s \in Streams, NEW l, NEW k, NEW d, NEW f,
         Ends(e, Conf(<<c>> \o s, l, k, d), f)
  PROVE  May(e, Conf(<<c>> \o s, l, k, d)) /\ Ends(e, Step(e, Conf(<<c>> \o s, l, k, d)), f)
<1>1. <<c>> \o s # <<>>
  BY TextCons
<1> DEFINE t == <<c>> \o s
<1>2. Conf(t, l, k, d).rest = t
  BY DEF Conf
<1>3. ~Halted(Conf(t, l, k, d))
  BY <1>1, <1>2 DEF Halted
<1> HIDE DEF t
<1>4. Ends(e, Conf(t, l, k, d), f)
  BY DEF t
<1>5. May(e, Conf(t, l, k, d)) /\ Ends(e, Step(e, Conf(t, l, k, d)), f)
  BY <1>3, <1>4, EndsStep
<1> QED
  BY <1>5 DEF t

LEMMA PassesNothing ==
  ASSUME NEW e, NEW d \in Datas(e)
  PROVE  Passes(e, <<>>, d, d)
<1>1. \A v \in Streams : <<>> \o v = v
  BY CatEmpty DEF Cat
<1> QED
  BY <1>1 DEF Passes

LEMMA PassesThen ==
  ASSUME NEW e, NEW s \in Streams, NEW t \in Streams, NEW d, NEW g, NEW h,
         Passes(e, s, d, g), Passes(e, t, g, h)
  PROVE  Passes(e, s \o t, d, h)
<1>1. h \in Datas(e)
  BY DEF Passes
<1>2. ASSUME NEW v \in Streams, NEW l \in Seq(Streams), NEW f,
             Ends(e, Conf((s \o t) \o v, l, 0, d), f)
      PROVE  Ends(e, Conf(v, l, 0, h), f)
  <2>1. (s \o t) \o v = s \o (t \o v) /\ t \o v \in Streams
    BY TextAssoc, TextJoined
  <2>2. Ends(e, Conf(t \o v, l, 0, g), f)
    BY <1>2, <2>1 DEF Passes
  <2> QED
    BY <2>2 DEF Passes
<1> QED
  BY <1>1, <1>2 DEF Passes

LEMMA CharPasses ==
  ASSUME NEW e \in Machines, NEW c \in Ops, c # "[", c # "]", NEW d \in Datas(e),
         c = "<" => e.wrap \/ d.head # 0
  PROVE  Passes(e, <<c>>, d, Obeyed(e, c, d))
<1>1. Obeyed(e, c, d) \in Datas(e)
  BY ObeyedType
<1>2. ASSUME NEW v \in Streams, NEW l \in Seq(Streams), NEW f, Ends(e, Conf(<<c>> \o v, l, 0, d), f)
      PROVE  Ends(e, Conf(v, l, 0, Obeyed(e, c, d)), f)
  <2>1. Ends(e, Step(e, Conf(<<c>> \o v, l, 0, d)), f)
    BY <1>2, ReadsOn
  <2>2. Step(e, Conf(<<c>> \o v, l, 0, d)) = Conf(v, l, 0, Obeyed(e, c, d))
    BY StepPlain
  <2> QED
    BY <2>1, <2>2
<1> QED
  BY <1>1, <1>2 DEF Passes

\* A run of additions adds its length.
LEMMA RunAdds ==
  ASSUME NEW e \in Machines, NEW d \in Datas(e), NEW c, NEW i,
         (c = "+" /\ i = 1) \/ (c = "-" /\ i = -1)
  PROVE  \A k \in Nat : Passes(e, Run(c, k), d, WithCell(e, d, Here(d) + i * k))
<1> DEFINE T == {k \in Nat : Passes(e, Run(c, k), d, WithCell(e, d, Here(d) + i * k))}
<1>0. c \in Ops /\ c # "[" /\ c # "]" /\ c # "<" /\ i \in Int /\ e.values \in Nat \ {0}
  <2>1. "+" \in Ops /\ "-" \in Ops
    BY DEF Ops, CoreOps
  <2> QED
    BY <2>1 DEF Machines
<1>h. Here(d) \in Nat /\ Here(d) \in 0 .. e.values - 1
  BY HereType DEF CellValues
<1>1. 0 \in T
  <2>1. Run(c, 0) = <<>> /\ Here(d) + i * 0 = Here(d)
    BY <1>0, <1>h, RunUnit
  <2>2. Here(d) % e.values = Here(d)
    BY <1>0, <1>h, ModLess
  <2>3. WithCell(e, d, Here(d)) = d
    BY <1>h, <2>2, WrittenTwice
  <2> QED
    BY <2>1, <2>3, PassesNothing
<1>2. ASSUME NEW k \in Nat, k \in T PROVE k + 1 \in T
  <2> DEFINE p == Here(d) + i * k
             g == WithCell(e, d, p)
  <2>1. p \in Int /\ Here(d) + i * (k + 1) = p + i
    BY <1>0, <1>h
  <2>p. Passes(e, Run(c, k), d, g)
    BY <1>2
  <2> HIDE DEF p
  <2>2. g \in Datas(e) /\ Here(g) = p % e.values
    BY <2>1, WrittenFacts
  <2>3. Obeyed(e, c, g) = WithCell(e, g, Here(g) + i)
    <3>1. Here(g) \in Nat
      BY <2>2, HereType
    <3>2. Here(g) - 1 = Here(g) + (-1)
      BY <3>1
    <3> QED
      BY <3>2 DEF Obeyed
  <2>4. WithCell(e, g, Here(g) + i) = WithCell(e, d, p + i)
    <3> DEFINE q == Here(g) + i
    <3>1. q % e.values = (p + i) % e.values /\ q \in Int
      <4>1. p % e.values \in 0 .. e.values - 1
        BY <1>0, <2>1, ModSum
      <4>2. ((p % e.values) + i) % e.values = (p + i) % e.values
        BY <1>0, <2>1, ModSum
      <4> QED
        BY <1>0, <2>2, <4>1, <4>2
    <3>2. WithCell(e, g, q) = WithCell(e, d, q)
      BY <2>1, <3>1, WrittenTwice
    <3> HIDE DEF q
    <3>3. WithCell(e, d, q) = WithCell(e, d, p + i)
      BY <3>1 DEF WithCell
    <3> QED
      BY <3>2, <3>3 DEF q
  <2>5. Passes(e, <<c>>, g, Obeyed(e, c, g))
    BY <1>0, <2>2, CharPasses
  <2>6. Run(c, k + 1) = Run(c, k) \o <<c>> /\ Run(c, k) \in Streams /\ <<c>> \in Streams
    BY <1>0, RunEnds DEF Cat
  <2> HIDE DEF g
  <2>7. Passes(e, Run(c, k) \o <<c>>, d, Obeyed(e, c, g))
    BY <2>p, <2>5, <2>6, PassesThen
  <2>8. Obeyed(e, c, g) = WithCell(e, d, Here(d) + i * (k + 1))
    BY <2>1, <2>3, <2>4
  <2>9. Passes(e, Run(c, k + 1), d, WithCell(e, d, Here(d) + i * (k + 1)))
    BY <2>6, <2>7, <2>8
  <2> QED
    BY <2>9
<1>3. Nat \subseteq T
  <2> HIDE DEF T
  <2> QED
    BY <1>1, <1>2, SetInduction
<1> QED
  BY <1>3

\* What a run of moves does; on the heap it may not cross the start.
LEMMA RunMoves ==
  ASSUME NEW e \in Machines, NEW d \in Datas(e), NEW c, NEW i,
         (c = ">" /\ i = 1) \/ (c = "<" /\ i = -1)
  PROVE  \A k \in Nat : (i = -1 /\ ~e.wrap => k <= d.head)
                          => Passes(e, Run(c, k), d, Shifted(e, d, i * k))
<1> DEFINE P(k) == (i = -1 /\ ~e.wrap => k <= d.head) => Passes(e, Run(c, k), d, Shifted(e, d, i * k))
           T == {k \in Nat : P(k)}
<1>0. c \in Ops /\ c # "[" /\ c # "]" /\ i \in Int
  <2>1. "<" \in Ops /\ ">" \in Ops
    BY DEF Ops, CoreOps
  <2> QED
    BY <2>1
<1>e. e.size \in Nat \ {0}
  BY DEF Machines
<1>h. /\ d.head \in Nat /\ (e.wrap => d.head < e.size)
  BY DataFields
<1>1. 0 \in T
  <2>1. Run(c, 0) = <<>> /\ i * 0 = 0
    BY <1>0, RunUnit
  <2>2. Shifted(e, d, 0) = d
    <3> DEFINE g == Shifted(e, d, 0)
    <3>1. g \in Datas(e) /\ g.tape = d.tape /\ g.in = d.in /\ g.out = d.out
          /\ g.head = IF e.wrap THEN (d.head + 0) % e.size ELSE d.head + 0
      BY <1>h, TurnedFacts
    <3>2. e.wrap => (d.head + 0) % e.size = d.head
      BY <1>e, <1>h, ModLess
    <3>3. g.head = d.head
      BY <1>h, <3>1, <3>2
    <3> HIDE DEF g
    <3>4. g = d
      BY <3>1, <3>3, DataEqual
    <3> QED
      BY <3>4 DEF g
  <2> QED
    BY <2>1, <2>2, PassesNothing
<1>2. ASSUME NEW k \in Nat, k \in T PROVE k + 1 \in T
  <2> SUFFICES ASSUME i = -1 /\ ~e.wrap => k + 1 <= d.head
               PROVE  Passes(e, Run(c, k + 1), d, Shifted(e, d, i * (k + 1)))
    OBVIOUS
  <2> DEFINE p == i * k
             g == Shifted(e, d, p)
             h == Shifted(e, d, p + i)
  <2>1. /\ p \in Int /\ i * (k + 1) = p + i /\ (i = 1 => p = k) /\ (i = -1 => p = 0 - k)
        /\ i = 1 \/ i = -1
    BY <1>0
  <2>p. Passes(e, Run(c, k), d, g)
    <3>1. i = -1 /\ ~e.wrap => k <= d.head
      BY <1>h
    <3> QED
      BY <1>2, <3>1
  <2> HIDE DEF p
  <2>q. ~e.wrap => d.head + p >= 0 /\ d.head + (p + i) >= 0
    BY <1>h, <2>1
  <2>2. /\ g \in Datas(e) /\ g.tape = d.tape /\ g.in = d.in /\ g.out = d.out
        /\ g.head = IF e.wrap THEN (d.head + p) % e.size ELSE d.head + p
    BY <2>1, <2>q, TurnedFacts
  <2>3. /\ h \in Datas(e) /\ h.tape = d.tape /\ h.in = d.in /\ h.out = d.out
        /\ h.head = IF e.wrap THEN (d.head + (p + i)) % e.size ELSE d.head + (p + i)
    <3>1. p + i \in Int
      BY <2>1, <1>0
    <3> QED
      BY <3>1, <2>q, TurnedFacts
  <2> HIDE DEF g, h
  <2>4. Obeyed(e, c, g) = Shifted(e, g, i)
    BY DEF Obeyed
  <2>5. ~e.wrap => g.head + i >= 0
    BY <1>h, <2>1, <2>2, <2>q
  <2>6. Shifted(e, g, i) = h
    <3> DEFINE w == Shifted(e, g, i)
    <3>1. /\ w \in Datas(e) /\ w.tape = g.tape /\ w.in = g.in /\ w.out = g.out
          /\ w.head = IF e.wrap THEN (g.head + i) % e.size ELSE g.head + i
      BY <1>0, <2>2, <2>5, TurnedFacts
    <3> HIDE DEF w
    <3>2. ASSUME e.wrap PROVE w.head = h.head
      <4>1. (((d.head + p) % e.size) + i) % e.size = ((d.head + p) + i) % e.size
        <5> DEFINE x == d.head + p
        <5>1. x \in Int
          BY <1>h, <2>1
        <5> HIDE DEF x
        <5>2. ((x % e.size) + i) % e.size = (x + i) % e.size
          BY <1>0, <1>e, <5>1, ModSum
        <5> QED
          BY <5>2 DEF x
      <4>2. (d.head + p) + i = d.head + (p + i)
        BY <1>0, <1>h, <2>1
      <4> QED
        BY <2>2, <2>3, <3>1, <3>2, <4>1, <4>2
    <3>3. ~e.wrap => w.head = h.head
      BY <1>0, <1>h, <2>1, <2>2, <2>3, <3>1
    <3>4. w.head = h.head /\ w.tape = h.tape /\ w.in = h.in /\ w.out = h.out
      BY <2>2, <2>3, <3>1, <3>2, <3>3
    <3>5. w \in Datas(e) /\ h \in Datas(e)
      BY <2>3, <3>1
    <3>6. w = h
      BY ONLY <3>4, <3>5, e \in Machines, DataEqual
    <3> QED
      BY <3>6 DEF w
  <2>7. Passes(e, <<c>>, g, Obeyed(e, c, g))
    <3>1. c = "<" => e.wrap \/ g.head # 0
      BY <1>h, <2>1, <2>2, <2>5
    <3> QED
      BY <1>0, <2>2, <3>1, CharPasses
  <2>8. Run(c, k + 1) = Run(c, k) \o <<c>> /\ Run(c, k) \in Streams /\ <<c>> \in Streams
    BY <1>0, RunEnds DEF Cat
  <2>9. Passes(e, Run(c, k) \o <<c>>, d, Obeyed(e, c, g))
    BY <2>p, <2>7, <2>8, PassesThen
  <2> QED
    BY <2>1, <2>4, <2>6, <2>8, <2>9 DEF h
<1>3. Nat \subseteq T
  <2> HIDE DEF T
  <2> QED
    BY <1>1, <1>2, SetInduction
<1> QED
  BY <1>3

\* On the heap an execution that ends has the room for its moves to the left.
LEMMA LeftFits ==
  ASSUME NEW e \in Machines, ~e.wrap, NEW v \in Streams, NEW l \in Seq(Streams), NEW f
  PROVE  \A k \in Nat : \A d \in Datas(e) : Ends(e, Conf(Run("<", k) \o v, l, 0, d), f) => k <= d.head
<1> DEFINE P(k) == \A d \in Datas(e) : Ends(e, Conf(Run("<", k) \o v, l, 0, d), f) => k <= d.head
           T == {k \in Nat : P(k)}
<1>0. "<" \in Ops
  BY DEF Ops, CoreOps
<1>1. 0 \in T
  <2>1. \A d \in Datas(e) : 0 <= d.head
    <3> SUFFICES ASSUME NEW d \in Datas(e) PROVE 0 <= d.head
      OBVIOUS
    <3>1. d.head \in Nat
      BY DataFields
    <3> QED
      BY <3>1
  <2> QED
    BY <2>1
<1>2. ASSUME NEW k \in Nat, k \in T PROVE k + 1 \in T
  <2> SUFFICES ASSUME NEW d \in Datas(e), Ends(e, Conf(Run("<", k + 1) \o v, l, 0, d), f)
               PROVE  k + 1 <= d.head
    OBVIOUS
  <2> DEFINE s == Run("<", k) \o v
             g == Shifted(e, d, -1)
  <2>1. Run("<", k + 1) \o v = <<"<">> \o s /\ s \in Streams
    <3>1. /\ Run("<", k + 1) = <<"<">> \o Run("<", k)
          /\ <<"<">> \in Streams /\ Run("<", k) \in Streams
      BY <1>0, RunEnds DEF Cat
    <3>2. (<<"<">> \o Run("<", k)) \o v = <<"<">> \o (Run("<", k) \o v)
      BY <3>1, TextAssoc
    <3> QED
      BY <3>1, <3>2, TextJoined
  <2> HIDE DEF s
  <2>2. May(e, Conf(<<"<">> \o s, l, 0, d)) /\ Ends(e, Step(e, Conf(<<"<">> \o s, l, 0, d)), f)
    BY <1>0, <2>1, ReadsOn
  <2>3. d.head # 0 /\ d.head \in Nat
    BY <1>0, <2>1, <2>2, PlainMay, DataFields
  <2>4. Step(e, Conf(<<"<">> \o s, l, 0, d)) = Conf(s, l, 0, g)
    <3>1. Obeyed(e, "<", d) = g
      BY DEF Obeyed
    <3> QED
      BY <1>0, <2>1, <3>1, StepPlain
  <2>5. g \in Datas(e) /\ g.head = d.head - 1
    BY <2>3, TurnedFacts
  <2> HIDE DEF g
  <2>6. k <= g.head
    BY <1>2, <2>2, <2>4, <2>5 DEF s
  <2> QED
    BY <2>3, <2>5, <2>6
<1>3. Nat \subseteq T
  <2> HIDE DEF T
  <2> QED
    BY <1>1, <1>2, SetInduction
<1> QED
  BY <1>3

LEMMA ReachesEnd ==
  ASSUME NEW e, NEW x, NEW y, NEW f, Reaches(e, x, y), Ends(e, x, f)
  PROVE  Ends(e, y, f)
<1>1. PICK k \in Nat : EndsIn(e, x, f, k)
  BY DEF Ends
<1>2. PICK m \in 0 .. k : EndsIn(e, y, f, m)
  BY <1>1 DEF Reaches
<1> QED
  BY <1>2 DEF Ends

LEMMA ClearPasses ==
  ASSUME NEW e \in Machines, NEW d \in Datas(e)
  PROVE  Passes(e, ZL, d, WithCell(e, d, 0))
<1>1. WithCell(e, d, 0) \in Datas(e)
  BY WrittenFacts
<1>2. ASSUME NEW v \in Streams, NEW l \in Seq(Streams), NEW f, Ends(e, Conf(ZL \o v, l, 0, d), f)
      PROVE  Ends(e, Conf(v, l, 0, WithCell(e, d, 0)), f)
  <2>1. ZL \o v = ClearThen(v)
    BY ClearText, ClearIsZL
  <2>2. Reaches(e, Conf(ClearThen(v), l, 0, d), Conf(v, l, 0, WithCell(e, d, 0)))
    BY Clearing
  <2> QED
    BY <1>2, <2>1, <2>2, ReachesEnd
<1> QED
  BY <1>1, <1>2 DEF Passes

LEMMA AssignPasses ==
  ASSUME NEW e \in Machines, NEW d \in Datas(e), NEW c, NEW i,
         (c = "+" /\ i = 1) \/ (c = "-" /\ i = -1), NEW k \in Nat
  PROVE  Passes(e, ZL \o Run(c, k), d, WithCell(e, d, i * k))
<1> DEFINE g == WithCell(e, d, 0)
<1>1. g \in Datas(e) /\ Here(g) = 0
  <2>1. e.values \in Nat \ {0}
    BY DEF Machines
  <2>2. g \in Datas(e) /\ Here(g) = 0 % e.values
    BY WrittenFacts
  <2>3. 0 % e.values = 0
    BY <2>1
  <2> QED
    BY <2>2, <2>3
<1>2. Passes(e, ZL, d, g)
  BY ClearPasses
<1>3. WithCell(e, g, Here(g) + i * k) = WithCell(e, d, i * k)
  <2>1. i * k \in Int /\ Here(g) + i * k = i * k
    BY <1>1
  <2> DEFINE p == i * k
  <2>i. p \in Int /\ 0 \in Int
    BY <2>1
  <2> HIDE DEF p
  <2>2. WithCell(e, g, p) = WithCell(e, d, p)
    BY <2>i, WrittenTwice DEF g
  <2> QED
    BY <2>1, <2>2 DEF p
<1> HIDE DEF g
<1>4. Passes(e, Run(c, k), g, WithCell(e, g, Here(g) + i * k))
  BY <1>1, RunAdds
<1>5. ZL \in Streams /\ Run(c, k) \in Streams
  <2>1. "+" \in Ops /\ "-" \in Ops
    BY OpsKnown
  <2>2. c \in Ops
    BY <2>1
  <2> QED
    BY <2>2, OpsKnown, RunText DEF Streams
<1> QED
  BY <1>2, <1>3, <1>4, <1>5, PassesThen

-----------------------------------------------------------------------------
(* Passing over text.                                                      *)

\* Passed over, s leaves as many brackets open as there were.
Over(s) ==
  \A e : \A v \in Streams, k \in Nat \ {0} : \A l, d :
    Reaches(e, Conf(s \o v, l, k, d), Conf(v, l, k, d))

LEMMA OverNothing == Over(<<>>)
<1>1. \A v \in Streams : <<>> \o v = v
  BY CatEmpty DEF Cat
<1> QED
  BY <1>1, LeadsRefl DEF Over

LEMMA OverChar ==
  ASSUME NEW c \in Ops, c # "[", c # "]"
  PROVE  Over(<<c>>)
<1> SUFFICES ASSUME NEW e, NEW v \in Streams, NEW k \in Nat \ {0}, NEW l, NEW d
             PROVE  Reaches(e, Conf(<<c>> \o v, l, k, d), Conf(v, l, k, d))
  BY DEF Over
<1>1. May(e, Conf(<<c>> \o v, l, k, d)) /\ Step(e, Conf(<<c>> \o v, l, k, d)) = Conf(v, l, Opened(c, k), d)
  BY StepSkip
<1>2. Opened(c, k) = k
  BY OpenedFacts
<1> QED
  BY <1>1, <1>2, LeadsTo

LEMMA OverThen ==
  ASSUME NEW s \in Streams, NEW t \in Streams, Over(s), Over(t)
  PROVE  Over(s \o t)
<1> SUFFICES ASSUME NEW e, NEW v \in Streams, NEW k \in Nat \ {0}, NEW l, NEW d
             PROVE  Reaches(e, Conf((s \o t) \o v, l, k, d), Conf(v, l, k, d))
  BY DEF Over
<1>1. (s \o t) \o v = s \o (t \o v) /\ t \o v \in Streams
  BY TextAssoc, TextJoined
<1>2. Reaches(e, Conf(s \o (t \o v), l, k, d), Conf(t \o v, l, k, d))
  BY <1>1 DEF Over
<1>3. Reaches(e, Conf(t \o v, l, k, d), Conf(v, l, k, d))
  BY DEF Over
<1> QED
  BY <1>1, <1>2, <1>3, LeadsTrans

LEMMA OverRun ==
  ASSUME NEW c \in Ops, c # "[", c # "]"
  PROVE  \A k \in Nat : Over(Run(c, k))
<1> DEFINE T == {k \in Nat : Over(Run(c, k))}
<1>1. 0 \in T
  BY RunUnit, OverNothing
<1>2. ASSUME NEW k \in Nat, k \in T PROVE k + 1 \in T
  <2>1. Run(c, k + 1) = Run(c, k) \o <<c>> /\ Run(c, k) \in Streams /\ <<c>> \in Streams
    BY RunEnds DEF Cat
  <2>2. Over(Run(c, k)) /\ Over(<<c>>)
    BY <1>2, OverChar
  <2>3. Over(Run(c, k + 1))
    BY <2>1, <2>2, OverThen
  <2> QED
    BY <2>3
<1>3. Nat \subseteq T
  <2> HIDE DEF T
  <2> QED
    BY <1>1, <1>2, SetInduction
<1> QED
  BY <1>3

\* A bracket passed over.
LEMMA PassOpening ==
  ASSUME NEW e, NEW v \in Streams, NEW k \in Nat \ {0}, NEW l, NEW d
  PROVE  Reaches(e, Conf(<<"[">> \o v, l, k, d), Conf(v, l, k + 1, d))
<1>1. "[" \in Ops
  BY OpsKnown
<1>2. Opened("[", k) = k + 1
  BY OpenedFacts
<1> QED
  BY <1>1, <1>2, StepSkip, LeadsTo

LEMMA PassClosing ==
  ASSUME NEW e, NEW v \in Streams, NEW k \in Nat \ {0}, NEW l, NEW d
  PROVE  Reaches(e, Conf(<<"]">> \o v, l, k, d), Conf(v, l, k - 1, d))
<1>1. "]" \in Ops
  BY OpsKnown
<1>2. Opened("]", k) = k - 1
  BY OpenedFacts
<1> QED
  BY <1>1, <1>2, StepSkip, LeadsTo

LEMMA LoopText ==
  ASSUME NEW s \in Streams, NEW v \in Streams
  PROVE  /\ ((<<"[">> \o s) \o <<"]">>) \o v = <<"[">> \o (s \o (<<"]">> \o v))
         /\ s \o (<<"]">> \o v) \in Streams /\ <<"]">> \o v \in Streams
         /\ (<<"[">> \o s) \o <<"]">> \in Streams
<1>1. "[" \in Ops /\ "]" \in Ops
  BY OpsKnown
<1>2. <<"[">> \in Streams /\ <<"]">> \in Streams
  BY <1>1, TextCons
<1>3. <<"[">> \o s \in Streams
  BY <1>2, TextJoined
<1>4. ((<<"[">> \o s) \o <<"]">>) \o v = (<<"[">> \o s) \o (<<"]">> \o v)
  BY <1>2, <1>3, TextAssoc
<1>5. <<"]">> \o v \in Streams
  BY <1>2, TextJoined
<1>6. (<<"[">> \o s) \o (<<"]">> \o v) = <<"[">> \o (s \o (<<"]">> \o v))
  BY <1>2, <1>5, TextAssoc
<1> QED
  BY <1>2, <1>3, <1>4, <1>5, <1>6, TextJoined

LEMMA OverLoop ==
  ASSUME NEW s \in Streams, Over(s)
  PROVE  Over((<<"[">> \o s) \o <<"]">>)
<1> SUFFICES ASSUME NEW e, NEW v \in Streams, NEW k \in Nat \ {0}, NEW l, NEW d
             PROVE  Reaches(e, Conf(((<<"[">> \o s) \o <<"]">>) \o v, l, k, d), Conf(v, l, k, d))
  BY DEF Over
<1> DEFINE t == <<"]">> \o v
           u == s \o t
<1>1. ((<<"[">> \o s) \o <<"]">>) \o v = <<"[">> \o u /\ u \in Streams /\ t \in Streams
  BY LoopText
<1> HIDE DEF u
<1>2. Reaches(e, Conf(<<"[">> \o u, l, k, d), Conf(u, l, k + 1, d))
  BY <1>1, PassOpening
<1> HIDE DEF t
<1>3. k + 1 \in Nat \ {0} /\ (k + 1) - 1 = k
  OBVIOUS
<1>4. Reaches(e, Conf(u, l, k + 1, d), Conf(t, l, k + 1, d))
  BY <1>1, <1>3 DEF Over, u
<1>5. Reaches(e, Conf(t, l, k + 1, d), Conf(v, l, (k + 1) - 1, d))
  BY <1>3, PassClosing DEF t
<1>6. Reaches(e, Conf(u, l, k + 1, d), Conf(v, l, k, d))
  BY <1>3, <1>4, <1>5, LeadsTrans
<1> QED
  BY <1>1, <1>2, <1>6, LeadsTrans

-----------------------------------------------------------------------------
(* Loops.                                                                  *)

LEMMA EnterText ==
  ASSUME NEW e, NEW u \in Streams, NEW l, NEW d, NEW f,
         Ends(e, Conf(<<"[">> \o u, l, 0, d), f)
  PROVE  /\ Here(d) = 0 => Ends(e, Conf(u, l, 1, d), f)
         /\ Here(d) # 0 => Ends(e, Conf(u, Append(l, <<"[">> \o u), 0, d), f)
<1>1. "[" \in Ops
  BY OpsKnown
<1>2. Ends(e, Step(e, Conf(<<"[">> \o u, l, 0, d)), f)
  BY <1>1, ReadsOn
<1> QED
  BY <1>2, StepLoop

LEMMA CloseText ==
  ASSUME NEW e, NEW v \in Streams, NEW l, NEW d, NEW f,
         Ends(e, Conf(<<"]">> \o v, l, 0, d), f)
  PROVE  l # <<>> /\ Ends(e, Conf(l[Len(l)], SubSeq(l, 1, Len(l) - 1), 0, d), f)
<1>1. "]" \in Ops
  BY OpsKnown
<1>2. May(e, Conf(<<"]">> \o v, l, 0, d)) /\ Ends(e, Step(e, Conf(<<"]">> \o v, l, 0, d)), f)
  BY <1>1, ReadsOn
<1> QED
  BY <1>2, StepClose

Looped(s) == (<<"[">> \o s) \o <<"]">>

LEMMA LoopPasses ==
  ASSUME NEW e \in Machines, NEW s \in Streams, Over(s), NEW d \in Datas(e)
  PROVE  /\ Here(d) = 0 => Passes(e, Looped(s), d, d)
         /\ \A h, g : Here(d) # 0 /\ Passes(e, s, d, h) /\ Passes(e, Looped(s), h, g)
                        => Passes(e, Looped(s), d, g)
<1>1. ASSUME NEW v \in Streams, NEW l \in Seq(Streams), NEW f,
             Ends(e, Conf(Looped(s) \o v, l, 0, d), f), Here(d) = 0
      PROVE  Ends(e, Conf(v, l, 0, d), f)
  <2> DEFINE t == <<"]">> \o v
             u == s \o t
  <2>1. Looped(s) \o v = <<"[">> \o u /\ u \in Streams /\ t \in Streams
    BY LoopText DEF Looped
  <2> HIDE DEF u
  <2>2. Ends(e, Conf(u, l, 1, d), f)
    BY <1>1, <2>1, EnterText
  <2> HIDE DEF t
  <2>3. 1 \in Nat \ {0} /\ 1 - 1 = 0
    OBVIOUS
  <2>4. Reaches(e, Conf(u, l, 1, d), Conf(t, l, 1, d))
    BY <2>1, <2>3 DEF Over, u
  <2>5. Reaches(e, Conf(t, l, 1, d), Conf(v, l, 1 - 1, d))
    BY <2>3, PassClosing DEF t
  <2> QED
    BY <2>2, <2>3, <2>4, <2>5, ReachesEnd
<1>2. ASSUME NEW h, NEW g, Here(d) # 0, Passes(e, s, d, h), Passes(e, Looped(s), h, g),
             NEW v \in Streams, NEW l \in Seq(Streams), NEW f,
             Ends(e, Conf(Looped(s) \o v, l, 0, d), f)
      PROVE  Ends(e, Conf(v, l, 0, g), f)
  <2> DEFINE t == <<"]">> \o v
             u == s \o t
             w == <<"[">> \o u
             m == Append(l, w)
  <2>1. Looped(s) \o v = w /\ u \in Streams /\ t \in Streams
    BY LoopText DEF Looped
  <2>2. w \in Streams
    <3> HIDE DEF u
    <3>1. "[" \in Ops
      BY OpsKnown
    <3> QED
      BY <2>1, <3>1, TextCons
  <2> HIDE DEF u
  <2>3. Ends(e, Conf(u, m, 0, d), f)
    BY <1>2, <2>1, EnterText
  <2> HIDE DEF w, t
  <2>4. /\ m \in Seq(Streams) /\ m # <<>> /\ m[Len(m)] = w /\ SubSeq(m, 1, Len(m) - 1) = l
    BY <2>2, LoopsLast
  <2> HIDE DEF m
  <2>5. Ends(e, Conf(t, m, 0, h), f)
    BY <1>2, <2>1, <2>3, <2>4 DEF Passes, u
  <2>6. Ends(e, Conf(w, l, 0, h), f)
    BY <2>4, <2>5, CloseText DEF t
  <2> QED
    BY <1>2, <2>1, <2>6 DEF Passes
<1> QED
  BY <1>1, <1>2 DEF Passes

-----------------------------------------------------------------------------
(* Moving a cell to its neighbour.                                         *)

\* g is d with the cell under the head added to the next one.
Spills(e, d, g) ==
  /\ g \in Datas(e) /\ g.head = d.head /\ g.in = d.in /\ g.out = d.out
  /\ \A a \in Nat : CellOf(g.tape, a) =
       IF a = d.head THEN 0
       ELSE IF a = d.head + 1 THEN (CellOf(d.tape, a) + Here(d)) % e.values
       ELSE CellOf(d.tape, a)

LEMMA BodyText ==
  /\ Body = ((<<"-">> \o <<">">>) \o <<"+">>) \o <<"<">>
  /\ <<"-">> \in Streams /\ <<">">> \in Streams /\ <<"+">> \in Streams /\ <<"<">> \in Streams
  /\ <<"-">> \o <<">">> \in Streams /\ (<<"-">> \o <<">">>) \o <<"+">> \in Streams
<1>1. "-" \in Ops /\ ">" \in Ops /\ "+" \in Ops /\ "<" \in Ops
  BY OpsKnown
<1>2. <<"-">> \in Streams /\ <<">">> \in Streams /\ <<"+">> \in Streams /\ <<"<">> \in Streams
  BY <1>1, Tuples DEF Streams
<1>3. <<"-">> \o <<">">> \in Streams /\ (<<"-">> \o <<">">>) \o <<"+">> \in Streams
  <2>1. <<"-">> \o <<">">> \in Streams
    BY <1>2, TextJoined
  <2> QED
    BY <1>2, <2>1, TextJoined
<1>4. /\ <<"-", ">">> = Append(<<"-">>, ">")
      /\ <<"-", ">", "+">> = Append(<<"-", ">">>, "+")
      /\ Body = Append(<<"-", ">", "+">>, "<")
      /\ <<"-", ">">> \in Seq(Ops) /\ <<"-", ">", "+">> \in Seq(Ops)
  BY <1>1, Tuples DEF Body
<1>5. <<"-">> \o <<">">> = Append(<<"-">>, ">")
  BY <1>1, <1>2, ConcatTuple DEF Streams
<1>6. <<"-", ">">> \o <<"+">> = Append(<<"-", ">">>, "+")
  BY <1>1, <1>4, ConcatTuple
<1>7. <<"-", ">", "+">> \o <<"<">> = Append(<<"-", ">", "+">>, "<")
  BY <1>1, <1>4, ConcatTuple
<1> QED
  BY <1>2, <1>3, <1>4, <1>5, <1>6, <1>7

LEMMA OverBody == Over(Body)
<1>1. "-" \in Ops /\ ">" \in Ops /\ "+" \in Ops /\ "<" \in Ops
  BY OpsKnown
<1>2. Over(<<"-">>) /\ Over(<<">">>) /\ Over(<<"+">>) /\ Over(<<"<">>)
  BY <1>1, OverChar
<1>3. Over(<<"-">> \o <<">">>)
  BY <1>2, BodyText, OverThen
<1>4. Over((<<"-">> \o <<">">>) \o <<"+">>)
  BY <1>2, <1>3, BodyText, OverThen
<1>5. Over(((<<"-">> \o <<">">>) \o <<"+">>) \o <<"<">>)
  BY <1>2, <1>4, BodyText, OverThen
<1> QED
  BY <1>5, BodyText

\* What one turn of the loop does.
LEMMA BodyPasses ==
  ASSUME NEW e \in Machines, NEW d \in Datas(e), e.wrap => d.head + 1 < e.size
  PROVE  \E g \in Datas(e) :
           /\ Passes(e, Body, d, g)
           /\ g.head = d.head /\ g.in = d.in /\ g.out = d.out
           /\ \A a \in Nat : CellOf(g.tape, a) =
                IF a = d.head THEN (Here(d) - 1) % e.values
                ELSE IF a = d.head + 1 THEN (CellOf(d.tape, a) + 1) % e.values
                ELSE CellOf(d.tape, a)
<1>0. "-" \in Ops /\ ">" \in Ops /\ "+" \in Ops /\ "<" \in Ops /\ e.size \in Nat \ {0}
  BY OpsKnown DEF Machines
<1> DEFINE b == Obeyed(e, "-", d)
           c == Obeyed(e, ">", b)
           w == Obeyed(e, "+", c)
           g == Obeyed(e, "<", w)
<1>h. d.head \in Nat /\ Here(d) \in Nat /\ d.tape \in Tapes(e)
  BY DataFields, HereType
<1>1. /\ b \in Datas(e) /\ b.head = d.head /\ b.in = d.in /\ b.out = d.out
      /\ b.tape = SetCell(d.tape, d.head, (Here(d) - 1) % e.values)
  <2>1. b = WithCell(e, d, Here(d) - 1)
    BY DEF Obeyed
  <2>2. Here(d) - 1 \in Int
    BY <1>h
  <2> QED
    BY <2>1, <2>2, WrittenFacts
<1>p. Passes(e, <<"-">>, d, b)
  BY <1>0, CharPasses
<1> HIDE DEF b
<1>2. /\ c \in Datas(e) /\ c.tape = b.tape /\ c.in = b.in /\ c.out = b.out
      /\ c.head = d.head + 1
  <2>1. c = Shifted(e, b, 1)
    BY DEF Obeyed
  <2>2. ~e.wrap => b.head + 1 >= 0
    BY <1>1, <1>h
  <2>3. /\ c \in Datas(e) /\ c.tape = b.tape /\ c.in = b.in /\ c.out = b.out
        /\ c.head = IF e.wrap THEN (b.head + 1) % e.size ELSE b.head + 1
    BY <1>1, <2>1, <2>2, TurnedFacts
  <2>4. e.wrap => (d.head + 1) % e.size = d.head + 1
    BY <1>0, <1>h, ModLess
  <2> QED
    BY <1>1, <2>3, <2>4
<1>q. Passes(e, <<">">>, b, c)
  BY <1>0, <1>1, CharPasses
<1> HIDE DEF c
<1>3. /\ w \in Datas(e) /\ w.head = c.head /\ w.in = c.in /\ w.out = c.out
      /\ w.tape = SetCell(c.tape, c.head, (Here(c) + 1) % e.values)
  <2>1. w = WithCell(e, c, Here(c) + 1)
    BY DEF Obeyed
  <2>2. Here(c) + 1 \in Int
    BY <1>2, HereType
  <2> QED
    BY <1>2, <2>1, <2>2, WrittenFacts
<1>r. Passes(e, <<"+">>, c, w)
  BY <1>0, <1>2, CharPasses
<1> HIDE DEF w
<1>4. /\ g \in Datas(e) /\ g.tape = w.tape /\ g.in = w.in /\ g.out = w.out
      /\ g.head = d.head
  <2>1. g = Shifted(e, w, -1)
    BY DEF Obeyed
  <2>2. ~e.wrap => w.head + (-1) >= 0
    BY <1>2, <1>3, <1>h
  <2>3. /\ g \in Datas(e) /\ g.tape = w.tape /\ g.in = w.in /\ g.out = w.out
        /\ g.head = IF e.wrap THEN (w.head + (-1)) % e.size ELSE w.head + (-1)
    BY <1>3, <2>1, <2>2, TurnedFacts
  <2>4. w.head + (-1) = d.head
    BY <1>2, <1>3, <1>h
  <2>5. e.wrap => d.head % e.size = d.head
    BY <1>0, <1>h, ModLess
  <2> QED
    BY <2>3, <2>4, <2>5
<1>s. Passes(e, <<"<">>, w, g)
  <2>1. w.head # 0
    BY <1>2, <1>3, <1>h
  <2> QED
    BY <1>0, <1>3, <2>1, CharPasses
<1> HIDE DEF g
<1>5. Passes(e, Body, d, g)
  <2>1. Passes(e, <<"-">> \o <<">">>, d, c)
    BY <1>p, <1>q, BodyText, PassesThen
  <2>2. Passes(e, (<<"-">> \o <<">">>) \o <<"+">>, d, w)
    BY <2>1, <1>r, BodyText, PassesThen
  <2>3. Passes(e, ((<<"-">> \o <<">">>) \o <<"+">>) \o <<"<">>, d, g)
    BY <2>2, <1>s, BodyText, PassesThen
  <2> QED
    BY <2>3, BodyText
<1>6. ASSUME NEW a \in Nat
      PROVE  CellOf(g.tape, a) = IF a = d.head THEN (Here(d) - 1) % e.values
                                 ELSE IF a = d.head + 1 THEN (CellOf(d.tape, a) + 1) % e.values
                                 ELSE CellOf(d.tape, a)
  <2>1. (Here(d) - 1) % e.values \in CellValues(e)
    <3>1. Here(d) - 1 \in Int
      BY <1>h
    <3> QED
      BY <3>1, ModValue
  <2>2. \A x \in Nat : CellOf(b.tape, x) = IF x = d.head THEN (Here(d) - 1) % e.values
                                          ELSE CellOf(d.tape, x)
    BY <1>1, <1>h, <2>1, SetCellType
  <2>3. Here(c) = CellOf(d.tape, d.head + 1) /\ Here(c) \in Nat
    <3>1. Here(c) = CellOf(b.tape, d.head + 1)
      BY <1>2 DEF Here
    <3>2. d.head + 1 \in Nat /\ d.head + 1 # d.head
      BY <1>h
    <3> QED
      BY <2>2, <3>1, <3>2, <1>2, HereType
  <2>4. (Here(c) + 1) % e.values \in CellValues(e)
    <3>1. Here(c) + 1 \in Int
      BY <2>3
    <3> QED
      BY <3>1, ModValue
  <2>5. c.tape \in Tapes(e) /\ c.head \in Nat
    BY <1>2, DataFields
  <2>6. CellOf(w.tape, a) = IF a = c.head THEN (Here(c) + 1) % e.values ELSE CellOf(c.tape, a)
    BY <1>3, <2>4, <2>5, SetCellType
  <2>7. d.head # d.head + 1
    BY <1>h
  <2> QED
    BY <1>2, <1>4, <2>2, <2>3, <2>6, <2>7
<1> QED
  BY <1>4, <1>5, <1>6, <1>1, <1>2, <1>3

LEMMA SpillPasses ==
  ASSUME NEW e \in Machines
  PROVE  \A k \in Nat : \A d \in Datas(e) :
           Here(d) = k /\ (e.wrap => d.head + 1 < e.size)
             => \E g \in Datas(e) : Spills(e, d, g) /\ Passes(e, Looped(Body), d, g)
<1> DEFINE P(k) == \A d \in Datas(e) :
             Here(d) = k /\ (e.wrap => d.head + 1 < e.size)
               => \E g \in Datas(e) : Spills(e, d, g) /\ Passes(e, Looped(Body), d, g)
           T == {k \in Nat : P(k)}
<1>b. Body \in Streams /\ Over(Body)
  <2>1. ((<<"-">> \o <<">">>) \o <<"+">>) \o <<"<">> \in Streams
    BY BodyText, TextJoined
  <2> QED
    BY <2>1, BodyText, OverBody
<1>v. e.values \in Nat \ {0}
  BY DEF Machines
<1>1. 0 \in T
  <2> SUFFICES ASSUME NEW d \in Datas(e), Here(d) = 0
               PROVE  \E g \in Datas(e) : Spills(e, d, g) /\ Passes(e, Looped(Body), d, g)
    OBVIOUS
  <2>1. Passes(e, Looped(Body), d, d)
    BY <1>b, LoopPasses
  <2>2. ASSUME NEW a \in Nat
        PROVE  CellOf(d.tape, a) = IF a = d.head THEN 0
                 ELSE IF a = d.head + 1 THEN (CellOf(d.tape, a) + Here(d)) % e.values
                 ELSE CellOf(d.tape, a)
    <3>1. CellOf(d.tape, a) \in CellValues(e) /\ CellOf(d.tape, a) \in Nat
      BY DataFields, CellType
    <3> DEFINE x == CellOf(d.tape, a)
    <3>2. x \in 0 .. e.values - 1 /\ x + 0 = x
      BY <3>1 DEF CellValues
    <3>3. x % e.values = x
      <4> HIDE DEF x
      <4> QED
        BY <1>v, <3>2, ModLess
    <3>4. d.head = a => CellOf(d.tape, a) = 0
      BY DEF Here
    <3> QED
      BY <3>2, <3>3, <3>4
  <2>3. Spills(e, d, d)
    BY <2>2 DEF Spills
  <2> QED
    BY <2>1, <2>3
<1>2. ASSUME NEW k \in Nat, k \in T PROVE k + 1 \in T
  <2> SUFFICES ASSUME NEW d \in Datas(e), Here(d) = k + 1, e.wrap => d.head + 1 < e.size
               PROVE  \E g \in Datas(e) : Spills(e, d, g) /\ Passes(e, Looped(Body), d, g)
    OBVIOUS
  <2>h. d.head \in Nat /\ d.head + 1 \in Nat /\ d.head # d.head + 1
    <3>1. d.head \in Nat
      BY DataFields
    <3> QED
      BY <3>1
  <2>1. PICK h \in Datas(e) :
           /\ Passes(e, Body, d, h)
           /\ h.head = d.head /\ h.in = d.in /\ h.out = d.out
           /\ \A a \in Nat : CellOf(h.tape, a) =
                IF a = d.head THEN (Here(d) - 1) % e.values
                ELSE IF a = d.head + 1 THEN (CellOf(d.tape, a) + 1) % e.values
                ELSE CellOf(d.tape, a)
    BY BodyPasses
  <2>2. Here(h) = k
    <3>1. Here(h) = (Here(d) - 1) % e.values
      BY <2>1, <2>h DEF Here
    <3>2. k + 1 \in 0 .. e.values - 1
      BY HereType DEF CellValues
    <3>3. Here(d) - 1 = k /\ k \in 0 .. e.values - 1
      BY <1>v, <3>2
    <3> QED
      BY <1>v, <3>1, <3>3, ModLess
  <2>3. PICK g \in Datas(e) : Spills(e, h, g) /\ Passes(e, Looped(Body), h, g)
    BY <1>2, <2>1, <2>2
  <2>4. Passes(e, Looped(Body), d, g)
    <3>1. Here(d) # 0
      OBVIOUS
    <3> QED
      BY <1>b, <2>1, <2>3, <3>1, LoopPasses
  <2>5. ASSUME NEW a \in Nat
        PROVE  CellOf(g.tape, a) = IF a = d.head THEN 0
                 ELSE IF a = d.head + 1 THEN (CellOf(d.tape, a) + Here(d)) % e.values
                 ELSE CellOf(d.tape, a)
    <3>1. CellOf(g.tape, a) = IF a = d.head THEN 0
            ELSE IF a = d.head + 1 THEN (CellOf(h.tape, a) + k) % e.values
            ELSE CellOf(h.tape, a)
      BY <2>1, <2>2, <2>3 DEF Spills
    <3>2. CASE a = d.head + 1
      <4> DEFINE x == CellOf(d.tape, a)
      <4>1. x \in Nat
        BY DataFields, CellType
      <4>2. CellOf(h.tape, a) = (x + 1) % e.values
        BY <2>1, <2>h, <3>2
      <4> HIDE DEF x
      <4> DEFINE y == x + 1
      <4>3. y \in Int /\ y + k = x + (k + 1)
        BY <4>1
      <4>i. y \in Int /\ k \in Int
        BY <4>1
      <4> HIDE DEF y
      <4>4. ((y % e.values) + k) % e.values = (y + k) % e.values
        BY ONLY <1>v, <4>i, ModSum
      <4>5. CellOf(g.tape, a) = (x + (k + 1)) % e.values
        BY <3>1, <3>2, <2>h, <4>2, <4>3, <4>4 DEF y
      <4> QED
        BY <2>h, <3>2, <4>5 DEF x
    <3>3. CASE a # d.head + 1
      BY <2>1, <3>1, <3>3
    <3> QED
      BY <3>2, <3>3
  <2>6. Spills(e, d, g)
    <3>1. g.head = d.head /\ g.in = d.in /\ g.out = d.out
      BY <2>1, <2>3 DEF Spills
    <3> QED
      BY <2>5, <3>1 DEF Spills
  <2> QED
    BY <2>4, <2>6
<1>3. Nat \subseteq T
  <2> HIDE DEF T
  <2> QED
    BY <1>1, <1>2, SetInduction
<1> QED
  BY <1>3

-----------------------------------------------------------------------------
(* Reading tokens.                                                         *)

\* Brackets one at a time, moves to the next cell only.
Single(ts) == \A k \in 1 .. Len(ts) : ts[k].op \in {"[", "]", "M"} => ts[k].len = 1

LEMMA OverMeaning ==
  ASSUME NEW t \in Token, t.op \notin {"[", "]"}, t.op = "M" => t.len = 1
  PROVE  Over(Meaning(t))
<1>0. t.op \in Ops /\ t.len \in Nat
  BY WeightOf
<1>1. CASE t.op \notin {"Z", "A", "S", "M"}
  BY <1>0, <1>1, MeaningPlain, OverRun
<1>z. Over(ZL) /\ ZL \in Streams
  <2>1. "-" \in Ops /\ "[" \in Ops /\ "]" \in Ops
    BY OpsKnown
  <2>2. <<"-">> \in Streams /\ <<"[">> \in Streams /\ <<"]">> \in Streams
    BY <2>1, Tuples DEF Streams
  <2>3. Over(<<"-">>)
    BY <2>1, OverChar
  <2>4. Over((<<"[">> \o <<"-">>) \o <<"]">>)
    BY <2>2, <2>3, OverLoop
  <2>5. (<<"[">> \o <<"-">>) \o <<"]">> = <<"[">> \o (<<"-">> \o <<"]">>)
    BY <2>2, TextAssoc
  <2> QED
    BY <2>4, <2>5, ClearIsZL, OpsKnown DEF ClearLoop, Streams
<1>2. CASE t.op = "Z"
  BY <1>2, <1>z, MeaningAssigned
<1>3. ASSUME NEW c, c \in {"+", "-"}, Meaning(t) = ZL \o Run(c, t.len)
      PROVE  Over(Meaning(t))
  <2>1. c \in Ops /\ c # "[" /\ c # "]"
    BY <1>3, OpsKnown
  <2>2. Over(Run(c, t.len)) /\ Run(c, t.len) \in Streams
    BY <1>0, <2>1, OverRun, RunText
  <2> QED
    BY <1>3, <1>z, <2>2, OverThen
<1>4. CASE t.op \in {"A", "S"}
  BY <1>3, <1>4, MeaningAssigned
<1>5. CASE t.op = "M"
  <2>1. Meaning(t) = Looped(Body) /\ Body \in Streams
    BY <1>5, MoveOnce DEF Looped, Streams
  <2>2. Over(Looped(Body))
    BY <2>1, OverBody, OverLoop DEF Looped
  <2> QED
    BY <2>1, <2>2
<1> QED
  BY <1>1, <1>2, <1>4, <1>5

\* S[k] is what the tokens from the k-th on stand for.
TextsOf(ts, S) ==
  /\ S[1] = Spelled(ts) /\ S[Len(ts) + 1] = <<>>
  /\ \A k \in 1 .. Len(ts) + 1 : S[k] \in Streams
  /\ \A k \in 1 .. Len(ts) : S[k] = Meaning(ts[k]) \o S[k + 1]

LEMMA TextsExist == \A ts \in Seq(Token) : \E S : TextsOf(ts, S)
<1> DEFINE T == {ts \in Seq(Token) : \E S : TextsOf(ts, S)}
<1>1. <<>> \in T
  <2> DEFINE S == [k \in 1 .. 1 |-> <<>>]
  <2>1. <<>> \in Seq(Token) /\ Len(<<>>) = 0
    OBVIOUS
  <2>2. S[1] = <<>> /\ <<>> \in Streams
    BY TextEmpty, OpsKnown DEF Streams
  <2>3. TextsOf(<<>>, S)
    <3>1. S[1] = Spelled(<<>>)
      BY <2>2, SpelledEmpty
    <3>2. \A k \in 1 .. 0 + 1 : k = 1
      OBVIOUS
    <3> QED
      BY <2>1, <2>2, <3>1, <3>2 DEF TextsOf
  <2> QED
    BY <2>1, <2>3
<1>2. ASSUME NEW ts \in Seq(Token), ts \in T, NEW t \in Token PROVE Append(ts, t) \in T
  <2>1. PICK S : TextsOf(ts, S)
    BY <1>2
  <2> DEFINE us == Append(ts, t)
             m == Len(ts)
             w == Meaning(t)
             U == [k \in 1 .. m + 2 |-> IF k = m + 2 THEN <<>> ELSE S[k] \o w]
  <2>2. us \in Seq(Token) /\ Len(us) = m + 1 /\ us[m + 1] = t /\ m \in Nat
        /\ \A k \in 1 .. m : us[k] = ts[k]
    BY AppendProperties
  <2>w. w \in Streams /\ <<>> \in Streams
    BY MeaningType DEF Streams
  <2>s. /\ \A k \in 1 .. m + 1 : S[k] \in Streams
        /\ \A k \in 1 .. m : S[k] = Meaning(ts[k]) \o S[k + 1]
        /\ S[m + 1] = <<>> /\ S[1] = Spelled(ts)
    BY <2>1 DEF TextsOf
  <2>sp. Spelled(us) = Spelled(ts) \o w
    BY SpelledAppend
  <2> HIDE DEF m, w, us
  <2>u. /\ U[m + 2] = <<>>
        /\ \A k \in 1 .. m + 1 : U[k] = S[k] \o w
    <3>1. \A k \in 1 .. m + 1 : k \in 1 .. m + 2 /\ k # m + 2
      BY <2>2
    <3>2. m + 2 \in 1 .. m + 2
      BY <2>2
    <3> QED
      BY <3>1, <3>2
  <2> HIDE DEF U
  <2>3. U[1] = Spelled(us)
    <3>1. 1 \in 1 .. m + 1
      BY <2>2
    <3> QED
      BY <3>1, <2>u, <2>s, <2>sp
  <2>4. \A k \in 1 .. m + 2 : U[k] \in Streams
    <3> SUFFICES ASSUME NEW k \in 1 .. m + 2 PROVE U[k] \in Streams
      OBVIOUS
    <3>1. CASE k = m + 2
      BY <3>1, <2>u, <2>w
    <3>2. CASE k # m + 2
      <4>1. k \in 1 .. m + 1
        BY <3>2, <2>2
      <4> QED
        BY <4>1, <2>u, <2>s, <2>w, TextJoined
    <3> QED
      BY <3>1, <3>2
  <2>5. ASSUME NEW k \in 1 .. m + 1 PROVE U[k] = Meaning(us[k]) \o U[k + 1]
    <3>1. CASE k = m + 1
      <4>1. U[k] = S[m + 1] \o w /\ U[k + 1] = <<>>
        <5>1. k + 1 = m + 2
          BY <3>1, <2>2
        <5> QED
          BY <3>1, <5>1, <2>u
      <4>2. Meaning(us[k]) = w
        BY <3>1, <2>2 DEF w
      <4>3. <<>> \o w = w /\ w \o <<>> = w
        BY <2>w, TextEmpty
      <4> QED
        BY <4>1, <4>2, <4>3, <2>s
    <3>2. CASE k # m + 1
      <4>1. k \in 1 .. m /\ k + 1 \in 1 .. m + 1 /\ k \in 1 .. m + 1
        BY <3>2, <2>2
      <4>2. U[k] = (Meaning(ts[k]) \o S[k + 1]) \o w /\ U[k + 1] = S[k + 1] \o w
        BY <4>1, <2>u, <2>s
      <4>3. Meaning(ts[k]) \in Streams /\ S[k + 1] \in Streams
        BY <4>1, <2>s, MeaningType DEF m, Streams
      <4>4. us[k] = ts[k]
        BY <4>1, <2>2
      <4>5. (Meaning(ts[k]) \o S[k + 1]) \o w = Meaning(ts[k]) \o (S[k + 1] \o w)
        BY ONLY <4>3, <2>w, TextAssoc
      <4> QED
        BY <4>2, <4>4, <4>5
    <3> QED
      BY <3>1, <3>2
  <2>6. TextsOf(us, U)
    <3>1. Len(us) + 1 = m + 2
      BY <2>2
    <3> QED
      BY <3>1, <2>2, <2>u, <2>3, <2>4, <2>5 DEF TextsOf
  <2> QED
    BY <2>2, <2>6 DEF us
<1>3. Seq(Token) \subseteq T
  <2> HIDE DEF T
  <2> QED
    BY <1>1, <1>2, SeqInduction
<1> QED
  BY <1>3

\* The depths of a part are those of the whole less the depth before it.
LEMMA PartDepths ==
  ASSUME NEW ts \in Seq(Token), NEW p \in 1 .. Len(ts), NEW q \in 1 .. Len(ts), p <= q
  PROVE  LET body == SubSeq(ts, p, q)
         IN  /\ Len(body) = q - p + 1
             /\ \A k \in 0 .. q - p + 1 : TokDepth(body, k) = TokDepth(ts, p - 1 + k) - TokDepth(ts, p - 1)
<1> DEFINE body == SubSeq(ts, p, q)
           m == q - p + 1
<1>1. body \in Seq(Token) /\ Len(body) = m /\ m \in Nat
      /\ \A k \in 1 .. m : body[k] = ts[p + k - 1]
  <2>0. p \in Int /\ q \in Int /\ m \in Nat
    OBVIOUS
  <2>1. \A k \in p .. q : ts[k] \in Token
    OBVIOUS
  <2>2. body \in Seq(Token)
    BY <2>0, <2>1 
  <2>3. Len(body) = m
    BY <2>0
  <2>4. \A k \in 1 .. m : body[k] = ts[p + k - 1]
    BY <2>0
  <2> QED
    BY <2>0, <2>2, <2>3, <2>4
<1> HIDE DEF body
<1>2. /\ TokDepth(body, 0) = 0
      /\ \A k \in 1 .. m : TokDepth(body, k) = TokDepth(body, k - 1) + Weight(body[k])
      /\ \A k \in 0 .. m : TokDepth(body, k) \in Int
  BY <1>1, TokDepthStep
<1>3. /\ \A k \in 1 .. Len(ts) : TokDepth(ts, k) = TokDepth(ts, k - 1) + Weight(ts[k])
      /\ \A k \in 0 .. Len(ts) : TokDepth(ts, k) \in Int
  BY TokDepthStep
<1> DEFINE P(k) == k <= m => TokDepth(body, k) = TokDepth(ts, p - 1 + k) - TokDepth(ts, p - 1)
           T == {k \in Nat : P(k)}
<1>4. 0 \in T
  <2>1. p - 1 \in 0 .. Len(ts) /\ p - 1 + 0 = p - 1
    OBVIOUS
  <2>2. TokDepth(ts, p - 1) \in Int
    BY <2>1, <1>3
  <2>3. TokDepth(body, 0) = TokDepth(ts, p - 1 + 0) - TokDepth(ts, p - 1)
    BY <2>1, <2>2, <1>2
  <2> QED
    BY <2>3
<1>5. ASSUME NEW k \in Nat, k \in T PROVE k + 1 \in T
  <2> SUFFICES ASSUME k + 1 <= m
               PROVE  TokDepth(body, k + 1) = TokDepth(ts, p - 1 + (k + 1)) - TokDepth(ts, p - 1)
    OBVIOUS
  <2>1. /\ k + 1 \in 1 .. m /\ (k + 1) - 1 = k /\ k \in 0 .. m /\ k <= m
        /\ p + (k + 1) - 1 = p + k /\ p - 1 + (k + 1) = p + k /\ p + k \in 1 .. Len(ts)
        /\ p + k - 1 = p - 1 + k /\ p - 1 \in 0 .. Len(ts) /\ p - 1 + k \in 0 .. Len(ts)
    BY <1>1
  <2>2. TokDepth(body, k + 1) = TokDepth(body, k) + Weight(ts[p + k])
    BY <2>1, <1>1, <1>2
  <2>3. TokDepth(ts, p + k) = TokDepth(ts, p - 1 + k) + Weight(ts[p + k])
    BY <2>1, <1>3
  <2>4. TokDepth(body, k) = TokDepth(ts, p - 1 + k) - TokDepth(ts, p - 1)
    BY <1>5, <2>1
  <2>5. /\ TokDepth(ts, p + k) \in Int /\ TokDepth(ts, p - 1 + k) \in Int
        /\ TokDepth(ts, p - 1) \in Int /\ Weight(ts[p + k]) \in Int
    <3>1. ts[p + k] \in Token
      BY <2>1
    <3>2. p + k \in 0 .. Len(ts)
      BY <2>1
    <3> QED
      BY <2>1, <3>1, <3>2, <1>3, WeightType
  <2> QED
    BY <2>1, <2>2, <2>3, <2>4, <2>5
<1>6. Nat \subseteq T
  <2> HIDE DEF T
  <2> QED
    BY <1>4, <1>5, SetInduction
<1>7. \A k \in 0 .. m : k \in Nat /\ k <= m
  BY <1>1
<1> QED
  BY <1>1, <1>6, <1>7 DEF body

LEMMA MatchingDepths ==
  ASSUME NEW ts \in Seq(Token), NEW p \in 1 .. Len(ts), NEW q \in 1 .. Len(ts), Matching(ts, p, q)
  PROVE  /\ p < q /\ ts[p].op = "[" /\ ts[q].op = "]"
         /\ TokDepth(ts, q) = TokDepth(ts, p - 1)
         /\ \A k \in p .. q - 1 : TokDepth(ts, k) > TokDepth(ts, p - 1)
<1> DEFINE body == SubSeq(ts, p, q)
           D(k) == TokDepth(ts, k)
<1>1. p < q /\ ts[p].op = "[" /\ ts[q].op = "]"
  BY DEF Matching
<1>2. TokDepth(body, Len(body)) = 0 /\ \A k \in 1 .. Len(body) - 1 : TokDepth(body, k) > 0
  BY DEF Matching
<1>3. /\ Len(body) = q - p + 1
      /\ \A k \in 0 .. q - p + 1 : TokDepth(body, k) = D(p - 1 + k) - D(p - 1)
  BY <1>1, PartDepths
<1>4. \A k \in 0 .. Len(ts) : D(k) \in Int
  BY TokDepthStep
<1> HIDE DEF body, D
<1>5. D(q) = D(p - 1)
  <2>1. q - p + 1 \in 0 .. q - p + 1 /\ p - 1 + (q - p + 1) = q /\ p - 1 \in 0 .. Len(ts) /\ q \in 0 .. Len(ts)
    BY <1>1
  <2>2. D(q) - D(p - 1) = 0
    BY <2>1, <1>2, <1>3
  <2> QED
    BY <2>1, <2>2, <1>4
<1>6. ASSUME NEW k \in p .. q - 1 PROVE D(k) > D(p - 1)
  <2> DEFINE j == k - p + 1
  <2>0. p \in Int /\ q \in Int /\ k \in Int /\ Len(ts) \in Nat /\ 1 <= p /\ q <= Len(ts)
        /\ p <= Len(ts) /\ p <= k /\ k <= q - 1
    OBVIOUS
  <2>1. j \in 0 .. q - p + 1 /\ j \in 1 .. (q - p + 1) - 1 /\ p - 1 + j = k
        /\ p - 1 \in 0 .. Len(ts) /\ k \in 0 .. Len(ts)
    BY ONLY <2>0
  <2> HIDE DEF j
  <2>2. D(k) - D(p - 1) > 0
    BY <2>1, <1>2, <1>3
  <2> QED
    BY <2>1, <2>2, <1>4
<1> QED
  BY <1>1, <1>5, <1>6 DEF D

\* A loop that is not entered is passed over to the bracket that closes it.
LEMMA SkipTokens ==
  ASSUME NEW e, NEW ts \in Seq(Token), Single(ts), NEW S, TextsOf(ts, S),
         NEW p \in 1 .. Len(ts), NEW q \in 1 .. Len(ts), p < q,
         TokDepth(ts, p) = TokDepth(ts, p - 1) + 1,
         TokDepth(ts, q) = TokDepth(ts, p - 1),
         \A k \in p .. q - 1 : TokDepth(ts, k) > TokDepth(ts, p - 1),
         NEW l, NEW d
  PROVE  Reaches(e, Conf(S[p + 1], l, 1, d), Conf(S[q + 1], l, 0, d))
<1> DEFINE D(k) == TokDepth(ts, k)
           w(k) == D(p + k) - D(p - 1)
           P(k) == p + k <= q => Reaches(e, Conf(S[p + 1], l, 1, d), Conf(S[p + k + 1], l, w(k), d))
           T == {k \in Nat : P(k)}
<1>d. /\ \A k \in 0 .. Len(ts) : D(k) \in Int
      /\ \A k \in 1 .. Len(ts) : D(k) = D(k - 1) + Weight(ts[k])
  BY TokDepthStep
<1>p. D(p) = D(p - 1) + 1 /\ D(q) = D(p - 1) /\ p - 1 \in 0 .. Len(ts) /\ p \in 0 .. Len(ts)
      /\ \A k \in p .. q - 1 : D(k) > D(p - 1)
  OBVIOUS
<1> HIDE DEF D
<1>1. 0 \in T
  <2>1. p + 0 = p
    OBVIOUS
  <2>2. w(0) = 1
    BY <2>1, <1>d, <1>p
  <2> QED
    BY <2>1, <2>2, LeadsRefl
<1>2. ASSUME NEW k \in Nat, k \in T PROVE k + 1 \in T
  <2> SUFFICES ASSUME p + (k + 1) <= q
               PROVE  Reaches(e, Conf(S[p + 1], l, 1, d), Conf(S[p + (k + 1) + 1], l, w(k + 1), d))
    OBVIOUS
  <2> DEFINE j == p + (k + 1)
             t == ts[j]
             v == S[j + 1]
             x == w(k)
  <2>1. /\ j \in 1 .. Len(ts) /\ j - 1 = p + k /\ p + k + 1 = j /\ p + k \in p .. q - 1
        /\ p + k <= q /\ p + k \in 0 .. Len(ts) /\ j + 1 \in 1 .. Len(ts) + 1 /\ j \in 0 .. Len(ts)
    OBVIOUS
  <2>2. Reaches(e, Conf(S[p + 1], l, 1, d), Conf(S[j], l, x, d))
    BY <1>2, <2>1
  <2>a. t \in Token
    BY <2>1
  <2>3. S[j] = Meaning(t) \o v /\ v \in Streams /\ t \in Token
    <3> HIDE DEF j, T, w
    <3> QED
      BY <2>1, <2>a DEF TextsOf
  <2>4. x \in Nat \ {0} /\ w(k + 1) = x + Weight(t)
    <3>1. D(p + k) > D(p - 1) /\ D(p + k) \in Int /\ D(p - 1) \in Int /\ D(j) \in Int
      BY <2>1, <1>d, <1>p
    <3>2. D(j) = D(p + k) + Weight(t)
      BY <2>1, <1>d
    <3>3. Weight(t) \in Int
      BY <2>3, WeightType
    <3> QED
      BY <3>1, <3>2, <3>3
  <2>5. t.op \in {"[", "]", "M"} => t.len = 1
    BY <2>1 DEF Single
  <2> HIDE DEF t, v, x, w
  <2>6. Reaches(e, Conf(Meaning(t) \o v, l, x, d), Conf(v, l, w(k + 1), d))
    <3>1. CASE t.op = "["
      <4>1. Meaning(t) = <<"[">> /\ Weight(t) = 1
        BY <2>3, <2>5, <3>1, MeaningPlain, WeightOf, RunUnit
      <4> QED
        BY <2>3, <2>4, <4>1, PassOpening
    <3>2. CASE t.op = "]"
      <4>1. Meaning(t) = <<"]">> /\ Weight(t) = 0 - 1
        BY <2>3, <2>5, <3>2, MeaningPlain, WeightOf, RunUnit
      <4>2. w(k + 1) = x - 1
        BY <2>4, <4>1
      <4> QED
        BY <2>3, <2>4, <4>1, <4>2, PassClosing
    <3>3. CASE t.op \notin {"[", "]"}
      <4>1. Over(Meaning(t)) /\ Weight(t) = 0
        BY <2>3, <2>5, <3>3, OverMeaning, WeightOf
      <4>2. w(k + 1) = x
        BY <2>4, <4>1
      <4> QED
        BY <2>3, <2>4, <4>1, <4>2 DEF Over
    <3> QED
      BY <3>1, <3>2, <3>3
  <2>7. Reaches(e, Conf(S[p + 1], l, 1, d), Conf(v, l, w(k + 1), d))
    BY <2>2, <2>3, <2>6, LeadsTrans
  <2> QED
    BY <2>7 DEF v
<1>3. Nat \subseteq T
  <2> HIDE DEF T
  <2> QED
    BY <1>1, <1>2, SetInduction
<1>4. q - p \in Nat /\ p + (q - p) = q
  OBVIOUS
<1>5. w(q - p) = 0
  BY <1>4, <1>d, <1>p
<1>6. P(q - p)
  BY <1>3, <1>4
<1> QED
  BY <1>4, <1>5, <1>6

-----------------------------------------------------------------------------
(* Reading on from a token.                                                *)

\* The brackets open before the k-th token are at the places P.
Inside(ts, k, P) ==
  /\ P \in Seq(1 .. Len(ts)) /\ TokDepth(ts, k - 1) = Len(P)
  /\ \A i \in 1 .. Len(P) :
       /\ ts[P[i]].op = "[" /\ P[i] < k /\ TokDepth(ts, P[i] - 1) = i - 1
       /\ \A j \in P[i] .. k - 1 : TokDepth(ts, j) >= i
Returns(S, P) == [i \in 1 .. Len(P) |-> S[P[i]]]

\* Read from the k-th token on, with the data d, the text ends with the data f.
Awaits(e, ts, k, d, f) ==
  \E S, P : /\ TextsOf(ts, S) /\ Inside(ts, k, P)
            /\ Ends(e, Conf(S[k], Returns(S, P), 0, d), f)

LEMMA RepeatsType ==
  ASSUME NEW ts \in Seq(Token), NEW S, TextsOf(ts, S), NEW P \in Seq(1 .. Len(ts))
  PROVE  Returns(S, P) \in Seq(Streams) /\ Len(Returns(S, P)) = Len(P) /\ Len(P) \in Nat
<1>1. \A i \in 1 .. Len(P) : S[P[i]] \in Streams
  <2> SUFFICES ASSUME NEW i \in 1 .. Len(P) PROVE S[P[i]] \in Streams
    OBVIOUS
  <2>1. P[i] \in 1 .. Len(ts)
    OBVIOUS
  <2>2. P[i] \in 1 .. Len(ts) + 1
    BY <2>1
  <2> QED
    BY <2>2 DEF TextsOf
<1>2. Len(P) \in Nat
  OBVIOUS
<1> QED
  BY <1>1, <1>2 DEF Returns

LEMMA TextAt ==
  ASSUME NEW ts \in Seq(Token), NEW S, TextsOf(ts, S), NEW k \in 1 .. Len(ts)
  PROVE  S[k] = Meaning(ts[k]) \o S[k + 1] /\ S[k + 1] \in Streams /\ S[k] \in Streams
<1>1. k \in 1 .. Len(ts) + 1 /\ k + 1 \in 1 .. Len(ts) + 1
  OBVIOUS
<1>2. S[k] \in Streams /\ S[k + 1] \in Streams
  BY <1>1 DEF TextsOf
<1>3. S[k] = Meaning(ts[k]) \o S[k + 1]
  BY DEF TextsOf
<1> QED
  BY <1>2, <1>3

LEMMA AwaitsStart ==
  ASSUME NEW e, NEW ts \in Seq(Token), NEW d, NEW f, Ends(e, Begin(Spelled(ts), d), f)
  PROVE  Awaits(e, ts, 1, d, f)
<1>1. PICK S : TextsOf(ts, S)
  BY TextsExist
<1> DEFINE P == <<>>
<1>2. P \in Seq(1 .. Len(ts)) /\ Len(P) = 0 /\ 1 .. 0 = {} /\ 1 - 1 = 0
  OBVIOUS
<1>3. TokDepth(ts, 0) = 0
  BY TokDepthStep
<1>4. Returns(S, P) = <<>>
  <2>1. Returns(S, P) \in Seq(Streams) /\ Len(Returns(S, P)) = 0
    BY <1>1, <1>2, RepeatsType
  <2> QED
    BY <2>1
<1> HIDE DEF P
<1>5. Inside(ts, 1, P)
  BY <1>2, <1>3 DEF Inside
<1>6. Ends(e, Conf(S[1], Returns(S, P), 0, d), f)
  BY <1>1, <1>4 DEF TextsOf, Begin
<1> QED
  BY <1>1, <1>5, <1>6 DEF Awaits

LEMMA InsideNext ==
  ASSUME NEW ts \in Seq(Token), NEW k \in 1 .. Len(ts), NEW P, Inside(ts, k, P),
         Weight(ts[k]) = 0
  PROVE  Inside(ts, k + 1, P)
<1>1. TokDepth(ts, k) = TokDepth(ts, k - 1) + 0
  BY TokDepthStep
<1>2. TokDepth(ts, k - 1) = Len(P) /\ P \in Seq(1 .. Len(ts)) /\ Len(P) \in Nat
  BY DEF Inside
<1>3. TokDepth(ts, k) = Len(P)
  BY <1>1, <1>2
<1>4. (k + 1) - 1 = k
  OBVIOUS
<1>5. ASSUME NEW i \in 1 .. Len(P)
      PROVE  /\ ts[P[i]].op = "[" /\ P[i] < k + 1 /\ TokDepth(ts, P[i] - 1) = i - 1
             /\ \A j \in P[i] .. k : TokDepth(ts, j) >= i
  <2>1. /\ ts[P[i]].op = "[" /\ P[i] < k /\ TokDepth(ts, P[i] - 1) = i - 1
        /\ \A j \in P[i] .. k - 1 : TokDepth(ts, j) >= i
    BY DEF Inside
  <2>2. P[i] \in 1 .. Len(ts)
    BY <1>2
  <2>3. ASSUME NEW j \in P[i] .. k PROVE TokDepth(ts, j) >= i
    <3>1. CASE j = k
      BY <3>1, <1>2, <1>3
    <3>2. CASE j # k
      <4>1. j \in P[i] .. k - 1
        BY <3>2, <2>2
      <4> QED
        BY <4>1, <2>1
    <3> QED
      BY <3>1, <3>2
  <2> QED
    BY <2>1, <2>2, <2>3
<1> QED
  BY <1>2, <1>3, <1>4, <1>5 DEF Inside

\* A statement outside a loop's test.
LEMMA AwaitsNext ==
  ASSUME NEW e, NEW ts \in Seq(Token), NEW k \in 1 .. Len(ts), ts[k].op \notin {"[", "]"},
         NEW d, NEW f, Awaits(e, ts, k, d, f), NEW g, Passes(e, Meaning(ts[k]), d, g)
  PROVE  Awaits(e, ts, k + 1, g, f)
<1>1. PICK S, P : /\ TextsOf(ts, S) /\ Inside(ts, k, P)
                  /\ Ends(e, Conf(S[k], Returns(S, P), 0, d), f)
  BY DEF Awaits
<1>2. P \in Seq(1 .. Len(ts))
  BY <1>1 DEF Inside
<1>3. Returns(S, P) \in Seq(Streams)
  BY <1>1, <1>2, RepeatsType
<1>4. S[k] = Meaning(ts[k]) \o S[k + 1] /\ S[k + 1] \in Streams
  BY <1>1, TextAt
<1>5. Ends(e, Conf(S[k + 1], Returns(S, P), 0, g), f)
  BY <1>1, <1>3, <1>4 DEF Passes
<1>6. Weight(ts[k]) = 0
  BY WeightOf
<1>7. Inside(ts, k + 1, P)
  BY <1>1, <1>6, InsideNext
<1> QED
  BY <1>1, <1>5, <1>7 DEF Awaits

\* On the heap, a run of moves to the left has room.
LEMMA AwaitsRoom ==
  ASSUME NEW e \in Machines, ~e.wrap, NEW ts \in Seq(Token), NEW k \in 1 .. Len(ts), ts[k].op = "<",
         NEW d \in Datas(e), NEW f, Awaits(e, ts, k, d, f)
  PROVE  ts[k].len <= d.head
<1>1. PICK S, P : /\ TextsOf(ts, S) /\ Inside(ts, k, P)
                  /\ Ends(e, Conf(S[k], Returns(S, P), 0, d), f)
  BY DEF Awaits
<1>2. P \in Seq(1 .. Len(ts))
  BY <1>1 DEF Inside
<1>3. Returns(S, P) \in Seq(Streams)
  BY <1>1, <1>2, RepeatsType
<1>4. S[k] = Meaning(ts[k]) \o S[k + 1] /\ S[k + 1] \in Streams
  BY <1>1, TextAt
<1>5. ts[k] \in Token /\ ts[k].len \in Nat
  BY WeightOf
<1>6. Meaning(ts[k]) = Run("<", ts[k].len)
  BY <1>5, MeaningPlain
<1> QED
  BY <1>1, <1>3, <1>4, <1>5, <1>6, LeftFits

\* A token that is one bracket.
LEMMA BracketText ==
  ASSUME NEW ts \in Seq(Token), Single(ts), NEW S, TextsOf(ts, S), NEW k \in 1 .. Len(ts), NEW c,
         c \in {"[", "]"}, ts[k].op = c
  PROVE  /\ S[k] = <<c>> \o S[k + 1] /\ S[k + 1] \in Streams /\ S[k] \in Streams
         /\ Weight(ts[k]) = IF c = "[" THEN 1 ELSE 0 - 1
<1>1. ts[k] \in Token /\ ts[k].len = 1
  BY DEF Single
<1>2. Meaning(ts[k]) = <<c>>
  BY <1>1, MeaningPlain, RunUnit
<1>3. S[k] = Meaning(ts[k]) \o S[k + 1] /\ S[k + 1] \in Streams /\ S[k] \in Streams
  BY TextAt
<1> QED
  BY <1>1, <1>2, <1>3, WeightOf

\* The start of a loop, entered.
LEMMA AwaitsEnter ==
  ASSUME NEW e, NEW ts \in Seq(Token), Single(ts), NEW k \in 1 .. Len(ts), ts[k].op = "[",
         NEW d, NEW f, Awaits(e, ts, k, d, f), Here(d) # 0
  PROVE  Awaits(e, ts, k + 1, d, f)
<1>1. PICK S, P : /\ TextsOf(ts, S) /\ Inside(ts, k, P)
                  /\ Ends(e, Conf(S[k], Returns(S, P), 0, d), f)
  BY DEF Awaits
<1>2. P \in Seq(1 .. Len(ts)) /\ Len(P) \in Nat /\ TokDepth(ts, k - 1) = Len(P)
  BY <1>1 DEF Inside
<1>3. S[k] = <<"[">> \o S[k + 1] /\ S[k + 1] \in Streams /\ S[k] \in Streams /\ Weight(ts[k]) = 1
  BY <1>1, BracketText
<1> DEFINE Q == Append(P, k)
           m == Len(P)
<1>4. /\ Q \in Seq(1 .. Len(ts)) /\ Len(Q) = m + 1 /\ Q[m + 1] = k
      /\ \A i \in 1 .. m : Q[i] = P[i]
  BY <1>2, AppendProperties
<1> HIDE DEF Q
<1>5. Returns(S, Q) = Append(Returns(S, P), S[k])
  <2> DEFINE a == Returns(S, Q)
             r == Returns(S, P)
             b == Append(r, S[k])
  <2>1. a \in Seq(Streams) /\ Len(a) = m + 1 /\ r \in Seq(Streams) /\ Len(r) = m
    BY <1>1, <1>2, <1>4, RepeatsType
  <2>2. /\ \A i \in 1 .. m : a[i] = S[P[i]] /\ r[i] = S[P[i]]
        /\ a[m + 1] = S[k]
    <3>1. \A i \in 1 .. m : i \in 1 .. m + 1
      BY <1>2
    <3>2. m + 1 \in 1 .. m + 1
      BY <1>2
    <3> QED
      BY <1>4, <3>1, <3>2 DEF Returns
  <2> HIDE DEF a, r
  <2>3. /\ b \in Seq(Streams) /\ Len(b) = m + 1 /\ b[m + 1] = S[k]
        /\ \A i \in 1 .. m : b[i] = r[i]
    BY <1>3, <2>1, AppendProperties
  <2> HIDE DEF b
  <2>4. \A i \in 1 .. m + 1 : a[i] = b[i]
    <3> SUFFICES ASSUME NEW i \in 1 .. m + 1 PROVE a[i] = b[i]
      OBVIOUS
    <3>1. i \in 1 .. m \/ i = m + 1
      BY <1>2
    <3> QED
      BY <3>1, <2>2, <2>3
  <2>5. a = b
    BY <2>1, <2>3, <2>4, SeqEqual
  <2> QED
    BY <2>5 DEF a, b, r
<1>6. Ends(e, Conf(S[k + 1], Returns(S, Q), 0, d), f)
  BY <1>1, <1>3, <1>5, EnterText
<1>7. TokDepth(ts, k) = m + 1
  <2>1. TokDepth(ts, k) = TokDepth(ts, k - 1) + Weight(ts[k])
    BY TokDepthStep
  <2> QED
    BY <2>1, <1>2, <1>3
<1>8. Inside(ts, k + 1, Q)
  <2>1. (k + 1) - 1 = k
    OBVIOUS
  <2>2. ASSUME NEW i \in 1 .. m + 1
        PROVE  /\ ts[Q[i]].op = "[" /\ Q[i] < k + 1 /\ TokDepth(ts, Q[i] - 1) = i - 1
               /\ \A j \in Q[i] .. k : TokDepth(ts, j) >= i
    <3>1. CASE i = m + 1
      <4>1. Q[i] = k /\ i - 1 = m
        BY <3>1, <1>2, <1>4
      <4>2. \A j \in k .. k : j = k
        OBVIOUS
      <4> QED
        BY <4>1, <4>2, <3>1, <1>2, <1>7
    <3>2. CASE i # m + 1
      <4>1. i \in 1 .. m /\ i <= m + 1
        BY <3>2, <1>2
      <4>2. /\ ts[P[i]].op = "[" /\ P[i] < k /\ TokDepth(ts, P[i] - 1) = i - 1
            /\ \A j \in P[i] .. k - 1 : TokDepth(ts, j) >= i
        BY <1>1, <4>1 DEF Inside
      <4>3. Q[i] = P[i] /\ P[i] \in 1 .. Len(ts)
        BY <4>1, <1>2, <1>4
      <4>4. ASSUME NEW j \in P[i] .. k PROVE TokDepth(ts, j) >= i
        <5>1. j = k \/ j \in P[i] .. k - 1
          BY <4>3
        <5> QED
          BY <5>1, <4>1, <4>2, <1>2, <1>7
      <4> QED
        BY <4>2, <4>3, <4>4
    <3> QED
      BY <3>1, <3>2
  <2>3. Q \in Seq(1 .. Len(ts)) /\ Len(Q) = m + 1
    BY <1>4
  <2> QED
    BY <2>1, <2>2, <2>3, <1>7 DEF Inside
<1> QED
  BY <1>1, <1>6, <1>8 DEF Awaits

\* A loop that is not entered.
LEMMA AwaitsSkip ==
  ASSUME NEW e, NEW ts \in Seq(Token), Single(ts), NEW k \in 1 .. Len(ts), NEW q \in 1 .. Len(ts),
         Matching(ts, k, q),
         NEW d, NEW f, Awaits(e, ts, k, d, f), Here(d) = 0
  PROVE  Awaits(e, ts, q + 1, d, f)
<1>1. PICK S, P : /\ TextsOf(ts, S) /\ Inside(ts, k, P)
                  /\ Ends(e, Conf(S[k], Returns(S, P), 0, d), f)
  BY DEF Awaits
<1>2. P \in Seq(1 .. Len(ts)) /\ Len(P) \in Nat /\ TokDepth(ts, k - 1) = Len(P)
  BY <1>1 DEF Inside
<1>m. /\ k < q /\ ts[k].op = "[" /\ ts[q].op = "]"
      /\ TokDepth(ts, q) = TokDepth(ts, k - 1)
      /\ \A j \in k .. q - 1 : TokDepth(ts, j) > TokDepth(ts, k - 1)
  BY MatchingDepths
<1>3. S[k] = <<"[">> \o S[k + 1] /\ S[k + 1] \in Streams /\ Weight(ts[k]) = 1
  BY <1>1, <1>m, BracketText
<1>4. Ends(e, Conf(S[k + 1], Returns(S, P), 1, d), f)
  BY <1>1, <1>3, EnterText
<1>5. TokDepth(ts, k) = TokDepth(ts, k - 1) + 1
  BY <1>3, TokDepthStep
<1>6. Reaches(e, Conf(S[k + 1], Returns(S, P), 1, d), Conf(S[q + 1], Returns(S, P), 0, d))
  BY <1>1, <1>m, <1>5, SkipTokens
<1>7. Ends(e, Conf(S[q + 1], Returns(S, P), 0, d), f)
  BY <1>4, <1>6, ReachesEnd
<1>8. Inside(ts, q + 1, P)
  <2>1. (q + 1) - 1 = q
    OBVIOUS
  <2>2. ASSUME NEW i \in 1 .. Len(P)
        PROVE  /\ ts[P[i]].op = "[" /\ P[i] < q + 1 /\ TokDepth(ts, P[i] - 1) = i - 1
               /\ \A j \in P[i] .. q : TokDepth(ts, j) >= i
    <3>1. /\ ts[P[i]].op = "[" /\ P[i] < k /\ TokDepth(ts, P[i] - 1) = i - 1
          /\ \A j \in P[i] .. k - 1 : TokDepth(ts, j) >= i
      BY <1>1 DEF Inside
    <3>2. P[i] \in 1 .. Len(ts)
      BY <1>2
    <3>3. ASSUME NEW j \in P[i] .. q PROVE TokDepth(ts, j) >= i
      <4>1. j \in P[i] .. k - 1 \/ j \in k .. q - 1 \/ j = q
        BY <3>2
      <4>2. TokDepth(ts, j) \in Int
        <5>1. j \in 0 .. Len(ts)
          BY <3>2
        <5> QED
          BY <5>1, TokDepthStep
      <4>3. i <= Len(P)
        OBVIOUS
      <4>4. CASE j \in k .. q - 1
        BY <4>2, <4>3, <4>4, <1>2, <1>m
      <4>5. CASE j = q
        BY <4>3, <4>5, <1>2, <1>m
      <4> QED
        BY <4>1, <4>4, <4>5, <3>1
    <3>4. P[i] < q + 1
      BY <3>1, <3>2, <1>m
    <3> QED
      BY <3>1, <3>3, <3>4
  <2> QED
    BY <2>1, <2>2, <1>2, <1>m DEF Inside
<1> QED
  BY <1>1, <1>7, <1>8 DEF Awaits

\* The end of a loop goes back to the bracket it closes.
LEMMA AwaitsRepeat ==
  ASSUME NEW e, NEW ts \in Seq(Token), Single(ts), NEW p \in 1 .. Len(ts), NEW k \in 1 .. Len(ts),
         Matching(ts, p, k),
         NEW d, NEW f, Awaits(e, ts, k, d, f)
  PROVE  Awaits(e, ts, p, d, f)
<1>1. PICK S, P : /\ TextsOf(ts, S) /\ Inside(ts, k, P)
                  /\ Ends(e, Conf(S[k], Returns(S, P), 0, d), f)
  BY DEF Awaits
<1>2. P \in Seq(1 .. Len(ts)) /\ Len(P) \in Nat /\ TokDepth(ts, k - 1) = Len(P)
  BY <1>1 DEF Inside
<1>m. /\ p < k /\ ts[p].op = "[" /\ ts[k].op = "]"
      /\ TokDepth(ts, k) = TokDepth(ts, p - 1)
      /\ \A j \in p .. k - 1 : TokDepth(ts, j) > TokDepth(ts, p - 1)
  BY MatchingDepths
<1>3. S[k] = <<"]">> \o S[k + 1] /\ S[k + 1] \in Streams /\ Weight(ts[k]) = 0 - 1
  BY <1>1, <1>m, BracketText
<1> DEFINE r == Returns(S, P)
           m == Len(P)
<1>4. r \in Seq(Streams) /\ Len(r) = m
  BY <1>1, <1>2, RepeatsType
<1>5. r # <<>> /\ Ends(e, Conf(r[Len(r)], SubSeq(r, 1, Len(r) - 1), 0, d), f)
  BY <1>1, <1>3, CloseText
<1>6. m \in Nat \ {0} /\ m \in 1 .. m
  <2>1. m # 0
    <3> HIDE DEF r
    <3> QED
      BY <1>4, <1>5
  <2> QED
    BY <2>1, <1>2
<1>D. \A j \in 0 .. Len(ts) : TokDepth(ts, j) \in Int
  BY TokDepthStep
<1>7. TokDepth(ts, p - 1) = m - 1
  <2>1. TokDepth(ts, k) = TokDepth(ts, k - 1) + Weight(ts[k])
    BY TokDepthStep
  <2> QED
    BY <2>1, <1>2, <1>3, <1>m
<1>in. \A i \in 1 .. m :
         /\ ts[P[i]].op = "[" /\ P[i] < k /\ TokDepth(ts, P[i] - 1) = i - 1
         /\ P[i] \in 1 .. Len(ts)
         /\ \A j \in P[i] .. k - 1 : TokDepth(ts, j) >= i
  BY <1>1, <1>2 DEF Inside
<1>8. P[m] = p
  <2> DEFINE q == P[m]
  <2>1. /\ q < k /\ TokDepth(ts, q - 1) = m - 1 /\ q \in 1 .. Len(ts)
        /\ \A j \in q .. k - 1 : TokDepth(ts, j) >= m
    BY <1>6, <1>in
  <2> HIDE DEF q
  <2>2. ASSUME p < q PROVE FALSE
    <3>1. q - 1 \in p .. k - 1
      BY <2>1, <2>2
    <3>2. TokDepth(ts, q - 1) > TokDepth(ts, p - 1)
      BY <3>1, <1>m
    <3> QED
      BY <3>2, <2>1, <1>7, <1>6
  <2>3. ASSUME q < p PROVE FALSE
    <3>1. p - 1 \in q .. k - 1
      BY <2>1, <2>3, <1>m
    <3>2. TokDepth(ts, p - 1) >= m
      BY <3>1, <2>1
    <3> QED
      BY <3>2, <1>7, <1>6
  <2>4. p \in Int /\ q \in Int
    BY <2>1
  <2>5. p = q
    BY <2>2, <2>3, <2>4
  <2> QED
    BY <2>5 DEF q
<1> DEFINE Q == SubSeq(P, 1, m - 1)
<1>9. Q \in Seq(1 .. Len(ts)) /\ Len(Q) = m - 1 /\ \A i \in 1 .. m - 1 : Q[i] = P[i]
  <2>1. m - 1 \in 0 .. Len(P)
    BY <1>6
  <2> QED
    BY <2>1, <1>2, Prefix
<1> HIDE DEF Q
<1>10. Returns(S, Q) = SubSeq(r, 1, Len(r) - 1) /\ r[Len(r)] = S[p]
  <2> DEFINE a == Returns(S, Q)
             b == SubSeq(r, 1, m - 1)
  <2>1. a \in Seq(Streams) /\ Len(a) = m - 1
    BY <1>1, <1>9, RepeatsType
  <2>2. \A i \in 1 .. m : r[i] = S[P[i]]
    BY <1>2 DEF Returns
  <2>3. \A i \in 1 .. m - 1 : a[i] = S[P[i]]
    BY <1>9 DEF Returns
  <2> HIDE DEF a, r
  <2>4. m - 1 \in 0 .. Len(r)
    BY <1>4, <1>6
  <2>5. b \in Seq(Streams) /\ Len(b) = m - 1 /\ \A i \in 1 .. m - 1 : b[i] = r[i]
    BY <2>4, <1>4, Prefix
  <2> HIDE DEF b
  <2>6. \A i \in 1 .. m - 1 : i \in 1 .. m
    BY <1>6
  <2>7. \A i \in 1 .. m - 1 : a[i] = b[i]
    BY <2>2, <2>3, <2>5, <2>6
  <2>8. a = b
    BY <2>1, <2>5, <2>7, SeqEqual
  <2> QED
    BY <2>2, <2>8, <1>4, <1>6, <1>8 DEF a, b
<1>11. Ends(e, Conf(S[p], Returns(S, Q), 0, d), f)
  BY <1>5, <1>10
<1>12. Inside(ts, p, Q)
  <2>1. ASSUME NEW i \in 1 .. m - 1
        PROVE  /\ ts[Q[i]].op = "[" /\ Q[i] < p /\ TokDepth(ts, Q[i] - 1) = i - 1
               /\ \A j \in Q[i] .. p - 1 : TokDepth(ts, j) >= i
    <3>1. i \in 1 .. m /\ Q[i] = P[i] /\ i < m
      BY <1>6, <1>9
    <3>2. /\ ts[P[i]].op = "[" /\ P[i] < k /\ TokDepth(ts, P[i] - 1) = i - 1
          /\ P[i] \in 1 .. Len(ts)
          /\ \A j \in P[i] .. k - 1 : TokDepth(ts, j) >= i
      BY <3>1, <1>in
    <3>3. P[i] # p
      BY <3>1, <3>2, <1>6, <1>7
    <3>4. ASSUME p < P[i] PROVE FALSE
      <4>1. P[i] - 1 \in p .. k - 1
        BY <3>2, <3>4
      <4>2. TokDepth(ts, P[i] - 1) > TokDepth(ts, p - 1)
        BY <4>1, <1>m
      <4> QED
        BY <4>2, <3>1, <3>2, <1>6, <1>7
    <3>5. P[i] < p
      BY <3>2, <3>3, <3>4
    <3>6. \A j \in P[i] .. p - 1 : j \in P[i] .. k - 1
      BY <3>2, <1>m
    <3> QED
      BY <3>1, <3>2, <3>5, <3>6
  <2> QED
    BY <2>1, <1>7, <1>9 DEF Inside
<1> QED
  BY <1>1, <1>11, <1>12 DEF Awaits

\* Past the last token nothing is left to do.
LEMMA AwaitsEnd ==
  ASSUME NEW e, NEW ts \in Seq(Token), NEW d, NEW f, Awaits(e, ts, Len(ts) + 1, d, f)
  PROVE  f = d
<1>1. PICK S, P : /\ TextsOf(ts, S) /\ Inside(ts, Len(ts) + 1, P)
                  /\ Ends(e, Conf(S[Len(ts) + 1], Returns(S, P), 0, d), f)
  BY DEF Awaits
<1> DEFINE x == Conf(<<>>, Returns(S, P), 0, d)
<1>2. Ends(e, x, f) /\ Halted(x) /\ x.data = d
  BY <1>1 DEF TextsOf, Conf, Halted
<1> HIDE DEF x
<1>3. PICK n \in Nat : EndsIn(e, x, f, n)
  BY <1>2 DEF Ends
<1>4. n = 0
  BY <1>2, <1>3, EndsFirst DEF May
<1> QED
  BY <1>2, <1>3, <1>4, EndsFirst

-----------------------------------------------------------------------------
(* The core language.                                                      *)

\* Tokens of the core language.
Core(ts) == \A k \in 1 .. Len(ts) : ts[k].op \in CoreOps

LEMMA CoreAppend ==
  ASSUME NEW ts \in Seq(Token), NEW t \in Token
  PROVE  Core(Append(ts, t)) <=> Core(ts) /\ t.op \in CoreOps
<1> DEFINE us == Append(ts, t)
           n == Len(ts)
           P(e) == e.op \in CoreOps
<1>1. us \in Seq(Token) /\ Len(us) = n + 1 /\ us[n + 1] = t /\ \A k \in 1 .. n : us[k] = ts[k]
  BY AppendProperties
<1> HIDE DEF us
<1>2. (\A k \in 1 .. n + 1 : P(us[k])) <=> (\A k \in 1 .. n : P(ts[k])) /\ P(t)
  <2>1. n \in Nat
    OBVIOUS
  <2> HIDE DEF n, P
  <2>2. n + 1 \in 1 .. n + 1 /\ \A k \in 1 .. n : k \in 1 .. n + 1
    BY <2>1
  <2>3. \A k \in 1 .. n + 1 : k \in 1 .. n \/ k = n + 1
    BY <2>1
  <2> QED
    BY ONLY <1>1, <2>2, <2>3
<1> QED
  BY <1>1, <1>2 DEF Core, us

\* Tokens of the core language stand for their characters.
LEMMA CoreSpelled ==
  \A ts \in Seq(Token) : Core(ts) => Spelled(ts) = UnfoldAll(ts)
<1> DEFINE T == {ts \in Seq(Token) : Core(ts) => Spelled(ts) = UnfoldAll(ts)}
<1>1. <<>> \in T
  BY UnfoldAllEmpty, SpelledEmpty
<1>2. ASSUME NEW ts \in Seq(Token), ts \in T, NEW t \in Token PROVE Append(ts, t) \in T
  <2> DEFINE us == Append(ts, t)
  <2>1. us \in Seq(Token)
    OBVIOUS
  <2>2. ASSUME Core(us) PROVE Spelled(us) = UnfoldAll(us)
    <3>1. Core(ts) /\ t.op \in CoreOps
      BY <2>2, CoreAppend
    <3>2. Spelled(us) = Spelled(ts) \o Meaning(t) /\ UnfoldAll(us) = UnfoldAll(ts) \o Unfold(t)
      BY SpelledAppend, UnfoldAllAppend
    <3>3. Meaning(t) = Run(t.op, t.len) /\ Unfold(t) = Run(t.op, t.len)
      <4>1. t.op \notin RewriteOps
        BY <3>1 DEF CoreOps, RewriteOps
      <4> QED
        BY <4>1, MeaningPlain, UnfoldIsRun DEF RewriteOps
    <3> QED
      BY <1>2, <3>1, <3>2, <3>3
  <2> QED
    BY <2>1, <2>2
<1>3. Seq(Token) \subseteq T
  <2> HIDE DEF T
  <2> QED
    BY <1>1, <1>2, SeqInduction
<1> QED
  BY <1>3

-----------------------------------------------------------------------------
(* The interpreter with fuel.                                              *)

\* Interpreting a text until it has halted, for any number of steps, is an execution
\* that ends with the data of the last step: what a run finds by evaluating
\* Interpret is what the theorems about Ends speak of (lexer.c:15-187, emmiters.c:105-312).
THEOREM InterpretEnds ==
  ASSUME NEW e \in Machines, NEW x \in Confs(e), NEW n \in Nat, Halted(Interpret(e, x, n))
  PROVE  Ends(e, x, Interpret(e, x, n).data)
<1> DEFINE Moves(y) == IF Halted(y) \/ Stuck(e, y) THEN y ELSE Step(e, y)
           step == [k \in 1 .. n |-> [y \in Confs(e) |-> Moves(y)]]
           Solves(g) == g = [k \in 0 .. n |-> IF k = 0 THEN x ELSE Moves(g[k - 1])]
           D == CHOOSE g : Solves(g)
<1>0. \A y \in Confs(e) : Moves(y) \in Confs(e)
  BY StepType DEF May
<1>1. \A k \in 1 .. n : \A y \in Confs(e) : step[k][y] = Moves(y)
  OBVIOUS
<1>d. Interpret(e, x, n) = D[n]
  BY DEF Interpret
<1> HIDE DEF Moves
<1>2. \A k \in 1 .. n : \A y \in Confs(e) : step[k][y] \in Confs(e)
  BY <1>0, <1>1
<1> HIDE DEF step
<1>3. PICK f \in [0 .. n -> Confs(e)] : Iterates(f, x, step, n)
  BY <1>2, Iteration
<1>4. \A k \in 1 .. n : f[k] = Moves(f[k - 1])
  <2> SUFFICES ASSUME NEW k \in 1 .. n PROVE f[k] = Moves(f[k - 1])
    OBVIOUS
  <2>1. f[k - 1] \in Confs(e)
    OBVIOUS
  <2> QED
    BY <2>1, <1>1, <1>3 DEF Iterates
<1>5. Solves(f)
  <2>1. \A k \in 0 .. n : f[k] = IF k = 0 THEN x ELSE Moves(f[k - 1])
    BY <1>3, <1>4 DEF Iterates
  <2> QED
    BY <2>1
<1>6. Solves(D)
  BY <1>5
<1>7. D[0] = x /\ \A k \in 1 .. n : D[k] = Moves(D[k - 1])
  <2> HIDE DEF D
  <2> QED
    BY <1>6
<1> HIDE DEF D
<1> DEFINE g == D[n].data
           T == {j \in Nat : j <= n => Ends(e, D[n - j], g)}
<1>8. 0 \in T
  <2>1. Halted(D[n]) /\ n - 0 = n
    BY <1>d
  <2>2. EndsIn(e, D[n], g, 0) /\ 0 \in Nat
    BY <2>1, EndsNow
  <2> HIDE DEF g
  <2>3. Ends(e, D[n - 0], g)
    BY <2>1, <2>2 DEF Ends
  <2> QED
    BY <2>3
<1>9. ASSUME NEW j \in Nat, j \in T PROVE j + 1 \in T
  <2> SUFFICES ASSUME j + 1 <= n PROVE Ends(e, D[n - (j + 1)], g)
    OBVIOUS
  <2>1. Ends(e, D[n - j], g)
    BY <1>9
  <2>2. n - j \in 1 .. n /\ (n - j) - 1 = n - (j + 1)
    OBVIOUS
  <2> DEFINE y == D[n - (j + 1)]
  <2>3. D[n - j] = Moves(y)
    BY <1>7, <2>2
  <2> HIDE DEF y, g
  <2>4. CASE Halted(y) \/ Stuck(e, y)
    BY <2>1, <2>3, <2>4 DEF Moves, y
  <2>5. CASE ~(Halted(y) \/ Stuck(e, y))
    <3>1. May(e, y) /\ Ends(e, Step(e, y), g)
      BY <2>1, <2>3, <2>5 DEF Moves, May
    <3> QED
      BY <3>1, LeadsStep DEF Reaches, y
  <2> QED
    BY <2>4, <2>5
<1>10. Nat \subseteq T
  <2> HIDE DEF T
  <2> QED
    BY <1>8, <1>9, SetInduction
<1>11. Ends(e, D[n - n], g)
  BY <1>10
<1> QED
  BY <1>11, <1>7, <1>d
=============================================================================
