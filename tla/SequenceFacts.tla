----------------------------- MODULE SequenceFacts -----------------------------
(* Facts about sequences that the proofs of several components need. *)
EXTENDS Filters, SequencesExt, FiniteSetsExt, SequenceTheorems, FiniteSetTheorems,
        WellFoundedInduction, TLAPS

LEMMA LeastNatural ==
  ASSUME NEW T \in SUBSET Nat, T # {}
  PROVE  \E n \in T : \A m \in T : n <= m
<1> DEFINE R == {ss \in Nat \X Nat : ss[1] < ss[2]}
<1>1. IsWellFoundedOn(R, Nat)
  BY NatLessThanWellFounded DEF OpToRel
<1>2. PICK x \in T : \A y \in T : <<y, x>> \notin R
  <2> HIDE DEF R
  <2> QED  BY <1>1, WFMin
<1>3. ASSUME NEW y \in T
      PROVE  x <= y
  <2>1. x \in Nat /\ y \in Nat
    OBVIOUS
  <2>2. ~(y < x)
    BY <1>2, <2>1
  <2> QED  BY ONLY <2>1, <2>2
<1> QED  BY <1>3

(* Induction, over sets instead of predicates. *)
LEMMA Induction ==
  ASSUME NEW T \in SUBSET Nat, 0 \in T, \A n \in T : n + 1 \in T
  PROVE  T = Nat
<1> SUFFICES ASSUME Nat \ T # {}
             PROVE  FALSE
  OBVIOUS
<1>1. PICK n \in Nat \ T : \A m \in Nat \ T : n <= m
  BY LeastNatural
<1>2. n - 1 \in Nat /\ ~(n <= n - 1) /\ n = (n - 1) + 1
  BY <1>1
<1>3. n - 1 \in T
  BY <1>1, <1>2
<1> QED  BY <1>1, <1>2, <1>3
-----------------------------------------------------------------------------
(* The recursive function of Kept exists. *)
KeepsTo(s, K, n, f) ==
  f = [i \in 0..n |->
        IF i = 0 THEN <<>> ELSE IF s[i] \in K THEN Append(f[i - 1], s[i]) ELSE f[i - 1]]

LEMMA KeptToExists ==
  ASSUME NEW s, NEW K, NEW n \in Nat
  PROVE  \E f : KeepsTo(s, K, n, f)
<1> DEFINE Rec(f, m) == KeepsTo(s, K, m, f)
           T == {m \in Nat : \E f : Rec(f, m)}
<1>1. 0 \in T
  <2>1. Rec([i \in 0..0 |-> <<>>], 0)
    BY DEF KeepsTo
  <2> HIDE DEF Rec
  <2> QED  BY <2>1
<1>2. ASSUME NEW m \in T
      PROVE  m + 1 \in T
  <2>1. PICK f : Rec(f, m)
    OBVIOUS
  <2> DEFINE last == IF s[m + 1] \in K THEN Append(f[m], s[m + 1]) ELSE f[m]
             g == [i \in 0..m + 1 |-> IF i = m + 1 THEN last ELSE f[i]]
  <2>2. Rec(g, m + 1)
    <3>1. ASSUME NEW i \in 0..m + 1
          PROVE  g[i] = IF i = 0 THEN <<>>
                        ELSE IF s[i] \in K THEN Append(g[i - 1], s[i]) ELSE g[i - 1]
      <4>1. CASE i = m + 1
        <5>1. i # 0 /\ i - 1 = m /\ m \in 0..m + 1 /\ m # m + 1
          BY <4>1
        <5>2. g[i - 1] = f[m] /\ g[i] = last
          BY <4>1, <5>1
        <5> QED  BY <4>1, <5>1, <5>2
      <4>2. CASE i \in 0..m
        <5>1. g[i] = f[i] /\ (i # 0 => i - 1 \in 0..m + 1 /\ i - 1 # m + 1)
          BY <4>2
        <5>2. i # 0 => g[i - 1] = f[i - 1]
          BY <5>1
        <5>3. f[i] = IF i = 0 THEN <<>>
                     ELSE IF s[i] \in K THEN Append(f[i - 1], s[i]) ELSE f[i - 1]
          BY <2>1, <4>2 DEF KeepsTo
        <5> HIDE DEF g
        <5> QED  BY <5>1, <5>2, <5>3
      <4> QED  BY <4>1, <4>2
    <3>2. g = [i \in 0..m + 1 |-> g[i]]
      OBVIOUS
    <3> HIDE DEF g
    <3> QED  BY <3>1, <3>2 DEF KeepsTo
  <2> HIDE DEF g, Rec
  <2> QED  BY <2>2
<1> HIDE DEF T
<1>3. T = Nat
  BY <1>1, <1>2, Induction DEF T
<1> QED  BY <1>3 DEF T

LEMMA KeptToSteps ==
  ASSUME NEW S, NEW s \in Seq(S), NEW K
  PROVE  /\ KeptTo(s, K)[0] = <<>>
         /\ \A i \in 1..Len(s) : KeptTo(s, K)[i] =
              IF s[i] \in K THEN Append(KeptTo(s, K)[i - 1], s[i]) ELSE KeptTo(s, K)[i - 1]
<1>1. Len(s) \in Nat
  OBVIOUS
<1>2. KeptTo(s, K) = CHOOSE f : KeepsTo(s, K, Len(s), f)
  BY DEF KeptTo, KeepsTo
<1>3. \E f : KeepsTo(s, K, Len(s), f)
  BY <1>1, KeptToExists
<1>4. KeepsTo(s, K, Len(s), KeptTo(s, K))
  BY ONLY <1>2, <1>3
<1>5. KeptTo(s, K) = [i \in 0..Len(s) |->
        IF i = 0 THEN <<>>
        ELSE IF s[i] \in K THEN Append(KeptTo(s, K)[i - 1], s[i]) ELSE KeptTo(s, K)[i - 1]]
  BY ONLY <1>4 DEF KeepsTo
<1> DEFINE f == KeptTo(s, K)
<1> HIDE DEF f
<1>6. f[0] = <<>>
  BY <1>1, <1>5 DEF f
<1>7. ASSUME NEW i \in 1..Len(s)
      PROVE  f[i] = IF s[i] \in K THEN Append(f[i - 1], s[i]) ELSE f[i - 1]
  <2>1. i \in 0..Len(s) /\ i # 0
    BY <1>1
  <2> QED  BY <1>5, <2>1 DEF f
<1> QED  BY <1>6, <1>7 DEF f

(* Kept keeps the elements of s that are in K, all of them and no others,  *)
(* and none twice that s does not hold twice.                              *)
KeepsUpTo(S, s, K, n, k) ==
  /\ k \in Seq(S \cap K)
  /\ Len(k) <= n
  /\ \A j \in 1..Len(k) : \E i \in 1..n : k[j] = s[i]
  /\ \A i \in 1..n : s[i] \in K => \E j \in 1..Len(k) : k[j] = s[i]
  /\ IsInjective(s) => IsInjective(k)

LEMMA KeepsUpToStep ==
  ASSUME NEW S, NEW s \in Seq(S), NEW K, NEW n \in Nat, n + 1 <= Len(s), NEW k,
         KeepsUpTo(S, s, K, n, k)
  PROVE  KeepsUpTo(S, s, K, n + 1,
           IF s[n + 1] \in K THEN Append(k, s[n + 1]) ELSE k)
<1> DEFINE e == s[n + 1]
<1>1. /\ k \in Seq(S \cap K) /\ Len(k) \in Nat /\ Len(k) <= n
      /\ Len(s) \in Nat /\ n + 1 \in 1..Len(s) /\ e \in S
  BY DEF KeepsUpTo
<1>2. 1..n + 1 = (1..n) \cup {n + 1}
  OBVIOUS
<1>3. CASE e \notin K
  <2>1. \A i \in 1..n + 1 : s[i] \in K => i \in 1..n
    BY <1>2, <1>3
  <2>2. Len(k) <= n + 1
    BY <1>1
  <2> HIDE DEF e
  <2>3. KeepsUpTo(S, s, K, n + 1, k)
    BY <1>2, <2>1, <2>2 DEF KeepsUpTo
  <2> QED  BY <1>3, <2>3 DEF e
<1>4. CASE e \in K
  <2> DEFINE l == Append(k, e)
  <2>1. /\ l \in Seq(S \cap K) /\ Len(l) = Len(k) + 1
        /\ \A j \in 1..Len(k) : l[j] = k[j]
        /\ l[Len(k) + 1] = e
    <3>1. e \in S \cap K
      BY <1>1, <1>4
    <3> HIDE DEF e
    <3> QED  BY <1>1, <3>1, AppendProperties
  <2> HIDE DEF l
  <2>2. 1..Len(l) = (1..Len(k)) \cup {Len(k) + 1} /\ Len(l) <= n + 1
    BY <1>1, <2>1
  <2>3. ASSUME NEW j \in 1..Len(l)
        PROVE  \E i \in 1..n + 1 : l[j] = s[i] /\ (j \in 1..Len(k) => i \in 1..n)
    <3>1. CASE j \in 1..Len(k)
      BY <1>2, <2>1, <3>1 DEF KeepsUpTo
    <3>2. CASE j = Len(k) + 1
      <4>1. j \notin 1..Len(k)
        BY <1>1, <3>2
      <4> QED  BY <1>2, <2>1, <3>2, <4>1
    <3> QED  BY <2>2, <3>1, <3>2
  <2>4. ASSUME NEW i \in 1..n + 1, s[i] \in K
        PROVE  \E j \in 1..Len(l) : l[j] = s[i]
    <3>1. CASE i \in 1..n
      <4>1. PICK j \in 1..Len(k) : k[j] = s[i]
        BY <2>4, <3>1 DEF KeepsUpTo
      <4> QED  BY <2>1, <2>2, <4>1
    <3>2. CASE i = n + 1
      BY <2>1, <2>2, <3>2
    <3> QED  BY <1>2, <3>1, <3>2
  <2>5. ASSUME IsInjective(s), NEW i \in 1..Len(l), NEW j \in 1..Len(l), l[i] = l[j]
        PROVE  i = j
    <3>1. IsInjective(k)
      BY <2>5 DEF KeepsUpTo
    <3>2. ASSUME NEW a \in 1..Len(k)
          PROVE  l[a] # e
      <4>1. PICK b \in 1..n : k[a] = s[b]
        BY DEF KeepsUpTo
      <4>2. b \in 1..Len(s) /\ b # n + 1
        BY <1>1
      <4>3. s[b] # e
        BY <1>1, <2>5, <4>2 DEF IsInjective
      <4> QED  BY <2>1, <4>1, <4>3
    <3>3. \A a, b \in 1..Len(k) : l[a] = l[b] => a = b
      BY <2>1, <3>1 DEF IsInjective
    <3> HIDE DEF e
    <3> QED  BY <2>1, <2>2, <2>5, <3>2, <3>3
  <2> HIDE DEF e
  <2>6. IsInjective(s) => IsInjective(l)
    BY <2>5 DEF IsInjective
  <2>7. KeepsUpTo(S, s, K, n + 1, l)
    BY <2>1, <2>2, <2>3, <2>4, <2>6 DEF KeepsUpTo
  <2> QED  BY <1>4, <2>7 DEF l, e
<1> QED  BY <1>3, <1>4

LEMMA KeptProperties ==
  ASSUME NEW S, NEW s \in Seq(S), NEW K
  PROVE  KeepsUpTo(S, s, K, Len(s), Kept(s, K))
<1> DEFINE k(n) == KeptTo(s, K)[n]
           T == {n \in Nat : n <= Len(s) => KeepsUpTo(S, s, K, n, k(n))}
<1>1. 0 \in T
  <2>1. k(0) = <<>>
    BY KeptToSteps
  <2>2. KeepsUpTo(S, s, K, 0, <<>>)
    BY DEF KeepsUpTo, IsInjective
  <2> HIDE DEF k
  <2> QED  BY <2>1, <2>2
<1>2. ASSUME NEW n \in T
      PROVE  n + 1 \in T
  <2> SUFFICES ASSUME n + 1 <= Len(s)
               PROVE  KeepsUpTo(S, s, K, n + 1, k(n + 1))
    OBVIOUS
  <2>1. n \in Nat /\ n <= Len(s) /\ n + 1 \in 1..Len(s) /\ (n + 1) - 1 = n
    OBVIOUS
  <2>2. KeepsUpTo(S, s, K, n, k(n))
    BY <2>1
  <2>3. k(n + 1) = IF s[n + 1] \in K THEN Append(k(n), s[n + 1]) ELSE k(n)
    BY <2>1, KeptToSteps
  <2> HIDE DEF k
  <2> QED  BY <2>1, <2>2, <2>3, KeepsUpToStep
<1> HIDE DEF k
<1>3. T = Nat
  <2> HIDE DEF T
  <2>1. T \in SUBSET Nat
    BY DEF T
  <2> QED  BY <1>1, <1>2, <2>1, Induction
<1>4. Len(s) \in T
  BY <1>3
<1> QED  BY <1>4 DEF Kept, k
-----------------------------------------------------------------------------
LEMMA RemoveAtProperties ==
  ASSUME NEW S, NEW s \in Seq(S), NEW i \in 1..Len(s)
  PROVE  /\ RemoveAt(s, i) \in Seq(S)
         /\ Len(RemoveAt(s, i)) = Len(s) - 1
         /\ \A j \in 1..Len(s) - 1 : RemoveAt(s, i)[j] = IF j < i THEN s[j] ELSE s[j + 1]
<1> DEFINE a == SubSeq(s, 1, i - 1)
           b == SubSeq(s, i + 1, Len(s))
<1>1. /\ Len(s) \in Nat /\ i \in Nat /\ 1 <= i /\ i <= Len(s)
      /\ \A k \in 1..Len(s) : s[k] \in S
  OBVIOUS
<1>2. /\ a \in Seq(S) /\ Len(a) = i - 1
      /\ \A j \in 1..i - 1 : a[j] = s[j]
  <2>1. /\ 1 \in Int /\ i - 1 \in Int /\ (i - 1) - 1 + 1 = i - 1
        /\ \A k \in 1..i - 1 : s[k] \in S
        /\ (IF 1 <= i - 1 THEN (i - 1) - 1 + 1 ELSE 0) = i - 1
    BY <1>1
  <2>2. /\ a \in Seq(S) /\ Len(a) = (IF 1 <= i - 1 THEN (i - 1) - 1 + 1 ELSE 0)
        /\ \A j \in 1..(i - 1) - 1 + 1 : a[j] = s[1 + j - 1]
    BY ONLY <2>1, SubSeqProperties
  <2>3. \A j \in 1..i - 1 : 1 + j - 1 = j
    OBVIOUS
  <2> HIDE DEF a
  <2> QED  BY <2>1, <2>2, <2>3
<1>3. /\ b \in Seq(S) /\ Len(b) = Len(s) - i
      /\ \A j \in 1..Len(s) - i : b[j] = s[i + j]
  <2>1. PICK c \in Int : c = i + 1
    BY <1>1
  <2>2. /\ Len(s) \in Int /\ Len(s) - c + 1 = Len(s) - i
        /\ \A k \in c..Len(s) : s[k] \in S
        /\ (IF c <= Len(s) THEN Len(s) - c + 1 ELSE 0) = Len(s) - i
    BY <1>1, <2>1
  <2>3. \A m, n \in Int : (\A k \in m..n : s[k] \in S) =>
           /\ SubSeq(s, m, n) \in Seq(S)
           /\ Len(SubSeq(s, m, n)) = (IF m <= n THEN n - m + 1 ELSE 0)
           /\ \A j \in 1..n - m + 1 : SubSeq(s, m, n)[j] = s[m + j - 1]
    BY ONLY SubSeqProperties
  <2>4. /\ SubSeq(s, c, Len(s)) \in Seq(S)
        /\ Len(SubSeq(s, c, Len(s))) = (IF c <= Len(s) THEN Len(s) - c + 1 ELSE 0)
        /\ \A j \in 1..Len(s) - c + 1 : SubSeq(s, c, Len(s))[j] = s[c + j - 1]
    BY ONLY <2>1, <2>2, <2>3, Zenon
  <2>5. \A j \in 1..Len(s) - i : c + j - 1 = i + j
    BY <1>1, <2>1
  <2> QED  BY <2>1, <2>2, <2>4, <2>5
<1> HIDE DEF a, b
<1>4. /\ a \o b \in Seq(S) /\ Len(a \o b) = Len(a) + Len(b)
      /\ \A j \in 1..Len(a) + Len(b) :
           (a \o b)[j] = IF j <= Len(a) THEN a[j] ELSE b[j - Len(a)]
  BY ONLY <1>2, <1>3, ConcatProperties
<1>5. Len(a) + Len(b) = Len(s) - 1
  BY ONLY <1>1, <1>2, <1>3
<1>6. ASSUME NEW j \in 1..Len(s) - 1
      PROVE  (a \o b)[j] = IF j < i THEN s[j] ELSE s[j + 1]
  <2>1. CASE j < i
    <3>1. j \in 1..i - 1 /\ j <= i - 1
      BY ONLY <1>1, <1>6, <2>1
    <3> QED  BY <1>2, <1>4, <1>5, <2>1, <3>1
  <2>2. CASE ~(j < i)
    <3>1. j - (i - 1) \in 1..Len(s) - i /\ ~(j <= i - 1) /\ i + (j - (i - 1)) = j + 1
      BY ONLY <1>1, <1>6, <2>2
    <3> QED  BY <1>2, <1>3, <1>4, <1>5, <2>2, <3>1
  <2> QED  BY <2>1, <2>2
<1> QED  BY <1>4, <1>5, <1>6 DEF RemoveAt, a, b

LEMMA MaxOfNaturals ==
  ASSUME NEW n \in Nat, NEW T \in SUBSET (0..n), T # {}
  PROVE  /\ Max(T) \in T
         /\ \A m \in T : Max(T) >= m
<1> DEFINE U == {n - m : m \in T}
<1>1. U \in SUBSET Nat /\ U # {}
  <2>1. \A m \in 0..n : n - m \in Nat
    OBVIOUS
  <2> QED  BY <2>1
<1>2. PICK u \in U : \A v \in U : u <= v
  BY <1>1, LeastNatural
<1>3. PICK x \in T : u = n - x
  OBVIOUS
<1>4. ASSUME NEW m \in T
      PROVE  x >= m
  <2>1. n - m \in U
    OBVIOUS
  <2>2. n - x <= n - m
    BY <1>2, <1>3, <2>1
  <2>3. x \in 0..n /\ m \in 0..n
    OBVIOUS
  <2> QED  BY ONLY <2>2, <2>3
<1> HIDE DEF U
<1>5. \E y \in T : \A m \in T : y >= m
  BY <1>4
<1> QED  BY <1>5 DEF Max

LEMMA MaxOfTwo ==
  ASSUME NEW m \in Nat, NEW n \in Nat
  PROVE  Max({m, n}) \in {m, n} /\ Max({m, n}) >= m /\ Max({m, n}) >= n
<1>1. m >= n \/ n >= m
  OBVIOUS
<1>2. \E x \in {m, n} : \A y \in {m, n} : x >= y
  BY <1>1
<1> QED  BY <1>2 DEF Max

LEMMA MinOfTwo ==
  ASSUME NEW m \in Nat, NEW n \in Nat
  PROVE  Min({m, n}) \in {m, n} /\ Min({m, n}) <= m /\ Min({m, n}) <= n
<1>1. m <= n \/ n <= m
  OBVIOUS
<1>2. \E x \in {m, n} : \A y \in {m, n} : x <= y
  BY <1>1
<1> QED  BY <1>2 DEF Min

(* A finite set put in a sequence: every element once. *)
LEMMA SetToSeqProperties ==
  ASSUME NEW S, IsFiniteSet(S)
  PROVE  SetToSeq(S) \in Seq(S) /\ IsInjective(SetToSeq(S))
<1>1. Cardinality(S) \in Nat
  BY FS_CardinalityType
<1>2. PICK f : f \in Bijection(1..Cardinality(S), S)
  BY FS_CardinalityType DEF ExistsBijection
<1>3. f \in [1..Cardinality(S) -> S] /\ IsInjective(f)
  BY <1>2 DEF Bijection, Injection, IsInjective
<1>4. SetToSeq(S) \in [1..Cardinality(S) -> S] /\ IsInjective(SetToSeq(S))
  BY <1>3 DEF SetToSeq
<1> QED  BY <1>1, <1>4
=============================================================================
