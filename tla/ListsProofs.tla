---------------------------- MODULE ListsProofs -----------------------------
(***************************************************************************)
(* What filtering and sorting a list do, for any list.                      *)
(***************************************************************************)
EXTENDS Lists, FiniteSetTheorems, SequenceTheorems, TLAPS

\* The ranks of a finite set of numbers are 1, 2, ... in their order.
LEMMA RanksAreOrdered ==
    ASSUME NEW S \in SUBSET Int, IsFiniteSet(S)
    PROVE  /\ \A i \in S : Rank(S, i) \in 1 .. Cardinality(S)
           /\ \A i, j \in S : i < j => Rank(S, i) < Rank(S, j)
<1> DEFINE Below(i) == {j \in S : j <= i}
<1>1. Cardinality(S) \in Nat
  BY FS_CardinalityType
<1>2. ASSUME NEW i \in S
      PROVE  IsFiniteSet(Below(i)) /\ Cardinality(Below(i)) \in 1 .. Cardinality(S)
  <2>1. /\ IsFiniteSet(Below(i)) /\ Cardinality(Below(i)) <= Cardinality(S)
        /\ Cardinality(Below(i)) \in Nat
    <3>1. Below(i) \in SUBSET S
      OBVIOUS
    <3>2. IsFiniteSet(Below(i)) /\ Cardinality(Below(i)) <= Cardinality(S)
      BY <3>1, FS_Subset
    <3>3. QED
      BY <3>2, FS_CardinalityType
  <2>2. Cardinality(Below(i)) # 0
    <3>1. i \in Below(i)
      BY <1>2
    <3>2. QED
      BY <2>1, <3>1, FS_EmptySet
  <2>3. QED
    BY <1>1, <2>1, <2>2
<1>3. ASSUME NEW i \in S, NEW j \in S, i < j
      PROVE  Cardinality(Below(i)) < Cardinality(Below(j))
  <2>1. Below(i) \in SUBSET Below(j) /\ Below(i) # Below(j)
    <3>1. \A k \in S : k \in Int
      OBVIOUS
    <3>2. \A k \in S : k <= i => k <= j
      BY <1>3, <3>1
    <3>3. j \in Below(j) /\ j \notin Below(i)
      BY <1>3, <3>1
    <3>4. QED
      BY <3>2, <3>3
  <2>2. Cardinality(Below(i)) <= Cardinality(Below(j))
        /\ Cardinality(Below(i)) # Cardinality(Below(j))
    BY <1>2, <2>1, FS_Subset
  <2>3. QED
    BY <1>2, <2>2
<1>4. QED
  BY <1>2, <1>3 DEF Rank

\* Every rank is some number's: the k-th smallest exists, for every k.
LEMMA NthIsOrdered ==
    ASSUME NEW S \in SUBSET Int, IsFiniteSet(S)
    PROVE  LET n == Cardinality(S)
           IN  /\ n \in Nat
               /\ \A k \in 1 .. n : Nth(S, k) \in S
               /\ \A k, l \in 1 .. n : k < l => Nth(S, k) < Nth(S, l)
               /\ \A i \in S : \E k \in 1 .. n : Nth(S, k) = i
<1> DEFINE n == Cardinality(S)
           f == [i \in S |-> Rank(S, i)]
<1>1. n \in Nat
  BY FS_CardinalityType
<1>2. f \in Injection(S, 1 .. n)
  <2>1. f \in [S -> 1 .. n]
    BY RanksAreOrdered
  <2>2. ASSUME NEW i \in S, NEW j \in S, f[i] = f[j] PROVE i = j
    <3>1. Rank(S, i) \in Int /\ Rank(S, i) = Rank(S, j)
      BY <2>2, <2>1
    <3>2. ~(i < j) /\ ~(j < i)
      BY <3>1, RanksAreOrdered
    <3>3. i \in Int /\ j \in Int
      OBVIOUS
    <3>4. QED
      BY <3>2, <3>3
  <2>3. QED
    BY <2>1, <2>2 DEF Injection, IsInjective
<1>3. f \in Surjection(S, 1 .. n)
  <2>1. IsFiniteSet(1 .. n) /\ Cardinality(1 .. n) = n
    BY <1>1, FS_Interval
  <2>2. QED
    BY <1>2, <2>1, FS_Injection
<1>4. \A k \in 1 .. n : \E i \in S : Rank(S, i) = k
  BY <1>3 DEF Surjection
<1>5. \A k \in 1 .. n : Nth(S, k) \in S /\ Rank(S, Nth(S, k)) = k
  BY <1>4 DEF Nth
<1>6. ASSUME NEW k \in 1 .. n, NEW l \in 1 .. n, k < l PROVE Nth(S, k) < Nth(S, l)
  <2> DEFINE a == Nth(S, k)
             b == Nth(S, l)
  <2>1. a \in S /\ b \in S /\ Rank(S, a) = k /\ Rank(S, b) = l
    BY <1>5
  <2> HIDE DEF a, b
  <2>2. a # b /\ ~(b < a) /\ a \in Int /\ b \in Int
    BY <1>6, <2>1, RanksAreOrdered
  <2>3. a < b
    BY <2>2
  <2>4. QED
    BY <2>3 DEF a, b
<1>7. ASSUME NEW i \in S PROVE \E k \in 1 .. n : Nth(S, k) = i
  <2> DEFINE k == Rank(S, i)
             a == Nth(S, k)
  <2>1. k \in 1 .. n
    BY RanksAreOrdered
  <2>2. a \in S /\ Rank(S, a) = k
    BY <1>5, <2>1
  <2>3. a = i
    BY <2>2, <1>2 DEF Injection, IsInjective
  <2>4. QED
    BY <2>1, <2>3
<1>8. QED
  BY <1>1, <1>5, <1>6, <1>7

LEMMA PositionsAreFinite ==
    ASSUME NEW X, NEW s \in Seq(X)
    PROVE  IsFiniteSet(DOMAIN s) /\ Cardinality(DOMAIN s) = Len(s)
<1>1. ASSUME NEW m \in Nat PROVE IsFiniteSet(1 .. m) /\ Cardinality(1 .. m) = m
  <2>1. /\ IsFiniteSet(1 .. m)
        /\ Cardinality(1 .. m) = IF 1 > m THEN 0 ELSE m - 1 + 1
    BY FS_Interval
  <2>2. QED
    BY <2>1
<1>2. DOMAIN s = 1 .. Len(s) /\ Len(s) \in Nat
  OBVIOUS
<1>3. QED
  BY <1>1, <1>2

\* A filter keeps what is at the positions I, all of it, in the old order, and
\* is shorter unless everything is kept.
LEMMA KeepIsFilter ==
    ASSUME NEW X, NEW s \in Seq(X), NEW I \in SUBSET DOMAIN s
    PROVE  LET r == Keep(s, I)
           IN  /\ r \in Seq(X) /\ Len(r) <= Len(s) /\ DOMAIN r = 1 .. Len(r)
               /\ I # DOMAIN s => Len(r) < Len(s)
               /\ \A k \in DOMAIN r : \E i \in I : r[k] = s[i]
               /\ \A i \in I : \E k \in DOMAIN r : r[k] = s[i]
               /\ \A k, l \in DOMAIN r :
                     k < l => \E i, j \in I : i < j /\ r[k] = s[i] /\ r[l] = s[j]
<1> DEFINE n == Cardinality(I)
           r == Keep(s, I)
<1>1. /\ DOMAIN s = 1 .. Len(s) /\ Len(s) \in Nat
      /\ \A i \in DOMAIN s : s[i] \in X
  OBVIOUS
<1>2. IsFiniteSet(DOMAIN s) /\ Cardinality(DOMAIN s) = Len(s)
  BY PositionsAreFinite
<1>3. IsFiniteSet(I) /\ n <= Len(s) /\ (I # DOMAIN s => n # Len(s))
  BY <1>2, FS_Subset
<1>4. I \in SUBSET Int
  BY <1>1
<1>5. /\ n \in Nat
      /\ \A k \in 1 .. n : Nth(I, k) \in I
      /\ \A k, l \in 1 .. n : k < l => Nth(I, k) < Nth(I, l)
      /\ \A i \in I : \E k \in 1 .. n : Nth(I, k) = i
  BY <1>3, <1>4, NthIsOrdered
<1>6. r = [k \in 1 .. n |-> s[Nth(I, k)]]
  BY DEF Keep
<1>7. \A k \in 1 .. n : s[Nth(I, k)] \in X
  BY <1>1, <1>5
<1> HIDE DEF n, r
<1>8. /\ r \in Seq(X) /\ Len(r) = n /\ DOMAIN r = 1 .. n
      /\ \A k \in 1 .. n : r[k] = s[Nth(I, k)]
  BY <1>5, <1>6, <1>7
<1>9. Len(r) <= Len(s) /\ (I # DOMAIN s => Len(r) < Len(s))
  <2>1. n \in Nat /\ Len(s) \in Nat
    BY <1>1, <1>5 DEF n
  <2>2. n <= Len(s) /\ (I # DOMAIN s => n < Len(s))
    BY <1>3, <2>1 DEF n
  <2>3. QED
    BY <1>8, <2>2
<1>10. /\ \A k \in DOMAIN r : \E i \in I : r[k] = s[i]
       /\ \A i \in I : \E k \in DOMAIN r : r[k] = s[i]
       /\ \A k, l \in DOMAIN r :
             k < l => \E i, j \in I : i < j /\ r[k] = s[i] /\ r[l] = s[j]
  BY <1>5, <1>8
<1>11. QED
  BY <1>8, <1>9, <1>10 DEF r

LEMMA KeepElements ==
    ASSUME NEW X, NEW s \in Seq(X), NEW I \in SUBSET DOMAIN s
    PROVE  LET r == Keep(s, I)
           IN  {r[k] : k \in DOMAIN r} = {s[i] : i \in I}
<1> DEFINE r == Keep(s, I)
<1>1. /\ \A k \in DOMAIN r : \E i \in I : r[k] = s[i]
      /\ \A i \in I : \E k \in DOMAIN r : r[k] = s[i]
  BY KeepIsFilter
<1> HIDE DEF r
<1>2. {r[k] : k \in DOMAIN r} = {s[i] : i \in I}
  BY <1>1
<1>3. QED
  BY <1>2 DEF r

\* Every number of S once, the greatest first.
LEMMA DescendingIsSorted ==
    ASSUME NEW S \in SUBSET Int, IsFiniteSet(S)
    PROVE  LET d == Descending(S)
           IN  /\ d \in Seq(S) /\ Len(d) = Cardinality(S) /\ DOMAIN d = 1 .. Len(d)
               /\ \A k, l \in DOMAIN d : k < l => d[k] > d[l]
               /\ \A i \in S : \E k \in DOMAIN d : d[k] = i
<1> DEFINE n == Cardinality(S)
           d == Descending(S)
<1>1. /\ n \in Nat
      /\ \A k \in 1 .. n : Nth(S, k) \in S
      /\ \A k, l \in 1 .. n : k < l => Nth(S, k) < Nth(S, l)
      /\ \A i \in S : \E k \in 1 .. n : Nth(S, k) = i
  BY NthIsOrdered
<1>2. d = [k \in 1 .. n |-> Nth(S, n + 1 - k)]
  BY DEF Descending
<1> HIDE DEF n, d
<1>3. \A k \in 1 .. n : n + 1 - k \in 1 .. n
  BY <1>1
<1>4. /\ d \in Seq(S) /\ Len(d) = n /\ DOMAIN d = 1 .. n
      /\ \A k \in 1 .. n : d[k] = Nth(S, n + 1 - k)
  <2>1. \A k \in 1 .. n : Nth(S, n + 1 - k) \in S
    BY <1>1, <1>3
  <2>2. QED
    BY <1>1, <1>2, <2>1
<1>5. ASSUME NEW k \in 1 .. n, NEW l \in 1 .. n, k < l PROVE d[k] > d[l]
  <2>1. n + 1 - l < n + 1 - k
    BY <1>1, <1>5
  <2>2. Nth(S, n + 1 - l) < Nth(S, n + 1 - k)
    BY <1>1, <1>3, <2>1
  <2>3. d[l] < d[k]
    BY <1>4, <2>2
  <2>4. d[k] \in Int /\ d[l] \in Int
    BY <1>1, <1>3, <1>4
  <2>5. QED
    BY <2>3, <2>4
<1>6. ASSUME NEW i \in S PROVE \E k \in 1 .. n : d[k] = i
  <2>1. PICK k \in 1 .. n : Nth(S, k) = i
    BY <1>1
  <2>2. n + 1 - k \in 1 .. n /\ d[n + 1 - k] = Nth(S, k)
    BY <1>1, <1>3, <1>4
  <2>3. QED
    BY <2>1, <2>2
<1>7. QED
  BY <1>4, <1>5, <1>6 DEF n, d
=============================================================================
