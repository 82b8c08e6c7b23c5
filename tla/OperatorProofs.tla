--------------------------- MODULE OperatorProofs ---------------------------
(***************************************************************************)
(* The operators that the models are built from: sequences and ordered     *)
(* sets, and what the search for gaps reports, whatever the index and the  *)
(* range: it finds every interior gap, and nothing outside the range but   *)
(* what lies above the lowest row of the index.                            *)
(***************************************************************************)
EXTENDS MissingBlocks, SequencesExt, FiniteSetsExt, FiniteSetTheorems, WellFoundedInduction, TLAPS

\* A non-empty set of naturals has a smallest element.
LEMMA LeastNatural ==
  ASSUME NEW S, S \subseteq Nat, S # {}
  PROVE  \E m \in S : \A x \in S : m <= x
<1> DEFINE less == {ss \in Nat \X Nat : ss[1] < ss[2]}
<1>1. IsWellFoundedOn(less, Nat)
  BY NatLessThanWellFounded, Zenon DEF OpToRel
<1> HIDE DEF less
<1>2. \E m \in S : \A x \in S : ~ (<<x, m>> \in less)
  BY <1>1, WFMin
<1>3. \A x \in S, m \in S : x < m => <<x, m>> \in less
  BY DEF less
<1>4. \A x \in S, m \in S : ~(x < m) => m <= x
  OBVIOUS
<1> QED
  BY <1>2, <1>3, <1>4

\* A non-empty set of naturals below a bound has a largest element.
LEMMA LargestBelow ==
  ASSUME NEW S, S \subseteq Nat, S # {}, NEW k \in Nat, \A x \in S : x < k
  PROVE  \E m \in S : \A x \in S : x <= m
<1> DEFINE D == {k - x : x \in S}
<1>1. \A x \in S : x \in Nat /\ k - x \in Nat
  OBVIOUS
<1>2. D \subseteq Nat /\ D # {}
  BY <1>1
<1>3. \A d \in D : \E m \in S : d = k - m
  OBVIOUS
<1>4. \A x \in S : k - x \in D
  OBVIOUS
<1> HIDE DEF D
<1>5. PICK d \in D : \A e \in D : d <= e
  BY <1>2, LeastNatural
<1>6. PICK m \in S : d = k - m
  BY <1>3, <1>5
<1>7. ASSUME NEW x \in S
      PROVE  x <= m
  <2>1. d <= k - x
    BY <1>4, <1>5
  <2> QED
    BY <1>1, <1>6, <2>1
<1> QED
  BY <1>6, <1>7

\* The smaller and the larger of two numbers.
LEMMA OfTwo ==
  ASSUME NEW a \in Int, NEW b \in Int
  PROVE  /\ Min({a, b}) = IF a <= b THEN a ELSE b
         /\ Max({a, b}) = IF a <= b THEN b ELSE a
  BY DEF Min, Max

\* The recursive function of FlattenSeq for the first m sequences, and what it is to
\* compute for them.
Flattens(f, ss, m) == f = [i \in 1..m |-> IF i = 1 THEN ss[i] ELSE f[i - 1] \o ss[i]]
Joined(s, ss, m, S) ==
  /\ s \in Seq(S)
  /\ \A i \in 1..m : \A j \in 1..Len(ss[i]) : \E k \in 1..Len(s) : s[k] = ss[i][j]

LEMMA FlattensExists ==
  ASSUME NEW ss, NEW n \in Nat \ {0}
  PROVE  \E f : Flattens(f, ss, n)
<1> DEFINE B == {m \in 1..n : ~\E f : Flattens(f, ss, m)}
<1>1. SUFFICES ASSUME ~\E f : Flattens(f, ss, n) PROVE FALSE
  OBVIOUS
<1>2. n \in B /\ B \subseteq Nat /\ \A m \in B : m \in 1..n
  BY <1>1
<1>3. PICK m \in B : \A x \in B : m <= x
  BY <1>2, LeastNatural
<1>4. m \in 1..n /\ ~\E f : Flattens(f, ss, m)
  BY <1>3
<1>5. CASE m = 1
  <2> DEFINE f == [i \in 1..1 |-> ss[i]]
  <2>1. f = [i \in 1..1 |-> IF i = 1 THEN ss[i] ELSE f[i - 1] \o ss[i]]
    <3>1. \A i \in 1..1 : i = 1
      OBVIOUS
    <3> QED
      BY <3>1
  <2>2. Flattens(f, ss, 1)
    BY <2>1 DEF Flattens
  <2> QED
    BY <1>4, <1>5, <2>2
<1>6. CASE m > 1
  <2>1. m - 1 \in 1..n /\ m - 1 \notin B
    <3>1. m - 1 \in 1..n /\ ~(m <= m - 1)
      BY <1>4, <1>6
    <3> QED
      BY <1>3, <3>1
  <2>2. PICK f : Flattens(f, ss, m - 1)
    BY <2>1
  <2> HIDE DEF B
  <2>3. \A i \in 1..(m - 1) : f[i] = IF i = 1 THEN ss[i] ELSE f[i - 1] \o ss[i]
    BY <2>2, Zenon DEF Flattens
  <2> DEFINE g == [i \in 1..m |-> IF i < m THEN f[i] ELSE f[m - 1] \o ss[m]]
  <2>4. ASSUME NEW i \in 1..m
        PROVE  g[i] = IF i = 1 THEN ss[i] ELSE g[i - 1] \o ss[i]
    <3>1. CASE i < m
      <4>1. i \in 1..(m - 1)
        BY <1>4, <3>1
      <4>2. f[i] = IF i = 1 THEN ss[i] ELSE f[i - 1] \o ss[i]
        BY <2>3, <4>1
      <4>3. g[i] = f[i]
        BY <3>1
      <4>4. i # 1 => i - 1 \in 1..m /\ i - 1 < m
        BY <1>4, <3>1
      <4>5. i # 1 => g[i - 1] = f[i - 1]
        BY <4>4
      <4> HIDE DEF g
      <4> QED
        BY <4>2, <4>3, <4>5, Zenon
    <3>2. CASE i = m
      <4>1. i # 1 /\ m - 1 \in 1..m /\ m - 1 < m /\ m \in 1..m /\ ~(m < m)
        BY <1>4, <1>6, <3>2
      <4>2. g[m] = f[m - 1] \o ss[m] /\ g[m - 1] = f[m - 1]
        BY <4>1
      <4> QED
        BY <3>2, <4>1, <4>2
    <3> QED
      BY <1>4, <3>1, <3>2
  <2>5. g = [i \in 1..m |-> g[i]]
    OBVIOUS
  <2> HIDE DEF g
  <2>6. Flattens(g, ss, m)
    BY <2>4, <2>5 DEF Flattens
  <2> QED
    BY <1>4, <2>6
<1> QED
  BY <1>4, <1>5, <1>6

\* Sequences one after the other: FlattenSeq is the last value of a recursive
\* function, which exists since there is no smallest length for which it does not.
LEMMA FlattenIs ==
  ASSUME NEW S, NEW ss \in Seq(Seq(S))
  PROVE  Joined(FlattenSeq(ss), ss, Len(ss), S)
<1> DEFINE n == Len(ss)
<1>1. n \in Nat /\ \A i \in 1..n : ss[i] \in Seq(S)
  OBVIOUS
<1>2. CASE n = 0
  <2>1. FlattenSeq(ss) = ss /\ ss = << >>
    BY <1>2 DEF FlattenSeq
  <2> QED
    BY <1>2, <2>1 DEF Joined
<1>3. CASE n # 0
  <2> DEFINE f == CHOOSE f : Flattens(f, ss, n)
  <2>1. FlattenSeq(ss) = f[n]
    BY <1>1, <1>3 DEF FlattenSeq, Flattens
  <2>2. Flattens(f, ss, n)
    BY <1>1, <1>3, FlattensExists
  <2> HIDE DEF f, n
  <2>3. \A i \in 1..n : f[i] = IF i = 1 THEN ss[i] ELSE f[i - 1] \o ss[i]
    BY <2>2, Zenon DEF Flattens
  <2> DEFINE B == {m \in 1..n : ~Joined(f[m], ss, m, S)}
  <2>4. ASSUME B # {} PROVE FALSE
    <3>1. B \subseteq Nat /\ \A m \in B : m \in 1..n
      BY <1>1
    <3>2. PICK m \in B : \A x \in B : m <= x
      BY <2>4, <3>1, LeastNatural
    <3>3. m \in 1..n /\ ~Joined(f[m], ss, m, S)
      BY <3>2
    <3>4. CASE m = 1
      <4>1. f[m] = ss[1] /\ ss[1] \in Seq(S)
        BY <1>1, <2>3, <3>3, <3>4
      <4>2. \A i \in 1..m : i = 1
        BY <3>4
      <4>3. Joined(f[m], ss, m, S)
        BY <4>1, <4>2 DEF Joined
      <4> QED
        BY <3>3, <4>3
    <3>5. CASE m > 1
      <4>1. m - 1 \in 1..n /\ m - 1 \notin B
        <5>1. m - 1 \in 1..n /\ ~(m <= m - 1)
          BY <1>1, <3>3, <3>5
        <5> QED
          BY <3>2, <5>1
      <4>2. Joined(f[m - 1], ss, m - 1, S)
        BY <4>1
      <4> HIDE DEF B
      <4> DEFINE a == f[m - 1]
                 b == ss[m]
      <4>3. a \in Seq(S) /\ b \in Seq(S) /\ f[m] = a \o b
        <5>1. a \in Seq(S)
          BY <4>2 DEF Joined
        <5>2. b \in Seq(S)
          BY <1>1, <3>3
        <5>3. f[m] = a \o b
          <6>1. m # 1
            BY <3>5
          <6> QED
            BY <2>3, <3>3, <6>1, Zenon
        <5> QED
          BY <5>1, <5>2, <5>3
      <4>4. \A i \in 1..(m - 1) : \A j \in 1..Len(ss[i]) : \E k \in 1..Len(a) : a[k] = ss[i][j]
        BY <4>2 DEF Joined
      <4> HIDE DEF a, b
      <4>5. /\ Len(a) \in Nat /\ Len(b) \in Nat /\ Len(a \o b) = Len(a) + Len(b)
            /\ \A k \in 1..Len(a) : (a \o b)[k] = a[k]
            /\ \A j \in 1..Len(b) : (a \o b)[Len(a) + j] = b[j]
        BY <4>3
      <4>6. ASSUME NEW i \in 1..m, NEW j \in 1..Len(ss[i])
            PROVE  \E k \in 1..Len(f[m]) : f[m][k] = ss[i][j]
        <5>1. CASE i \in 1..(m - 1)
          <6>1. PICK k \in 1..Len(a) : a[k] = ss[i][j]
            BY <4>4, <5>1
          <6>2. k \in 1..Len(a \o b) /\ (a \o b)[k] = a[k]
            BY <4>5, <6>1
          <6> QED
            BY <4>3, <6>1, <6>2
        <5>2. CASE i = m
          <6>1. j \in 1..Len(b) /\ b[j] = ss[i][j]
            BY <5>2 DEF b
          <6>2. Len(a) + j \in 1..Len(a \o b) /\ (a \o b)[Len(a) + j] = b[j]
            BY <4>5, <6>1
          <6> QED
            BY <4>3, <6>1, <6>2
        <5> QED
          BY <3>3, <5>1, <5>2
      <4>7. f[m] \in Seq(S)
        BY <4>3
      <4>8. Joined(f[m], ss, m, S)
        BY <4>6, <4>7 DEF Joined
      <4> QED
        BY <3>3, <4>8
    <3> QED
      BY <1>1, <3>3, <3>4, <3>5
  <2>5. n \in 1..n /\ n \notin B
    BY <1>1, <1>3, <2>4
  <2>6. Joined(f[n], ss, n, S)
    BY <2>5
  <2> QED
    BY <2>1, <2>6 DEF n
<1> QED
  BY <1>2, <1>3

LEMMA ConcatIs ==
  ASSUME NEW S, NEW a \in Seq(S), NEW b \in Seq(S)
  PROVE  /\ a \o b \in Seq(S)
         /\ Len(a) \in Nat /\ Len(b) \in Nat /\ Len(a \o b) = Len(a) + Len(b)
         /\ \A i \in 1..Len(a) : i \in 1..Len(a \o b) /\ (a \o b)[i] = a[i]
         /\ \A i \in 1..Len(b) : Len(a) + i \in 1..Len(a \o b) /\ (a \o b)[Len(a) + i] = b[i]
         /\ \A i \in 1..Len(a \o b) : \/ i \in 1..Len(a) /\ (a \o b)[i] = a[i]
                                      \/ i - Len(a) \in 1..Len(b) /\ (a \o b)[i] = b[i - Len(a)]
<1>1. /\ a \o b \in Seq(S)
      /\ Len(a) \in Nat /\ Len(b) \in Nat /\ Len(a \o b) = Len(a) + Len(b)
  OBVIOUS
<1>2. \A i \in 1..Len(a) : (a \o b)[i] = a[i]
  OBVIOUS
<1>3. \A i \in 1..Len(b) : (a \o b)[Len(a) + i] = b[i]
  OBVIOUS
<1>4. ASSUME NEW i \in 1..Len(a \o b), i \notin 1..Len(a)
      PROVE  i - Len(a) \in 1..Len(b) /\ (a \o b)[i] = b[i - Len(a)]
  <2>1. i - Len(a) \in 1..Len(b) /\ Len(a) + (i - Len(a)) = i
    BY <1>1, <1>4
  <2> QED
    BY <1>3, <2>1
<1> QED
  BY <1>1, <1>2, <1>3, <1>4

\* A finite, non-empty set of integers has a smallest and a largest element.
LEMMA FiniteHasEnds ==
  ASSUME NEW S, S \subseteq Int, S # {}, IsFiniteSet(S)
  PROVE  /\ Min(S) \in S /\ \A x \in S : Min(S) <= x
         /\ Max(S) \in S /\ \A x \in S : x <= Max(S)
<1> DEFINE HasEnds(T) == /\ \E m \in T : \A x \in T : m <= x
                         /\ \E m \in T : \A x \in T : x <= m
           Bad == {n \in Nat : \E T \in SUBSET Int : /\ T # {} /\ IsFiniteSet(T)
                                                     /\ Cardinality(T) = n /\ ~HasEnds(T)}
<1>1. Bad = {}
  <2> SUFFICES ASSUME Bad # {} PROVE FALSE
    OBVIOUS
  <2>1. PICK n \in Bad : \A k \in Bad : n <= k
    BY LeastNatural
  <2>2. PICK T \in SUBSET Int : T # {} /\ IsFiniteSet(T) /\ Cardinality(T) = n /\ ~HasEnds(T)
    BY <2>1
  <2>3. PICK y \in T : TRUE
    BY <2>2
  <2> DEFINE U == T \ {y}
  <2>4. IsFiniteSet(U) /\ Cardinality(U) = n - 1 /\ Cardinality(U) \in Nat
    BY <2>2, <2>3, FS_RemoveElement, FS_CardinalityType
  <2>5. U # {}
    BY <2>2, <2>3
  <2>6. HasEnds(U)
    <3>1. n - 1 \notin Bad
      BY <2>1
    <3> QED
      BY <2>4, <2>5, <3>1
  <2>7. PICK lo \in U : \A x \in U : lo <= x
    BY <2>6
  <2>8. PICK hi \in U : \A x \in U : x <= hi
    BY <2>6
  <2>9. \E m \in T : \A x \in T : m <= x
    <3>1. CASE y <= lo
      BY <2>7, <3>1
    <3>2. CASE ~(y <= lo)
      BY <2>7, <3>2
    <3> QED
      BY <3>1, <3>2
  <2>10. \E m \in T : \A x \in T : x <= m
    <3>1. CASE hi <= y
      BY <2>8, <3>1
    <3>2. CASE ~(hi <= y)
      BY <2>8, <3>2
    <3> QED
      BY <3>1, <3>2
  <2> QED
    BY <2>2, <2>9, <2>10
<1>2. Cardinality(S) \in Nat
  BY FS_CardinalityType
<1>3. HasEnds(S)
  BY <1>1, <1>2
<1> HIDE DEF Bad
<1> QED
  BY <1>3 DEF Min, Max

\* In a finite set that a relation orders, there is an element of every rank.
LEMMA EveryRankTaken ==
  ASSUME NEW S, IsFiniteSet(S), NEW before \in [S -> SUBSET S],
         \A k \in S : k \notin before[k],
         \A k, l \in S : k # l => before[k] \cup {k} \subseteq before[l]
                                  \/ before[l] \cup {l} \subseteq before[k]
  PROVE  /\ \A i \in 1..Cardinality(S) : \E k \in S : Cardinality(before[k]) = i - 1
         /\ \A k \in S : Cardinality(before[k]) \in 0..Cardinality(S) - 1
         /\ \A k, l \in S : before[k] \cup {k} \subseteq before[l]
                            => Cardinality(before[k]) < Cardinality(before[l])
<1> DEFINE n == Cardinality(S)
           rank == [k \in S |-> Cardinality(before[k])]
<1>1. n \in Nat
  BY FS_CardinalityType
<1>2. ASSUME NEW T \in SUBSET S, NEW U \in SUBSET S, NEW k \in S, k \notin T,
             T \cup {k} \subseteq U
      PROVE  Cardinality(T) \in Nat /\ Cardinality(U) \in Nat /\ Cardinality(T) < Cardinality(U)
  <2>1. IsFiniteSet(T) /\ IsFiniteSet(U)
    BY FS_Subset
  <2>2. Cardinality(T) \in Nat /\ Cardinality(U) \in Nat
    BY <2>1, FS_CardinalityType
  <2>3. T \in SUBSET U /\ T # U
    BY <1>2
  <2>4. Cardinality(T) <= Cardinality(U) /\ (Cardinality(U) = Cardinality(T) => U = T)
    BY <2>1, <2>3, FS_Subset
  <2> QED
    BY <2>2, <2>3, <2>4
<1>3. ASSUME NEW k \in S
      PROVE  rank[k] \in 0..n - 1
  <2>1. before[k] \in SUBSET S /\ k \notin before[k] /\ before[k] \cup {k} \subseteq S
    OBVIOUS
  <2>2. Cardinality(before[k]) \in Nat /\ Cardinality(before[k]) < n
    BY <1>2, <2>1
  <2> QED
    BY <1>1, <2>2
<1>4. ASSUME NEW k \in S, NEW l \in S, before[k] \cup {k} \subseteq before[l]
      PROVE  Cardinality(before[k]) < Cardinality(before[l])
  <2>1. before[k] \in SUBSET S /\ before[l] \in SUBSET S /\ k \notin before[k]
    OBVIOUS
  <2> QED
    BY <1>2, <1>4, <2>1
<1>5. ASSUME NEW k \in S, NEW l \in S, k # l
      PROVE  rank[k] # rank[l]
  <2>1. rank[k] \in Int /\ rank[l] \in Int
    BY <1>1, <1>3
  <2>2. rank[k] < rank[l] \/ rank[l] < rank[k]
    BY <1>4, <1>5
  <2> QED
    BY <2>1, <2>2
<1>6. rank \in Injection(S, 0..n - 1)
  BY <1>3, <1>5 DEF Injection, IsInjective
<1>7. IsFiniteSet(0..n - 1) /\ Cardinality(0..n - 1) = n
  <2>1. IsFiniteSet(0..n - 1) /\ Cardinality(0..n - 1) = IF 0 > n - 1 THEN 0 ELSE (n - 1) - 0 + 1
    BY <1>1, FS_Interval
  <2> QED
    BY <1>1, <2>1
<1>8. rank \in Surjection(S, 0..n - 1)
  BY <1>6, <1>7, FS_Injection
<1>9. ASSUME NEW i \in 1..n
      PROVE  \E k \in S : Cardinality(before[k]) = i - 1
  <2>1. i - 1 \in 0..n - 1
    BY <1>1
  <2> QED
    BY <1>8, <2>1 DEF Surjection
<1> QED
  BY <1>3, <1>4, <1>9

-----------------------------------------------------------------------------
(* The search for missing blocks *)

\* The range [HighestBelow(k), k - 1] contains every missing height whose next
\* row above is k: there is no row in between.
LEMMA RangeBelowGapEnd ==
  ASSUME NEW S \in SUBSET Nat, NEW f \in Nat, NEW h \in Nat, f <= h, h \notin S,
         NEW k \in S, h < k, \A x \in S : h < x => k <= x
  PROVE  h \in HighestBelow(S, k, f) .. (k - 1)
<1> DEFINE below == {b \in S : b < k}
<1>1. CASE below = {}
  BY <1>1 DEF HighestBelow
<1>2. CASE below # {}
  <2>1. \E m \in below : \A b \in below : b <= m
    BY <1>2, LargestBelow
  <2>2. HighestBelow(S, k, f) \in below
    BY <1>2, <2>1 DEF HighestBelow
  <2> DEFINE m == HighestBelow(S, k, f)
  <2>3. m \in S /\ m < k
    BY <2>2
  <2> HIDE DEF m
  <2>4. m \in Nat /\ k \in Nat /\ m # h /\ ~(h < m)
    BY <2>3
  <2>5. h \in m .. (k - 1)
    BY <2>4
  <2> QED
    BY <2>5 DEF m
<1> QED
  BY <1>1, <1>2

\* A range with a missing height has fewer rows than heights, so the search
\* does not take it for complete.
LEMMA MissingIsCounted ==
  ASSUME NEW S \in SUBSET Nat, NEW f \in Nat, NEW t \in Nat,
         NEW h \in f..t, h \notin S
  PROVE  Cardinality({b \in S : f <= b /\ b <= t}) # t - f + 1
<1> DEFINE inRange == {b \in S : f <= b /\ b <= t}
<1>1. IsFiniteSet(f..t) /\ Cardinality(f..t) = t - f + 1
  BY FS_Interval
<1>2. inRange \in SUBSET (f..t) /\ h \notin inRange
  <2>1. \A b \in S : b \in Nat
    OBVIOUS
  <2>2. \A b \in inRange : b \in f..t
    BY <2>1
  <2> QED
    BY <2>2
<1>3. Cardinality(f..t) = Cardinality(inRange) => f..t = inRange
  BY <1>1, <1>2, FS_Subset
<1> QED
  BY <1>1, <1>2, <1>3

\* The search reports every interior gap of every index in every range.
THEOREM SearchFindsInteriorGaps ==
  ASSUME NEW S \in SUBSET Nat, NEW f \in Nat, NEW t \in Nat
  PROVE  InteriorMissing(S, f, t) \subseteq GetMissingBlocks(S, f, t)
<1> SUFFICES ASSUME NEW h \in InteriorMissing(S, f, t)
             PROVE  h \in GetMissingBlocks(S, f, t)
  OBVIOUS
<1> DEFINE inRange == {b \in S : f <= b /\ b <= t}
           gap(b1) == [from |-> HighestBelow(S, b1, f), to |-> b1 - 1]
<1>1. h \in f..t /\ h \notin S /\ h \in Nat /\ f <= h
  BY DEF InteriorMissing, Missing
<1>2. PICK k0 \in S : h < k0 /\ k0 < t
  BY DEF InteriorMissing
<1> DEFINE above == {x \in S : h < x}
<1>3. PICK k \in above : \A x \in above : k <= x
  <2>1. above \subseteq Nat /\ above # {}
    BY <1>2
  <2> HIDE DEF above
  <2> QED
    BY <2>1, LeastNatural
<1>4. k \in Nat /\ h < k /\ k <= k0 /\ k < t
  BY <1>1, <1>2, <1>3
<1>5. k - 1 \notin S
  BY <1>1, <1>3, <1>4
<1>6. k \in GapEnds(S, f, t)
  BY <1>1, <1>3, <1>4, <1>5 DEF GapEnds
<1>7. h \in HighestBelow(S, k, f) .. (k - 1)
  BY <1>1, <1>3, <1>4, RangeBelowGapEnd
<1>8. CASE Cardinality(inRange) < 3
  <2>1. FindMissingBlocksInRange(S, f, t) = {[from |-> f, to |-> t]}
    BY <1>8 DEF FindMissingBlocksInRange
  <2> QED
    BY <1>1, <2>1 DEF GetMissingBlocks
<1>9. CASE ~(Cardinality(inRange) < 3)
  <2>1. Cardinality(inRange) # t - f + 1
    BY <1>1, MissingIsCounted
  <2>2. FindMissingBlocksInRange(S, f, t) = {gap(b1) : b1 \in GapEnds(S, f, t)}
    BY <1>9, <2>1 DEF FindMissingBlocksInRange
  <2>3. gap(k) \in FindMissingBlocksInRange(S, f, t)
    BY <1>6, <2>2
  <2>4. h \in gap(k).from .. gap(k).to
    BY <1>7
  <2> QED
    BY <2>3, <2>4 DEF GetMissingBlocks
<1> QED
  BY <1>8, <1>9
\* HighestBelow answers a row below the height asked for, or the first height
\* of the range.
LEMMA HighestBelowIsRowOrFrom ==
  ASSUME NEW S \in SUBSET Nat, NEW f \in Nat, NEW k \in Nat
  PROVE  HighestBelow(S, k, f) \in S \cup {f}
<1> DEFINE below == {b \in S : b < k}
<1>1. CASE below = {}
  BY <1>1 DEF HighestBelow
<1>2. CASE below # {}
  <2>1. \E m \in below : \A b \in below : b <= m
    BY <1>2, LargestBelow
  <2>2. HighestBelow(S, k, f) \in below
    BY <1>2, <2>1 DEF HighestBelow
  <2> QED
    BY <2>2
<1> QED
  BY <1>1, <1>2

\* The search never reports a height below both the range and the index, nor
\* one above the range.
LEMMA SearchStaysWithin ==
  ASSUME NEW lo \in Nat, NEW hi \in Nat, NEW S \in SUBSET (lo..hi),
         NEW f \in lo..hi, NEW t \in Nat, t <= hi
  PROVE  GetMissingBlocks(S, f, t) \subseteq lo..hi
<1> DEFINE inRange == {b \in S : f <= b /\ b <= t}
           gap(b1) == [from |-> HighestBelow(S, b1, f), to |-> b1 - 1]
<1>1. S \in SUBSET Nat /\ f \in Nat /\ lo <= f
  OBVIOUS
<1>2. ASSUME NEW r \in FindMissingBlocksInRange(S, f, t)
      PROVE  r.from \in Nat /\ r.to \in Int /\ lo <= r.from /\ r.to <= hi
  <2>1. CASE r = [from |-> f, to |-> t]
    BY <1>1, <2>1
  <2>2. ASSUME NEW b1 \in GapEnds(S, f, t), r = gap(b1)
        PROVE  r.from \in Nat /\ r.to \in Int /\ lo <= r.from /\ r.to <= hi
    <3>1. b1 \in S /\ b1 \in Nat /\ b1 <= hi
      BY DEF GapEnds
    <3>2. HighestBelow(S, b1, f) \in S \cup {f}
      BY <1>1, <3>1, HighestBelowIsRowOrFrom
    <3>3. HighestBelow(S, b1, f) \in Nat /\ lo <= HighestBelow(S, b1, f)
      <4>1. HighestBelow(S, b1, f) \in lo..hi
        BY <3>2
      <4>2. \A x \in lo..hi : x \in Nat /\ lo <= x
        OBVIOUS
      <4> QED
        BY <4>1, <4>2
    <3>4. r.from = HighestBelow(S, b1, f) /\ r.to = b1 - 1
      BY <2>2
    <3> QED
      BY <3>1, <3>3, <3>4
  <2>3. \/ r = [from |-> f, to |-> t]
        \/ \E b1 \in GapEnds(S, f, t) : r = gap(b1)
    BY DEF FindMissingBlocksInRange
  <2> QED
    BY <2>1, <2>2, <2>3
<1>3. ASSUME NEW h \in GetMissingBlocks(S, f, t)
      PROVE  h \in lo..hi
  <2>1. PICK r \in FindMissingBlocksInRange(S, f, t) : h \in r.from .. r.to
    BY <1>3 DEF GetMissingBlocks
  <2> QED
    BY <1>2, <2>1
<1> QED
  BY <1>3
=============================================================================
