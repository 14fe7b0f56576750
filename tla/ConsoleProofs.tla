---------------------------- MODULE ConsoleProofs ----------------------------
(***************************************************************************)
(* What is proved of the resource views, for every set of names and every  *)
(* bound: what holds of the state of all ten of them together, the poll    *)
(* that is never lost, the list and its cursor, the rows the charts view   *)
(* has expanded, and that what a dialog names is what is done.             *)
(***************************************************************************)
EXTENDS Console, FiniteSetTheorems, SequenceTheorems, WellFoundedInduction, TLAPS

-----------------------------------------------------------------------------
(***************************************************************************)
(* What arranging, filtering and looking up the rows of a list give        *)
(***************************************************************************)
LEMMA LeastIs ==
  ASSUME NEW S \in SUBSET Nat, S # {}
  PROVE  \E s \in S : \A t \in S : s <= t
  <1>1. PICK s \in S : \A t \in S : ~ (<<t, s>> \in OpToRel(<, Nat))
    <2>1. IsWellFoundedOn(OpToRel(<, Nat), Nat)
      BY NatLessThanWellFounded
    <2> HIDE DEF OpToRel
    <2> QED
      BY <2>1, WFMin
  <1>2. ASSUME NEW t \in S, t < s
        PROVE  <<t, s>> \in OpToRel(<, Nat)
    BY <1>2 DEF OpToRel
  <1>3. \A t \in S : ~ (t < s)
    BY <1>1, <1>2, Zenon
  <1> QED
    BY <1>3

Keyed(I, key) == IsFiniteSet(I) /\ \A i \in I : key[i] \in Int

Rises(I, key, p) ==
  /\ p \in [1..Cardinality(I) -> I] /\ IsInjective(p)
  /\ \A i, j \in 1..Cardinality(I) : i < j => key[p[i]] <= key[p[j]]

LEMMA LastOfRising ==
  ASSUME NEW I, NEW key, NEW p, Keyed(I, key), I # {}, Rises(I, key, p),
         \A x \in I : \E i \in 1..Cardinality(I) : p[i] = x
  PROVE  \E k \in I : \A i \in I : key[i] <= key[k]
  <1> DEFINE n == Cardinality(I)
  <1>1. n \in Nat /\ n # 0
    BY FS_CardinalityType, FS_EmptySet DEF Keyed
  <1> HIDE DEF n
  <1>2. p[n] \in I
    BY <1>1 DEF Rises, n
  <1>3. ASSUME NEW x \in I PROVE key[x] <= key[p[n]]
    <2>1. PICK i \in 1..n : p[i] = x
      BY DEF n
    <2>2. CASE i = n
      BY <2>1, <2>2 DEF Keyed
    <2>3. CASE i # n
      BY <1>1, <2>1, <2>3 DEF Rises, n
    <2> QED BY <2>2, <2>3
  <1> QED BY <1>2, <1>3

LEMMA OntoToo ==
  ASSUME NEW I, IsFiniteSet(I), NEW p \in [1..Cardinality(I) -> I], IsInjective(p)
  PROVE  \A x \in I : \E i \in 1..Cardinality(I) : p[i] = x
  <1> DEFINE n == Cardinality(I)
  <1>1. n \in Nat
    BY FS_CardinalityType
  <1>2. SUFFICES ASSUME NEW x \in I, \A i \in 1..n : p[i] # x
                 PROVE  FALSE
    OBVIOUS
  <1>3. IsFiniteSet(I \ {x}) /\ Cardinality(I \ {x}) = n - 1
    BY FS_RemoveElement
  <1>4. IsFiniteSet(1..n) /\ Cardinality(1..n) = n
    BY <1>1, FS_Interval
  <1>5. p \in [1..n -> I \ {x}]
    BY <1>2
  <1> HIDE DEF n
  <1>6. n - 1 < n
    BY <1>1
  <1>7. \E a, b \in 1..n : a # b /\ p[a] = p[b]
    BY <1>3, <1>4, <1>5, <1>6, FS_PigeonHole
  <1> QED
    BY <1>7, <1>5 DEF IsInjective

LEMMA RisingExists ==
  \A n \in Nat : \A I, key : Keyed(I, key) /\ Cardinality(I) = n => \E p : Rises(I, key, p)
  <1> DEFINE P(n) == \A I, key : Keyed(I, key) /\ Cardinality(I) = n => \E p : Rises(I, key, p)
  <1>1. P(0)
    <2> SUFFICES ASSUME NEW I, NEW key, Keyed(I, key), Cardinality(I) = 0
                 PROVE  \E p : Rises(I, key, p)
      OBVIOUS
    <2>1. [i \in {} |-> i] \in [1..0 -> I] /\ IsInjective([i \in {} |-> i])
      BY DEF IsInjective
    <2>2. Rises(I, key, [i \in {} |-> i])
      BY <2>1 DEF Rises
    <2> QED BY <2>2
  <1>2. ASSUME NEW n \in Nat, n > 0, P(n - 1)
        PROVE  P(n)
    <2> SUFFICES ASSUME NEW I, NEW key, Keyed(I, key), Cardinality(I) = n
                 PROVE  \E p : Rises(I, key, p)
      OBVIOUS
    <2> USE DEF Keyed
    <2>1. ASSUME NEW x \in I
          PROVE  \E p : Rises(I \ {x}, key, p) /\ Cardinality(I \ {x}) = n - 1 /\ Keyed(I \ {x}, key)
      <3>1. IsFiniteSet(I \ {x}) /\ Cardinality(I \ {x}) = n - 1
        BY FS_RemoveElement
      <3> QED
        BY <1>2, <3>1
    <2>2. PICK x \in I : TRUE
      BY <1>2, FS_EmptySet
    <2>3. PICK k \in I : \A i \in I : key[i] <= key[k]
      <3>1. PICK p : Rises(I \ {x}, key, p) /\ Cardinality(I \ {x}) = n - 1 /\ Keyed(I \ {x}, key)
        BY <2>1
      <3>2. CASE I = {x}
        BY <3>2
      <3>3. CASE I # {x}
        <4>1. I \ {x} # {}
          BY <3>3
        <4>2. \A y \in I \ {x} : \E i \in 1..Cardinality(I \ {x}) : p[i] = y
          BY <3>1, OntoToo DEF Rises
        <4>3. PICK y \in I \ {x} : \A i \in I \ {x} : key[i] <= key[y]
          <5> HIDE DEF Keyed
          <5> QED BY <3>1, <4>1, <4>2, LastOfRising
        <4> QED
          BY <4>3
      <3> QED BY <3>2, <3>3
    <2>4. PICK q : Rises(I \ {k}, key, q) /\ Cardinality(I \ {k}) = n - 1
      BY <2>1
    <2>5. q \in [1..(n - 1) -> I \ {k}] /\ IsInjective(q) /\ \A i, j \in 1..(n - 1) : i < j => key[q[i]] <= key[q[j]]
      BY <2>4 DEF Rises
    <2> DEFINE p == [i \in 1..n |-> IF i = n THEN k ELSE q[i]]
    <2>6. p \in [1..n -> I] /\ p[n] = k /\ \A i \in 1..(n - 1) : p[i] = q[i]
      BY <2>5, <1>2
    <2>7. \A i \in 1..n : i # n => i \in 1..(n - 1)
      BY <1>2
    <2> HIDE DEF p
    <2>8. IsInjective(p)
      BY <2>5, <2>6, <2>7 DEF IsInjective
    <2>9. \A i, j \in 1..n : i < j => key[p[i]] <= key[p[j]]
      <3> TAKE i, j \in 1..n
      <3> HAVE i < j
      <3>1. i \in 1..(n - 1)
        OBVIOUS
      <3>2. CASE j = n
        BY <2>3, <2>6, <3>1, <3>2
      <3>3. CASE j # n
        BY <2>5, <2>6, <2>7, <3>1, <3>3
      <3> QED BY <3>2, <3>3
    <2> QED
      BY <2>6, <2>8, <2>9 DEF Rises
  <1>3. SUFFICES ASSUME NEW m \in Nat, ~P(m)
                 PROVE  FALSE
    OBVIOUS
  <1> DEFINE S == {n \in Nat : ~P(n)}
  <1>4. S \in SUBSET Nat /\ S # {}
    BY <1>3
  <1>5. PICK s \in S : \A t \in S : s <= t
    <2> HIDE DEF S
    <2> QED BY <1>4, LeastIs
  <1>6. s \in Nat /\ ~P(s)
    OBVIOUS
  <1>7. s > 0
    <2> HIDE DEF P
    <2> QED BY <1>1, <1>6
  <1>8. ~ (s - 1 \in S)
    BY <1>5, <1>6
  <1>9. P(s - 1)
    <2> HIDE DEF P
    <2> QED BY <1>6, <1>7, <1>8
  <1> HIDE DEF P
  <1> QED
    BY <1>2, <1>6, <1>7, <1>9

IsArranged(p, I, key, up) ==
  /\ p \in [1..Cardinality(I) -> I] /\ IsInjective(p)
  /\ \A i, j \in 1..Cardinality(I) : i < j => IF up THEN key[p[i]] <= key[p[j]] ELSE key[p[i]] >= key[p[j]]
  /\ \A x \in I : \E i \in 1..Cardinality(I) : p[i] = x

LEMMA ArrangedIs ==
  ASSUME NEW I, NEW key, IsFiniteSet(I), \A i \in I : key[i] \in Int, NEW up \in BOOLEAN
  PROVE  IsArranged(Arranged(I, key, up), I, key, up)
  <1> DEFINE q == Arranged(I, key, up)
  <1>1. \E p \in [1..Cardinality(I) -> I] :
          /\ IsInjective(p)
          /\ \A i, j \in DOMAIN p : i < j => IF up THEN key[p[i]] <= key[p[j]] ELSE key[p[i]] >= key[p[j]]
    <2>1. CASE up
      <3>1. PICK p : Rises(I, key, p)
        BY RisingExists, FS_CardinalityType DEF Keyed
      <3> QED
        BY <2>1, <3>1 DEF Rises
    <2>2. CASE ~up
      <3> DEFINE k == [i \in I |-> -key[i]]
      <3>1. Keyed(I, k)
        BY DEF Keyed
      <3>2. PICK p : Rises(I, k, p)
        <4> HIDE DEF k
        <4> QED
          BY <3>1, RisingExists, FS_CardinalityType DEF Keyed
      <3>3. \A i, j \in DOMAIN p : i < j => key[p[i]] >= key[p[j]]
        <4> TAKE i, j \in DOMAIN p
        <4> HAVE i < j
        <4>1. p[i] \in I /\ p[j] \in I /\ k[p[i]] <= k[p[j]]
          BY <3>2 DEF Rises
        <4> QED
          BY <4>1
      <3> QED
        BY <2>2, <3>2, <3>3 DEF Rises
    <2> QED BY <2>1, <2>2
  <1>2. /\ q \in [1..Cardinality(I) -> I] /\ IsInjective(q)
        /\ \A i, j \in DOMAIN q : i < j => IF up THEN key[q[i]] <= key[q[j]] ELSE key[q[i]] >= key[q[j]]
    BY <1>1 DEF Arranged
  <1>3. \A x \in I : \E i \in 1..Cardinality(I) : q[i] = x
    <2> HIDE DEF q
    <2> QED
      BY <1>2, OntoToo
  <1> HIDE DEF q
  <1> QED
    BY <1>2, <1>3 DEF q, IsArranged

Ordered(s, up) == \A i, j \in DOMAIN s : i < j => IF up THEN s[i] <= s[j] ELSE s[i] >= s[j]

\* A sequence is a function on an initial segment, and the other way round.
LEMMA SeqIs ==
  ASSUME NEW S, NEW s \in Seq(S)
  PROVE  /\ Len(s) \in Nat /\ DOMAIN s = 1..Len(s) /\ \A i \in 1..Len(s) : s[i] \in S
         /\ IsFiniteSet(DOMAIN s) /\ Cardinality(DOMAIN s) = Len(s)
  <1>1. Len(s) \in Nat /\ DOMAIN s = 1..Len(s) /\ \A i \in 1..Len(s) : s[i] \in S
    OBVIOUS
  <1>2. IsFiniteSet(1..Len(s)) /\ Cardinality(1..Len(s)) = Len(s)
    <2>1. \A n \in Nat : IsFiniteSet(1..n) /\ Cardinality(1..n) = n
      BY FS_Interval
    <2> QED
      BY <1>1, <2>1
  <1> QED
    BY <1>1, <1>2

LEMMA NamesAre == \A n \in Names : n \in Nat /\ n \in Int /\ n # 0
  BY ListViewAssumption

LEMMA IsSeq ==
  ASSUME NEW S, NEW n \in Nat, NEW f \in [1..n -> S]
  PROVE  f \in Seq(S) /\ Len(f) = n
  OBVIOUS

LEMMA InOrderIs ==
  ASSUME NEW s \in Seq(Names), NEW up \in BOOLEAN
  PROVE  LET t == InOrder(s, up)
         IN  t \in Seq(Names) /\ Len(t) = Len(s) /\ Range(t) = Range(s) /\ Ordered(t, up)
  <1> DEFINE D == DOMAIN s
             p == Arranged(D, s, up)
             t == InOrder(s, up)
  <1>1. /\ Len(s) \in Nat /\ D = 1..Len(s) /\ \A i \in D : s[i] \in Names
        /\ IsFiniteSet(D) /\ Cardinality(D) = Len(s)
    BY SeqIs
  <1>2. \A i \in D : s[i] \in Int
    BY <1>1, NamesAre
  <1>3. t = [i \in D |-> s[p[i]]]
    BY DEF InOrder
  <1> HIDE DEF D
  <1>3a. IsArranged(p, D, s, up)
    BY <1>1, <1>2, ArrangedIs
  <1> HIDE DEF p
  <1>4. /\ p \in [D -> D]
        /\ \A i, j \in D : i < j => IF up THEN s[p[i]] <= s[p[j]] ELSE s[p[i]] >= s[p[j]]
        /\ \A x \in D : \E i \in D : p[i] = x
    BY <1>1, <1>3a DEF IsArranged
  <1>5. t \in [D -> Names]
    BY <1>1, <1>3, <1>4
  <1>6. t \in Seq(Names) /\ Len(t) = Len(s)
    <2> HIDE DEF t
    <2> QED
      BY <1>1, <1>5, IsSeq
  <1>7. Range(t) = Range(s)
    <2>1. \A x \in D : \E i \in D : t[i] = s[x]
      BY <1>3, <1>4
    <2>2. \A i \in D : t[i] = s[p[i]] /\ p[i] \in D
      BY <1>3, <1>4
    <2>3. DOMAIN t = D
      BY <1>3
    <2>4. DOMAIN s = D
      BY DEF D
    <2> HIDE DEF t
    <2>5. Range(t) \subseteq Range(s)
      BY <2>2, <2>3, <2>4 DEF Range
    <2>6. Range(s) \subseteq Range(t)
      BY <2>1, <2>3, <2>4 DEF Range
    <2> QED
      BY <2>5, <2>6
  <1>8. Ordered(t, up)
    BY <1>3, <1>4 DEF Ordered
  <1> QED
    BY <1>6, <1>7, <1>8

LEMMA SortedIs ==
  ASSUME NEW S, S \subseteq Nat, IsFiniteSet(S), NEW up \in BOOLEAN
  PROVE  LET t == Sorted(S, up)
         IN  t \in Seq(S) /\ Len(t) = Cardinality(S) /\ Range(t) = S /\ Ordered(t, up)
  <1> DEFINE key == [n \in S |-> n]
             n == Cardinality(S)
             t == Arranged(S, key, up)
  <1>1. n \in Nat
    BY FS_CardinalityType
  <1>2. \A i \in S : key[i] \in Int /\ key[i] = i
    OBVIOUS
  <1>3. Sorted(S, up) = t
    BY DEF Sorted
  <1> HIDE DEF key
  <1>3a. IsArranged(t, S, key, up)
    BY <1>2, ArrangedIs
  <1>4. /\ t \in [1..n -> S] /\ IsInjective(t)
        /\ \A i, j \in 1..n : i < j => IF up THEN key[t[i]] <= key[t[j]] ELSE key[t[i]] >= key[t[j]]
        /\ \A x \in S : \E i \in 1..n : t[i] = x
    BY <1>3a DEF IsArranged
  <1> HIDE DEF t, n
  <1>5. t \in Seq(S) /\ Len(t) = n
    BY <1>1, <1>4, IsSeq
  <1>6. Range(t) = S
    BY <1>4 DEF Range
  <1>7. Ordered(t, up)
    <2>1. DOMAIN t = 1..n /\ \A i \in 1..n : key[t[i]] = t[i]
      BY <1>2, <1>4
    <2> QED
      BY <1>4, <2>1 DEF Ordered
  <1> QED
    BY <1>3, <1>5, <1>6, <1>7 DEF n

LEMMA FilteredIs ==
  ASSUME NEW q, NEW s \in Seq(Names)
  PROVE  LET t == Filtered(q, s)
         IN  t \in Seq(Names) /\ Len(t) <= Len(s) /\ Range(t) = Range(s) \cap q
  <1> DEFINE D == {i \in DOMAIN s : s[i] \in q}
             p == Sorted(D, TRUE)
             t == Filtered(q, s)
  <1>1. /\ Len(s) \in Nat /\ DOMAIN s = 1..Len(s) /\ \A i \in DOMAIN s : s[i] \in Names
        /\ IsFiniteSet(DOMAIN s) /\ Cardinality(DOMAIN s) = Len(s)
    BY SeqIs
  <1>2. D \subseteq Nat /\ IsFiniteSet(D) /\ Cardinality(D) <= Len(s) /\ Cardinality(D) \in Nat
    <2>1. D \subseteq Nat /\ D \in SUBSET (DOMAIN s)
      BY <1>1
    <2> HIDE DEF D
    <2> QED
      BY <1>1, <2>1, FS_Subset, FS_CardinalityType
  <1>3. t = [i \in DOMAIN p |-> s[p[i]]]
    BY DEF Filtered
  <1>3a. \A x \in DOMAIN s : x \in D <=> s[x] \in q
    OBVIOUS
  <1>3b. D \subseteq DOMAIN s
    OBVIOUS
  <1> HIDE DEF D
  <1>4. p \in Seq(D) /\ Len(p) = Cardinality(D) /\ Range(p) = D
    BY <1>2, SortedIs
  <1> HIDE DEF p
  <1>5. DOMAIN p = 1..Cardinality(D) /\ \A i \in DOMAIN p : p[i] \in D
    BY <1>4
  <1>6. t \in [1..Cardinality(D) -> Names]
    BY <1>1, <1>3, <1>3b, <1>5
  <1>7. t \in Seq(Names) /\ Len(t) = Cardinality(D)
    <2> HIDE DEF t
    <2> QED BY <1>2, <1>6, IsSeq
  <1>8. Range(t) = Range(s) \cap q
    <2>1. \A i \in DOMAIN p : t[i] = s[p[i]]
      BY <1>3
    <2>2. \A x \in D : \E i \in DOMAIN p : p[i] = x
      BY <1>4 DEF Range
    <2>3. DOMAIN t = DOMAIN p
      BY <1>3
    <2> HIDE DEF t
    <2> QED
      BY <1>3a, <1>3b, <1>5, <2>1, <2>2, <2>3 DEF Range
  <1> QED
    BY <1>2, <1>7, <1>8

LEMMA OrderedStays ==
  ASSUME NEW s \in Seq(Names), NEW up \in BOOLEAN, Ordered(s, up)
  PROVE  InOrder(s, up) = s
  <1> DEFINE n == Len(s)
             D == 1..n
             p == Arranged(DOMAIN s, s, up)
             t == InOrder(s, up)
  <1>1. /\ n \in Nat /\ DOMAIN s = D /\ \A i \in D : s[i] \in Names
        /\ IsFiniteSet(DOMAIN s) /\ Cardinality(DOMAIN s) = n
    BY SeqIs
  <1>2. \A i \in DOMAIN s : s[i] \in Int
    BY <1>1, NamesAre
  <1>3. t = [i \in DOMAIN s |-> s[p[i]]]
    BY DEF InOrder
  <1> HIDE DEF n
  <1>4. IsArranged(p, DOMAIN s, s, up)
    BY <1>1, <1>2, ArrangedIs
  <1> HIDE DEF p
  <1>5. /\ p \in [D -> D] /\ IsInjective(p)
        /\ \A i, j \in D : i < j => IF up THEN s[p[i]] <= s[p[j]] ELSE s[p[i]] >= s[p[j]]
    BY <1>1, <1>4 DEF IsArranged
  <1>6. \A i, j \in D : i < j => IF up THEN s[i] <= s[j] ELSE s[i] >= s[j]
    BY <1>1 DEF Ordered
  <1>7. ASSUME NEW k \in D, NEW A, NEW B, A \subseteq D, B \subseteq D, Cardinality(B) < Cardinality(A),
               \A a \in A : p[a] \in B
        PROVE  FALSE
    <2>1. IsFiniteSet(D)
      BY <1>1
    <2>2. IsFiniteSet(A) /\ IsFiniteSet(B)
      BY <1>7, <2>1, FS_Subset
    <2> DEFINE f == [a \in A |-> p[a]]
    <2>3. f \in [A -> B]
      BY <1>7
    <2>4. \A a \in A : f[a] = p[a]
      OBVIOUS
    <2> HIDE DEF f
    <2>5. \E a, b \in A : a # b /\ f[a] = f[b]
      BY <1>7, <2>2, <2>3, FS_PigeonHole
    <2> QED
      BY <1>5, <1>7, <2>4, <2>5 DEF IsInjective
  <1>8. ASSUME NEW k \in D, s[p[k]] # s[k]
        PROVE  FALSE
    <2>1. p[k] \in D /\ s[p[k]] \in Int /\ s[k] \in Int
      BY <1>1, <1>2, <1>5
    <2>2. Cardinality(1..k) = k /\ Cardinality(1..(k - 1)) = k - 1
      BY <1>1, FS_Interval
    <2>3. Cardinality(k..n) = n - k + 1 /\ Cardinality((k + 1)..n) = n - k
      BY <1>1, FS_Interval
    <2>4. CASE (up /\ s[p[k]] < s[k]) \/ (~up /\ s[p[k]] > s[k])
      <3>1. ASSUME NEW a \in 1..k
            PROVE  p[a] \in 1..(k - 1)
        <4>1. a \in D /\ p[a] \in D /\ s[p[a]] \in Int
          BY <1>1, <1>2, <1>5
        <4>2. IF up THEN s[p[a]] <= s[p[k]] ELSE s[p[a]] >= s[p[k]]
          BY <1>5, <2>1, <4>1
        <4>3. ~ (p[a] >= k)
          BY <1>6, <2>1, <2>4, <4>1, <4>2, SMTT(30)
        <4> QED
          BY <1>1, <4>1, <4>3
      <3>2. 1..k \subseteq D /\ 1..(k - 1) \subseteq D /\ k - 1 < k
        BY <1>1
      <3> QED
        BY <1>7, <2>2, <3>1, <3>2
    <2>5. CASE (up /\ s[p[k]] > s[k]) \/ (~up /\ s[p[k]] < s[k])
      <3>1. ASSUME NEW a \in k..n
            PROVE  p[a] \in (k + 1)..n
        <4>1. a \in D /\ p[a] \in D /\ s[p[a]] \in Int
          BY <1>1, <1>2, <1>5
        <4>2. IF up THEN s[p[k]] <= s[p[a]] ELSE s[p[k]] >= s[p[a]]
          BY <1>5, <2>1, <4>1
        <4>3. ~ (p[a] <= k)
          BY <1>6, <2>1, <2>5, <4>1, <4>2, SMTT(30)
        <4> QED
          BY <1>1, <4>1, <4>3
      <3>2. k..n \subseteq D /\ (k + 1)..n \subseteq D /\ n - k < n - k + 1
        BY <1>1
      <3> QED
        BY <1>7, <2>3, <3>1, <3>2
    <2> QED
      BY <1>8, <2>1, <2>4, <2>5
  <1>9. \A k \in D : s[p[k]] = s[k]
    BY <1>8
  <1>10. s = [i \in D |-> s[i]]
    BY <1>1
  <1>11. t = [i \in D |-> s[p[i]]]
    BY <1>1, <1>3
  <1> HIDE DEF D, t
  <1> QED
    BY <1>9, <1>10, <1>11 DEF t

LEMMA RowOfIs ==
  ASSUME NEW s \in Seq(Names), NEW n
  PROVE  IF n \in Range(s) THEN RowOf(n, s) \in DOMAIN s /\ s[RowOf(n, s)] = n ELSE RowOf(n, s) = 1
  <1>1. CASE n \in Range(s)
    <2> DEFINE I == {i \in 1..Len(s) : s[i] = n}
    <2>1. I \in SUBSET Nat /\ I # {}
      BY <1>1 DEF Range
    <2>2. SelectInSeq(s, LAMBDA e : e = n) = Min(I)
      BY <2>1 DEF SelectInSeq
    <2>3. \A i \in I : i \in DOMAIN s /\ s[i] = n
      OBVIOUS
    <2> HIDE DEF I
    <2>4. \E i \in I : \A j \in I : i <= j
      BY <2>1, LeastIs
    <2>5. Min(I) \in I
      BY <2>4 DEF Min
    <2> QED
      BY <1>1, <2>2, <2>3, <2>5 DEF RowOf
  <1>2. CASE n \notin Range(s)
    BY <1>2 DEF RowOf
  <1> QED BY <1>1, <1>2

LEMMA InBoundsIs ==
  ASSUME NEW s \in Seq(Names), NEW c \in Int
  PROVE  InBounds(c, s) \in DOMAIN s \cup {1}
  BY DEF InBounds

LEMMA AtIs ==
  ASSUME NEW s \in Seq(Names), NEW c
  PROVE  /\ At(c, s) \in Range(s) \cup {Nobody}
         /\ At(c, s) \in Names \cup {Nobody}
  BY DEF At, Range

-----------------------------------------------------------------------------
(***************************************************************************)
(* The list                                                                *)
(***************************************************************************)
Seens == Worlds \cup {Unhashed}

\* What is listed and what is loaded are of names; what is shown is of what is loaded,
\* and is all of it when nothing is filtered.
Listing ==
  /\ entries \in Seq(Names) /\ items \in Seq(Names)
  /\ Range(entries) \subseteq Range(items)
  /\ query = Names => Range(items) \subseteq Range(entries)
  /\ ascending \in BOOLEAN /\ query \in SUBSET Names /\ seen \in Seens

OnARow == cursor \in DOMAIN entries \cup {1}

AsTold == Ordered(entries, ascending)

Within(k) == Len(entries) <= k /\ Len(items) <= k

LEMMA FiniteNames == IsFiniteSet(Names) /\ Cardinality(Names) \in Nat
  BY ListViewAssumption, FS_CardinalityType

LEMMA SortedNames ==
  ASSUME NEW S \in SUBSET Names, NEW up \in BOOLEAN
  PROVE  /\ Sorted(S, up) \in Seq(Names) /\ Range(Sorted(S, up)) = S
         /\ Ordered(Sorted(S, up), up) /\ Len(Sorted(S, up)) <= Cardinality(Names)
  <1>1. S \subseteq Nat /\ IsFiniteSet(S) /\ Cardinality(S) <= Cardinality(Names)
    BY FiniteNames, NamesAre, FS_Subset
  <1> DEFINE t == Sorted(S, up)
  <1>2. t \in Seq(S) /\ Len(t) = Cardinality(S) /\ Range(t) = S /\ Ordered(t, up)
    BY <1>1, SortedIs
  <1> HIDE DEF t
  <1>3. t \in Seq(Names)
    BY <1>2
  <1> QED
    BY <1>1, <1>2, <1>3 DEF t

LEMMA ShowsIs ==
  ASSUME Listing, NEW w \in Seens, Shows(w)
  PROVE  /\ Listing' /\ AsTold'
         /\ Range(items)' = Holds(w)
         /\ Within(Cardinality(Names))'
  <1>1. Holds(w) \subseteq Names /\ Holds(w) \cap query \subseteq Names /\ ascending \in BOOLEAN
    BY DEF Holds, Listing
  <1> DEFINE H == Holds(w)
             a == Sorted(H \cap query, ascending)
             b == Sorted(H, FALSE)
  <1>2. /\ a \in Seq(Names) /\ Range(a) = H \cap query /\ Ordered(a, ascending) /\ Len(a) <= Cardinality(Names)
        /\ b \in Seq(Names) /\ Range(b) = H /\ Len(b) <= Cardinality(Names)
    BY <1>1, SortedNames
  <1>3. /\ entries' = a /\ items' = IF query = Names THEN a ELSE b
        /\ seen' = w /\ UNCHANGED <<ascending, query>>
    BY DEF Shows
  <1> HIDE DEF a, b, H
  <1>4. query = Names => H \cap query = H
    BY <1>1 DEF H
  <1>5. Range(items') = H
    BY <1>2, <1>3, <1>4
  <1> QED
    BY <1>2, <1>3, <1>4, <1>5 DEF H, Listing, AsTold, Within

LEMMA KeepsRowIs ==
  ASSUME entries' \in Seq(Names), cursor \in Nat, KeepsRow
  PROVE  OnARow'
  BY InBoundsIs DEF KeepsRow, OnARow

LEMMA KeepsLoadedRowIs ==
  ASSUME entries' \in Seq(Names), NEW w, KeepsLoadedRow(w)
  PROVE  OnARow'
  BY RowOfIs DEF KeepsLoadedRow, OnARow

LEMMA MoveIs ==
  ASSUME Listing, MoveCursor
  PROVE  Listing' /\ OnARow' /\ entries' = entries /\ items' = items /\ ascending' = ascending
  BY DEF MoveCursor, Listing, OnARow

LEMMA ToggleIs ==
  ASSUME Listing, OnARow \/ cursor \in Nat, ToggleSort
  PROVE  /\ Listing' /\ AsTold' /\ (OnARow => OnARow')
         /\ Range(items)' = Range(items) /\ Range(entries)' = Range(entries)
         /\ Len(entries') = Len(entries) /\ Len(items') \in {Len(items), Len(entries)}
         /\ entries # <<>> /\ Selected # Nobody => Selected' = Selected
  <1> DEFINE t == InOrder(entries, ascending')
  <1>1. /\ ascending' \in BOOLEAN /\ entries' = t /\ items' = IF query = Names THEN t ELSE items
        /\ cursor' = (IF entries = <<>> THEN cursor ELSE RowOf(Selected, t))
        /\ UNCHANGED <<query, seen>>
    BY DEF ToggleSort, Listing
  <1>2. t \in Seq(Names) /\ Len(t) = Len(entries) /\ Range(t) = Range(entries) /\ Ordered(t, ascending')
    BY <1>1, InOrderIs DEF Listing
  <1> HIDE DEF t
  <1>3. Range(items') = Range(items)
    BY <1>1, <1>2 DEF Listing
  <1>4. Listing' /\ AsTold'
    BY <1>1, <1>2, <1>3 DEF Listing, AsTold
  <1>5. OnARow => OnARow'
    <2>1. CASE entries = <<>>
      <3>1. DOMAIN entries = {}
        BY <2>1
      <3> QED
        BY <1>1, <2>1, <3>1 DEF OnARow
    <2>2. CASE entries # <<>>
      BY <1>1, <1>2, <2>2, RowOfIs DEF OnARow
    <2> QED BY <2>1, <2>2
  <1>6. ASSUME entries # <<>>, Selected # Nobody
        PROVE  Selected' = Selected
    <2>1. Selected \in Range(t)
      BY <1>2, <1>6 DEF Selected, At, Range, Listing
    <2>2. RowOf(Selected, t) \in DOMAIN t /\ t[RowOf(Selected, t)] = Selected
      BY <1>2, <2>1, RowOfIs
    <2>3. cursor' \in DOMAIN t /\ t[cursor'] = Selected
      BY <1>1, <1>6, <2>2
    <2> QED
      BY <1>1, <2>3 DEF Selected, At
  <1> QED
    BY <1>1, <1>2, <1>3, <1>4, <1>5, <1>6

LEMMA SearchIs ==
  ASSUME Listing, NEW sorts \in BOOLEAN, Search(sorts)
  PROVE  /\ Listing' /\ OnARow' /\ (sorts => AsTold')
         /\ Range(items)' = Range(items)
         /\ Len(entries') <= Len(items) /\ Len(items') <= Len(items)
  <1> DEFINE f == Filtered(query', items)
             t == IF sorts THEN InOrder(f, ascending) ELSE f
  <1>1. query' \in SUBSET Names
    BY DEF Search
  <1>2. f \in Seq(Names) /\ Len(f) <= Len(items) /\ Range(f) = Range(items) \cap query'
    BY FilteredIs DEF Listing
  <1>3. /\ entries' = t /\ items' = (IF query' = Names THEN t ELSE items)
        /\ \E n : cursor' = RowOf(n, t)
        /\ UNCHANGED <<ascending, seen>>
    BY DEF Search
  <1> HIDE DEF f
  <1>4. t \in Seq(Names) /\ Len(t) <= Len(items) /\ Range(t) = Range(items) \cap query' /\ (sorts => Ordered(t, ascending))
    BY <1>2, InOrderIs DEF Listing
  <1> HIDE DEF t
  <1>5. Range(items) \subseteq Names
    BY DEF Listing, Range
  <1>6. Range(items') = Range(items)
    BY <1>3, <1>4, <1>5
  <1>7. Listing'
    BY <1>1, <1>3, <1>4, <1>5, <1>6 DEF Listing
  <1>8. OnARow' /\ (sorts => AsTold')
    BY <1>3, <1>4, RowOfIs DEF OnARow, AsTold
  <1> QED
    BY <1>3, <1>4, <1>6, <1>7, <1>8 DEF Listing

LEMMA AddsIs ==
  ASSUME Listing, NEW n \in Names, Adds(n), UNCHANGED <<ascending, query, seen>>
  PROVE  /\ Listing'
         /\ Len(entries') <= Len(items) + 1 /\ Len(items') = Len(items) + 1
  <1> DEFINE a == Append(items, n)
             f == Filtered(query, a)
  <1>1. a \in Seq(Names) /\ Len(a) = Len(items) + 1
    BY AppendProperties DEF Listing
  <1>2. entries' = f /\ items' = a
    BY DEF Adds
  <1> HIDE DEF a
  <1>3. f \in Seq(Names) /\ Len(f) <= Len(a) /\ Range(f) = Range(a) \cap query
    BY <1>1, FilteredIs
  <1>4. Range(a) \subseteq Names
    BY <1>1 DEF Range
  <1> HIDE DEF f
  <1> QED
    BY <1>1, <1>2, <1>3, <1>4 DEF Listing

-----------------------------------------------------------------------------
(***************************************************************************)
(* The poll                                                                *)
(***************************************************************************)

\* What keeps the charts view polled while no beat is to come.
ReadWords == {"load", "check", "same", "releases", "no-releases"}

Reading == \E c \in running \cup mail : c.what \in ReadWords

Scheduled == "scheduled" \in form.busy

\* A generation is used up only with an entry, which a navigation away comes before; a
\* view on the screen has a beat to come or, in the charts view, a read under way; and
\* the charts view believes a beat scheduled only when one is.
PollInv ==
  /\ place \in {"on", "under", "gone", "crashed"}
  /\ events \in 0..MaxEvents
  /\ gen \in Nat /\ 1 <= gen /\ gen <= events + 1
  /\ place = "under" => gen <= events
  /\ ticks \in [Gens -> Nat]
  /\ place = "on" => ticks[gen] > 0 \/ (view = "charts" /\ Reading)
  /\ place = "on" /\ view = "charts" /\ Scheduled => ticks[gen] > 0

\* What all but ticks, entries and what the charts view reads leave of the poll.
Keeps ==
  /\ UNCHANGED <<view, gen, ticks>>
  /\ place' \in {place, "gone", "crashed"}
  /\ UNCHANGED events \/ Happens

LEMMA AnswerKeyKeeps == \A order : AnswerKey(order) => Keeps
  BY DEF AnswerKey, Keeps, screen, poll, bounds

LEMMA StacksKeep == StacksOperator \/ StacksProgram => Keeps \/ Enter \/ ReEnter
  <1>1. StacksOperator => Keeps
    BY AnswerKeyKeeps DEF StacksOperator, StacksMove, DeleteStack, EditStack, SaveStack, NewStack, StacksAnswer,
      SaveDialogKey, CreateDialogKey, FileBrowserKey, StacksKey, Press, Keeps, screen, poll
  <1>2. StacksProgram => Keeps \/ Enter \/ ReEnter
    BY DEF StacksProgram, RunLoadStacks, RunRemoveStack, RunDeploy, RunStacksOther, StacksLoaded,
      StackAnswered, StackDeleteIntent, Deployed, StackFailed, Edited, SavedOrBrowsed, OpenStacks, ReturnToStacks,
      Reads, ReadFails, Does, Keeps, screen, poll, bounds
  <1> QED BY <1>1, <1>2

LEMMA ServicesKeep == ServicesOperator \/ ServicesProgram => Keeps \/ Enter \/ ReEnter
  <1>1. ServicesOperator => Keeps
    BY AnswerKeyKeeps DEF ServicesOperator, ServicesMove, AskService, ServicesAnswer, ScaleAnswer,
        ServicesKey, Press, Keeps, screen, poll
  <1>2. ServicesProgram => Keeps \/ Enter \/ ReEnter
    BY DEF ServicesProgram, RunCheckServices, RunServiceOp, ServicesLoaded, ServiceAnswered,
        ScaleAnswered, ServiceFailed, ToStacks, OpenServices, ReturnToServices, Reads, ReadFails, Does, Keeps, screen, poll,
        bounds
  <1> QED BY <1>1, <1>2

LEMMA NodesKeep == NodesOperator \/ NodesProgram => Keeps \/ Enter \/ ReEnter
  <1>1. NodesOperator => Keeps
    BY AnswerKeyKeeps DEF NodesOperator, NodesMove, ChangeRole, AskNode, NodesAnswer, AvailabilityKey,
        LabelKey, UnlabelKey, NodesKey, Press, Keeps, screen, poll
  <1>2. NodesProgram => Keeps \/ Enter \/ ReEnter
    BY DEF NodesProgram, RunLoadNodes, RunNodeOp, NodesLoaded, NodeAnswered, NodeDone, NodeFailed, OpenNodes,
        ReturnToNodes, EnterEmpty, Reads, ReadFails, Does, Keeps, screen, poll, bounds
  <1> QED BY <1>1, <1>2

LEMMA TasksKeep == SortTasks \/ TasksProgram => Keeps \/ Enter \/ ReEnter
  <1>1. SortTasks => Keeps
    BY DEF SortTasks, Press, Keeps, screen, poll
  <1>2. TasksProgram => Keeps \/ Enter \/ ReEnter
    BY DEF TasksProgram, RunLoadTasks, TasksLoaded, TasksNotLoaded, OpenTasks, ReturnToTasks,
        EnterEmpty, Reads, ReadFails, Does, Keeps, screen, poll, bounds
  <1> QED BY <1>1, <1>2

LEMMA VolumesKeep == VolumesOperator \/ VolumesProgram => Keeps \/ Enter \/ ReEnter
  <1>1. VolumesOperator => Keeps
    BY DEF VolumesOperator, VolumesMove, DismissVolumesError, VolumeAction, VolumesKey, Press,
        Keeps, screen, poll
  <1>2. VolumesProgram => Keeps \/ Enter \/ ReEnter
    BY DEF VolumesProgram, RunLoadVolumes, VolumesLoaded, VolumesNotLoaded, OpenVolumes,
        ReturnToVolumes, EnterEmpty, Reads, ReadFails, Does, Keeps, screen, poll, bounds
  <1> QED BY <1>1, <1>2

LEMMA NetworksKeep == NetworksOperator \/ NetworksProgram => Keeps \/ Enter \/ ReEnter
  <1>1. NetworksOperator => Keeps
    BY DEF NetworksOperator, NetworksMove, AskNetwork, NewNetwork, CreateNetworkKey,
        UsedByNetwork, UsedByKey, DismissNetworksError, NetworksAnswer, NetworksKey, Press,
        Keeps, screen, poll
  <1>2. NetworksProgram => Keeps \/ Enter \/ ReEnter
    BY DEF NetworksProgram, RunLoadNetworks, RunNetworkOp, RunNetworkUsage, NetworksLoaded,
        NetworksNotLoaded, UsageKnown, NetworkDone, NetworkFailed, UsedByLoaded, OpenNetworks,
        ReturnToNetworks, EnterEmpty, Reads, ReadFails, Does, Keeps, screen, poll, bounds
  <1> QED BY <1>1, <1>2

LEMMA ConfigsKeep == ConfigsOperator \/ ConfigsProgram => Keeps \/ Enter \/ ReEnter
  <1>1. ConfigsOperator => Keeps
    BY AnswerKeyKeeps DEF ConfigsOperator, ConfigsMove, AskDeleteConfig, EditConfig, UsedByConfig, NewConfig,
        CreateConfigKey, BrowseConfigKey, DismissConfigs, ConfigsAnswer, ConfigsKey, Press,
        Keeps, screen, poll
  <1>2. ConfigsProgram => Keeps \/ Enter \/ ReEnter
    BY DEF ConfigsProgram, RunLoadConfigs, RunConfigOp, RunConfigsOther, ConfigsLoaded,
        ConfigAnswered, ConfigDone, ConfigEdited, ConfigFailed, ConfigsOtherDone, OpenConfigs, ReturnToConfigs,
        EnterEmpty, Reads, ReadFails, Does, Keeps, screen, poll, bounds
  <1> QED BY <1>1, <1>2

LEMMA SecretsKeep == SecretsOperator \/ SecretsProgram => Keeps \/ Enter \/ ReEnter
  <1>1. SecretsOperator => Keeps
    BY AnswerKeyKeeps DEF SecretsOperator, SecretsMove, AskDeleteSecret, UsedBySecret, RevealSecret,
        NewSecret, CreateSecretKey, BrowseSecretKey, DismissSecrets, SecretsAnswer, SecretsKey,
        Press, Keeps, screen, poll
  <1>2. SecretsProgram => Keeps \/ Enter \/ ReEnter
    BY DEF SecretsProgram, RunLoadSecrets, RunSecretOp, RunSecretsOther, SecretsLoaded,
        SecretAnswered, SecretDeleted, SecretCreated, SecretFailed, SecretsOtherDone, OpenSecrets,
        ReturnToSecrets, EnterEmpty, Reads, ReadFails, Does, Keeps, screen, poll, bounds
  <1> QED BY <1>1, <1>2

LEMMA ContextsKeep == ContextsOperator \/ ContextsProgram => Keeps \/ Enter \/ ReEnter
  <1>1. ContextsOperator => Keeps
    BY AnswerKeyKeeps DEF ContextsOperator, ContextsMove, ClearContextsFilter, SwitchContext, DeleteOrExport,
        OpenContextForm, CreateContextKey, EditContextKey, CertKey, BrowseContextKey,
        DismissContextsError, ContextsAnswer, ContextsEsc, ContextsKey, Press, Keeps, screen,
        poll
  <1>2. ContextsProgram => Keeps \/ Enter \/ ReEnter
    BY DEF ContextsProgram, RunLoadContexts, RunContextOp, RunContextFiles, ContextsLoaded,
        ContextAnswered, ContextDone, ContextFailed, ExportExists, ContextFilesLoaded, GoElsewhere,
        OpenContexts, ReturnToContexts, EnterEmpty, Reads, ReadFails, Does, Keeps, screen,
        poll, bounds
  <1> QED BY <1>1, <1>2

-----------------------------------------------------------------------------
(***************************************************************************)
(* What is open, and what is on its way                                    *)
(***************************************************************************)
NamesOrNobody == Names \cup {Nobody}

\* A command or message, a dialog and what else is open, each of its shape.
IsCall(c) == c = [what |-> c.what, on |-> c.on, saw |-> c.saw] /\ c.on \in NamesOrNobody /\ c.saw \in Seens

IsDialog(d) ==
  /\ d = [mode |-> d.mode, act |-> d.act, on |-> d.on, up |-> d.up]
  /\ d.mode \in {"none", "confirm", "info", "error"} /\ d.on \in NamesOrNobody /\ d.up \in BOOLEAN

IsForm(f) ==
  /\ f = [open |-> f.open, busy |-> f.busy, on |-> f.on, step |-> f.step, for |-> f.for, rows |-> f.rows]
  /\ f.open \subseteq Panels /\ f.on \in NamesOrNobody /\ f.rows \subseteq NamesOrNobody

Asking == IsForm(form) /\ IsDialog(dialog)

Calls == \A c \in running \cup mail : IsCall(c)

StacksBack == form.for \in {"create", "save"}

LEMMA SelectedIs == Listing => Selected \in NamesOrNobody
  BY AtIs DEF Selected, Listing, NamesOrNobody

LEMMA Changed ==
  ASSUME NEW f, IsForm(f), NEW x
  PROVE  /\ x \subseteq Panels => IsForm([f EXCEPT !.open = x])
         /\ IsForm([f EXCEPT !.busy = x])
         /\ x \in NamesOrNobody => IsForm([f EXCEPT !.on = x])
         /\ IsForm([f EXCEPT !.step = x])
         /\ IsForm([f EXCEPT !.for = x])
         /\ x \subseteq NamesOrNobody => IsForm([f EXCEPT !.rows = x])
  BY DEF IsForm

LEMMA FlagsChanged ==
  ASSUME IsForm(form), NEW x
  PROVE  IsForm(Busy(x)) /\ IsForm(Idle(x))
  BY DEF IsForm, Busy, Idle

LEMMA PanelsChanged ==
  ASSUME IsForm(form), NEW p
  PROVE  (p \in Panels => IsForm(Opened(p))) /\ IsForm(Shut(p))
  BY DEF IsForm, Opened, Shut

LEMMA UpChanged ==
  ASSUME NEW d, NEW x, d = [mode |-> d.mode, act |-> d.act, on |-> d.on, up |-> d.up]
  PROVE  [d EXCEPT !.up = x] = [mode |-> d.mode, act |-> d.act, on |-> d.on, up |-> x]
  OBVIOUS

LEMMA DialogsAre ==
  /\ IsDialog(Quiet) /\ (IsDialog(dialog) => IsDialog(Hidden))
  /\ \A act : \A n \in NamesOrNobody :
       IsDialog(Asks(act, n)) /\ IsDialog(Tells(act, n)) /\ IsDialog(Notes(act, n))
  <1>1. IsDialog(Quiet)
    BY DEF Quiet, IsDialog, NamesOrNobody
  <1>2. IsDialog(dialog) => IsDialog(Hidden)
    <2> SUFFICES ASSUME IsDialog(dialog) PROVE IsDialog(Hidden)
      OBVIOUS
    <2>1. Hidden = [mode |-> dialog.mode, act |-> dialog.act, on |-> dialog.on, up |-> FALSE]
      BY UpChanged DEF IsDialog, Hidden
    <2>2. dialog.mode \in {"none", "confirm", "info", "error"} /\ dialog.on \in NamesOrNobody
      BY DEF IsDialog
    <2> QED
      BY <2>1, <2>2, Zenon DEF IsDialog
  <1>3. \A act : \A n \in NamesOrNobody :
          IsDialog(Asks(act, n)) /\ IsDialog(Tells(act, n)) /\ IsDialog(Notes(act, n))
    BY DEF IsDialog, Asks, Tells, Notes
  <1> QED
    BY <1>1, <1>2, <1>3

LEMMA NobodyIsOne == Nobody \in NamesOrNobody
  BY DEF NamesOrNobody

LEMMA OverNoticeIs ==
  ASSUME NEW d, IsDialog(d)
  PROVE  IsDialog(OverNotice(d)) /\ OverNotice(d).act = d.act /\ OverNotice(d).on = d.on /\ OverNotice(d).up = d.up
  BY DEF IsDialog, OverNotice

\* An answered dialog only goes from the screen.
LEMMA AnswerKeyAsking ==
  ASSUME Asking, NEW order, AnswerKey(order)
  PROVE  Asking' /\ form' = form /\ dialog' = Hidden
  BY DialogsAre DEF AnswerKey, Asking

LEMMA ArmsIs ==
  ASSUME NEW f, IsForm(f), ArmsIn(f)
  PROVE  /\ IsForm(form') /\ form'.rows = f.rows /\ form'.for = f.for
         /\ Scheduled' /\ gen' = gen
         /\ ticks' = IF "scheduled" \in f.busy THEN ticks ELSE Armed(gen)
  BY DEF ArmsIn, IsForm, Scheduled

\* What a load of releases leaves, but for the list.
LEMMA ReleasesLoadedIs ==
  ASSUME Listing, Asking, Calls, ReleasesLoaded
  PROVE  \E m \in mail : \E f :
           /\ place = "on" /\ m.what = "releases" /\ IsCall(m) /\ mail' = mail \ {m} /\ running' = running
           /\ Shows(m.saw) /\ m.saw \in Seens
           /\ IsForm(f) /\ ArmsIn(f)
           /\ f.rows \subseteq Holds(m.saw)
           /\ f.busy = form.busy \ {"first"} /\ f.step = "ready"
           /\ f.for = "child" => At(cursor', entries') \in f.rows
           /\ \/ \E n : cursor' = RowOf(n, entries')
              \/ cursor' = 1
              \/ cursor' = InBounds(cursor, entries')
  <1>1. PICK m \in mail :
       /\ Hears(m, {"releases"}) /\ Heard(m) /\ Shows(m.saw)
       /\ LET asked == form.on \in Range(entries')
              row   == IF asked THEN RowOf(form.on, entries')
                       ELSE IF "first" \in form.busy THEN 1
                       ELSE IF Selected \in Range(entries') THEN RowOf(Selected, entries')
                       ELSE InBounds(cursor, entries')
              rows  == (form.rows \cup (IF asked THEN {form.on} ELSE {})) \cap Holds(m.saw)
          IN /\ cursor' = row
             /\ ArmsIn([form EXCEPT !.rows = rows, !.step = "ready", !.busy = @ \ {"first"},
                          !.on = IF entries' # <<>> THEN Nobody ELSE @,
                          !.for = IF ~asked /\ At(row, entries') \in rows THEN @ ELSE "none"])
    BY DEF ReleasesLoaded
  <1> DEFINE asked == form.on \in Range(entries')
             row   == IF asked THEN RowOf(form.on, entries')
                       ELSE IF "first" \in form.busy THEN 1
                       ELSE IF Selected \in Range(entries') THEN RowOf(Selected, entries')
                       ELSE InBounds(cursor, entries')
             rows  == (form.rows \cup (IF asked THEN {form.on} ELSE {})) \cap Holds(m.saw)
             g1 == [form EXCEPT !.rows = rows]
             g2 == [g1 EXCEPT !.step = "ready"]
             g3 == [g2 EXCEPT !.busy = @ \ {"first"}]
             g4 == [g3 EXCEPT !.on = IF entries' # <<>> THEN Nobody ELSE @]
             g5 == [g4 EXCEPT !.for = IF ~asked /\ At(row, entries') \in rows THEN @ ELSE "none"]
  <1>2. ArmsIn(g5) /\ cursor' = row
    BY <1>1
  <1>a. rows \subseteq Names /\ rows \subseteq Holds(m.saw)
    BY DEF Holds
  <1> HIDE DEF row, rows, asked
  <1>3. IsForm(g1) /\ g1.rows = rows /\ g1.busy = form.busy
    BY <1>a DEF IsForm, Asking, NamesOrNobody
  <1> HIDE DEF g1
  <1>4. IsForm(g2) /\ g2.rows = rows /\ g2.busy = form.busy /\ g2.step = "ready"
    BY <1>3 DEF IsForm
  <1> HIDE DEF g2
  <1>5. IsForm(g3) /\ g3.rows = rows /\ g3.busy = form.busy \ {"first"}
    BY <1>4, SMTT(30) DEF IsForm
  <1>b. g3.step = "ready"
    BY <1>4 DEF IsForm
  <1> HIDE DEF g3
  <1>6. IsForm(g4) /\ g4.rows = rows /\ g4.busy = form.busy \ {"first"} /\ g4.step = "ready"
    BY <1>5, <1>b DEF IsForm, NamesOrNobody
  <1> HIDE DEF g4
  <1>7. IsForm(g5) /\ g5.rows = rows /\ g5.busy = form.busy \ {"first"} /\ g5.step = "ready"
        /\ (g5.for = "child" => At(row, entries') \in rows)
    BY <1>6 DEF IsForm
  <1> HIDE DEF g5
  <1>8. IsCall(m) /\ m.saw \in Seens
    BY DEF Calls, IsCall
  <1>9. \/ \E n : cursor' = RowOf(n, entries')
        \/ cursor' = 1
        \/ cursor' = InBounds(cursor, entries')
    BY <1>2 DEF row
  <1> QED
    BY <1>1, <1>2, <1>a, <1>7, <1>8, <1>9 DEF Hears, Heard
LEMMA ReleasesNotLoadedIs ==
  ASSUME Asking, ReleasesNotLoaded
  PROVE  \E f : IsForm(f) /\ ArmsIn(f) /\ f.rows = form.rows /\ f.busy = form.busy \ {"first"} /\ f.for = form.for
  <1> DEFINE f == [form EXCEPT !.busy = @ \ {"first"}]
             g == [f EXCEPT !.step = "error"]
             h == [g EXCEPT !.open = {"error"}]
  <1>1. ArmsIn(f) \/ ArmsIn(h)
    BY DEF ReleasesNotLoaded
  <1>2. IsForm(f) /\ f.rows = form.rows /\ f.busy = form.busy \ {"first"} /\ f.for = form.for
    BY SMTT(30) DEF IsForm, Asking
  <1> HIDE DEF f
  <1>3. IsForm(g) /\ g.rows = form.rows /\ g.busy = form.busy \ {"first"} /\ g.for = form.for
    BY <1>2 DEF IsForm
  <1> HIDE DEF g
  <1>4. IsForm(h) /\ h.rows = form.rows /\ h.busy = form.busy \ {"first"} /\ h.for = form.for
    BY <1>3 DEF IsForm, Panels
  <1> HIDE DEF h
  <1> QED
    BY <1>1, <1>2, <1>4

LEMMA StacksAsking ==
  ASSUME Listing, Asking, Calls, StacksOperator \/ StacksTick \/ StacksProgram, place = "on" => StacksBack
  PROVE  Asking'
  <1> Selected \in NamesOrNobody
    BY SelectedIs
  <1> HIDE DEF Selected
  <1> USE DEF Asking
  <1>1. CASE StacksTick \/ StacksMove \/ DeleteStack \/ RunLoadStacks \/ RunRemoveStack \/
              RunDeploy \/ RunStacksOther \/ StacksLoaded \/ ReturnToStacks
    BY <1>1 DEF StacksTick, StacksMove, DeleteStack, RunLoadStacks, RunRemoveStack, RunDeploy,
      RunStacksOther, StacksLoaded, ReturnToStacks, Tick, asking
  <1>2. CASE EditStack
    BY <1>2, DialogsAre, OverNoticeIs DEF EditStack, asking
  <1>3. CASE SaveStack
    BY <1>3 DEF SaveStack, With, Opened, asking, IsForm, IsDialog, Panels, NamesOrNobody,
      StacksBack
  <1>4. CASE NewStack
    BY <1>4 DEF NewStack, With, Opened, asking, IsForm, IsDialog, Panels, NamesOrNobody,
      StacksBack
  <1>5. CASE StacksAnswer \/ StackAnswered
    BY <1>5, DialogsAre, AnswerKeyAsking, PanelsChanged DEF StacksAnswer, StackAnswered, With, Panels
  <1>6. CASE SaveDialogKey
    <2>1. /\ form' \in {Shut("save"), [form EXCEPT !.open = {"browse"}, !.for = "save"]}
          /\ dialog' \in {dialog, OverNotice(Asks("overwrite", form.on))}
      BY <1>6 DEF SaveDialogKey, Shuts, With, asking
    <2>2. form.on \in NamesOrNobody
      BY DEF IsForm
    <2>3. IsForm([form EXCEPT !.open = {"browse"}, !.for = "save"])
      <3> DEFINE g == [form EXCEPT !.open = {"browse"}]
      <3>1. IsForm(g)
        BY Changed DEF Panels
      <3> HIDE DEF g
      <3>2. IsForm([g EXCEPT !.for = "save"])
        BY <3>1, Changed
      <3> QED
        BY <3>2 DEF g
    <2>4. IsForm(form')
      BY <2>1, <2>3, PanelsChanged
    <2>5. IsDialog(dialog')
      BY <2>1, <2>2, DialogsAre, OverNoticeIs
    <2> QED
      BY <2>4, <2>5
  <1>7. CASE CreateDialogKey
    <2>1. UNCHANGED dialog /\ \/ form' = Shut("create")
                              \/ \E to : form' = [form EXCEPT !.step = to, !.busy = @ \ {"file"}]
                              \/ \E busy : form' = [Shut("create") EXCEPT !.busy = @ \cup busy]
                              \/ form' = [form EXCEPT !.open = (@ \ {"create"}) \cup {"browse"}, !.for = "create"]
      BY <1>7 DEF CreateDialogKey, Shuts, CreateSourceKey, CreateFileKey, CreateInlineKey, With, DeploysNew
    <2>2. ASSUME NEW to PROVE IsForm([form EXCEPT !.step = to, !.busy = @ \ {"file"}])
      <3> DEFINE g == [form EXCEPT !.step = to]
      <3>1. IsForm(g)
        BY Changed
      <3> HIDE DEF g
      <3>2. IsForm([g EXCEPT !.busy = g.busy \ {"file"}])
        BY <3>1, Changed
      <3> QED
        BY <3>2 DEF g
    <2>3. ASSUME NEW busy PROVE IsForm([Shut("create") EXCEPT !.busy = @ \cup busy])
      <3> DEFINE g == Shut("create")
      <3>1. IsForm(g)
        BY PanelsChanged
      <3> HIDE DEF g
      <3>2. IsForm([g EXCEPT !.busy = g.busy \cup busy])
        BY <3>1, Changed
      <3> QED
        BY <3>2 DEF g
    <2>4. IsForm([form EXCEPT !.open = (@ \ {"create"}) \cup {"browse"}, !.for = "create"])
      <3> DEFINE g == [form EXCEPT !.open = (@ \ {"create"}) \cup {"browse"}]
      <3>1. (form.open \ {"create"}) \cup {"browse"} \subseteq Panels
        BY DEF IsForm, Panels
      <3>2. IsForm(g)
        BY <3>1, Changed
      <3> HIDE DEF g
      <3>3. IsForm([g EXCEPT !.for = "create"])
        BY <3>2, Changed
      <3> QED
        BY <3>3 DEF g
    <2> QED
      BY <2>1, <2>2, <2>3, <2>4, PanelsChanged
  <1>8. CASE FileBrowserKey
    <2>1. StacksBack
      BY <1>8 DEF FileBrowserKey, StacksKey, Press
    <2>2. UNCHANGED dialog /\ \/ form' = [form EXCEPT !.open = (@ \ {"browse"}) \cup {form.for}]
                              \/ form' = form
                              \/ form' = [Shut("browse") EXCEPT !.step = "inline"]
      BY <1>8 DEF FileBrowserKey, With
    <2>3. (form.open \ {"browse"}) \cup {form.for} \subseteq Panels
      BY <2>1 DEF IsForm, Panels, StacksBack
    <2>4. IsForm([form EXCEPT !.open = (@ \ {"browse"}) \cup {form.for}])
      BY <2>3, Changed
    <2>5. IsForm([Shut("browse") EXCEPT !.step = "inline"])
      BY PanelsChanged, Changed
    <2> QED
      BY <2>2, <2>4, <2>5
  <1>9. CASE StackDeleteIntent
    BY <1>9, DialogsAre, OverNoticeIs DEF StackDeleteIntent, Hears, Calls, IsCall
  <1>10. CASE Deployed
    BY <1>10 DEF Deployed, Hears, With, Idle, asking, IsForm, IsDialog, Panels, NamesOrNobody,
      StacksBack
  <1>11. CASE StackFailed
    <2>1. PICK m \in mail :
            \/ dialog' = OverNotice(Tells("remove", m.on)) /\ UNCHANGED form
            \/ dialog' = OverNotice(Tells("update", m.on)) /\ With(Idle("deploying"))
            \/ /\ UNCHANGED dialog
               /\ With([Idle("deploying") EXCEPT !.open = (@ \ {"browse"}) \cup {"create"},
                          !.step = IF "file" \in form.busy THEN "file" ELSE "inline"])
      BY <1>11 DEF StackFailed
    <2>2. IsDialog(OverNotice(Tells("remove", m.on))) /\ IsDialog(OverNotice(Tells("update", m.on)))
      BY DialogsAre, OverNoticeIs DEF Calls, IsCall
    <2>3. IsForm([Idle("deploying") EXCEPT !.open = (@ \ {"browse"}) \cup {"create"},
                    !.step = IF "file" \in form.busy THEN "file" ELSE "inline"])
      <3> DEFINE f == Idle("deploying")
                 g == [f EXCEPT !.open = (@ \ {"browse"}) \cup {"create"}]
                 s == IF "file" \in form.busy THEN "file" ELSE "inline"
      <3>1. IsForm(f)
        BY FlagsChanged
      <3> HIDE DEF f, s
      <3>2. (f.open \ {"browse"}) \cup {"create"} \subseteq Panels
        BY <3>1 DEF IsForm, Panels
      <3>3. IsForm(g)
        BY <3>1, <3>2, Changed
      <3> HIDE DEF g
      <3>4. IsForm([g EXCEPT !.step = s])
        BY <3>3, Changed
      <3> QED
        BY <3>4 DEF f, g, s
    <2> QED
      BY <2>1, <2>2, <2>3, FlagsChanged DEF With
  <1>12. CASE Edited
    <2>1. PICK m \in mail :
            \/ UNCHANGED dialog /\ With([Opened("create") EXCEPT !.step = "inline"])
            \/ UNCHANGED <<dialog, form>>
            \/ dialog' = OverNotice(Tells("update", m.on)) /\ UNCHANGED form
            \/ UNCHANGED dialog /\ With(Busy("deploying"))
      BY <1>12 DEF Edited
    <2>2. IsDialog(OverNotice(Tells("update", m.on)))
      BY DialogsAre, OverNoticeIs DEF Calls, IsCall
    <2>3. IsForm([Opened("create") EXCEPT !.step = "inline"])
      BY PanelsChanged, Changed DEF Panels
    <2> QED
      BY <2>1, <2>2, <2>3, FlagsChanged DEF With
  <1>13. CASE SavedOrBrowsed
    <2>1. PICK m \in mail :
            \/ With(Shut("save")) /\ dialog' = Notes("save", m.on)
            \/ UNCHANGED dialog /\ With(Opened("save"))
            \/ UNCHANGED dialog /\ With(Opened("browse"))
            \/ UNCHANGED dialog /\ With([form EXCEPT !.open = (@ \ {"browse"}) \cup {form.for}])
      BY <1>13 DEF SavedOrBrowsed
    <2>2. IsDialog(Notes("save", m.on))
      BY DialogsAre DEF Calls, IsCall
    <2>3. StacksBack
      BY <1>13 DEF SavedOrBrowsed, Hears
    <2>4. (form.open \ {"browse"}) \cup {form.for} \subseteq Panels
      BY <2>3 DEF IsForm, Panels, StacksBack
    <2>5. IsForm([form EXCEPT !.open = (@ \ {"browse"}) \cup {form.for}])
      BY <2>4, Changed
    <2> QED
      BY <2>1, <2>2, <2>5, PanelsChanged DEF With, Panels
  <1>14. CASE OpenStacks
    BY <1>14 DEF OpenStacks, Enter, Closed, Quiet, asking, IsForm, IsDialog, Panels,
      NamesOrNobody, StacksBack
  <1> QED
    BY <1>1, <1>2, <1>3, <1>4, <1>5, <1>6, <1>7, <1>8, <1>9, <1>10, <1>11, <1>12, <1>13, <1>14
      DEF StacksOperator, StacksProgram

LEMMA ServicesAsking ==
  ASSUME Listing, Asking, Calls, ServicesOperator \/ ServicesTick \/ ServicesProgram
  PROVE  Asking'
  <1> Selected \in NamesOrNobody
    BY SelectedIs
  <1> HIDE DEF Selected
  <1> USE DEF Asking
  <1>1. CASE ServicesTick \/ ServicesMove \/ RunCheckServices \/ RunServiceOp \/ ToStacks \/
              ReturnToServices
    BY <1>1 DEF ServicesTick, ServicesMove, RunCheckServices, RunServiceOp, ToStacks,
      ReturnToServices, Tick, asking
  <1>2. CASE AskService
    <2>1. \/ \E act : dialog' = Asks(act, Selected) /\ UNCHANGED form
          \/ With([Opened("scale") EXCEPT !.on = Selected]) /\ UNCHANGED dialog
      BY <1>2 DEF AskService
    <2>2. \A act : IsDialog(Asks(act, Selected))
      BY DEF Asks, IsDialog
    <2>3. IsForm([Opened("scale") EXCEPT !.on = Selected])
      BY PanelsChanged, Changed DEF Panels
    <2> QED
      BY <2>1, <2>2, <2>3 DEF With
  <1>3. CASE ServicesAnswer \/ ServiceAnswered
    BY <1>3, DialogsAre, AnswerKeyAsking DEF ServicesAnswer, ServiceAnswered
  <1>4. CASE ScaleAnswer \/ ScaleAnswered
    BY <1>4, PanelsChanged DEF ScaleAnswer, ScaleAnswered, Shuts, With
  <1>5. CASE ServicesLoaded
    BY <1>5, DialogsAre, NobodyIsOne DEF ServicesLoaded
  <1>6. CASE ServiceFailed
    BY <1>6 DEF ServiceFailed, Hears, Tells, asking, IsForm, IsDialog, Panels, NamesOrNobody,
      Calls, IsCall, Heard
  <1>7. CASE OpenServices
    BY <1>7 DEF OpenServices, Enter, Closed, Quiet, asking, IsForm, IsDialog, Panels,
      NamesOrNobody
  <1> QED
    BY <1>1, <1>2, <1>3, <1>4, <1>5, <1>6, <1>7 DEF ServicesOperator, ServicesProgram

LEMMA NodesAsking ==
  ASSUME Listing, Asking, Calls, NodesOperator \/ NodesTick \/ NodesProgram
  PROVE  Asking'
  <1> Selected \in NamesOrNobody
    BY SelectedIs
  <1> HIDE DEF Selected
  <1> USE DEF Asking
  <1>1. CASE NodesTick \/ NodesMove \/ RunLoadNodes \/ RunNodeOp \/ NodesLoaded \/
              ReturnToNodes
    BY <1>1 DEF NodesTick, NodesMove, RunLoadNodes, RunNodeOp, NodesLoaded, ReturnToNodes,
      Tick, asking
  <1>2. CASE ChangeRole
    <2>1. UNCHANGED form /\ \E act : dialog' \in {Asks(act, Selected), Tells(act, Selected)}
      BY <1>2, Zenon DEF ChangeRole
    <2> QED
      BY <2>1, DialogsAre
  <1>3. CASE AskNode
    <2>1. \/ dialog' \in {Asks("remove", Selected), Tells("no-labels", Selected)} /\ UNCHANGED form
          \/ \E p \in NodePanels : With([Opened(p) EXCEPT !.on = Selected]) /\ UNCHANGED dialog
      BY <1>3 DEF AskNode
    <2>2. \A act : IsDialog(Asks(act, Selected)) /\ IsDialog(Tells(act, Selected))
      BY DEF Asks, Tells, IsDialog
    <2>3. ASSUME NEW p \in NodePanels PROVE IsForm([Opened(p) EXCEPT !.on = Selected])
      BY PanelsChanged, Changed DEF Panels, NodePanels
    <2> QED
      BY <2>1, <2>2, <2>3 DEF With
  <1>4. CASE NodesAnswer \/ NodeAnswered
    BY <1>4, DialogsAre, AnswerKeyAsking DEF NodesAnswer, NodeAnswered
  <1>5. CASE AvailabilityKey
    BY <1>5 DEF AvailabilityKey, Shuts, With, Shut, asking, IsForm, IsDialog, Panels,
      NamesOrNobody
  <1>6. CASE LabelKey
    <2>1. form' = Shut("label") /\ dialog' \in {dialog, Tells("no-label", form.on)}
      BY <1>6 DEF LabelKey, With
    <2>2. form.on \in NamesOrNobody
      BY DEF IsForm
    <2> QED
      BY <2>1, <2>2, DialogsAre, PanelsChanged
  <1>7. CASE UnlabelKey
    BY <1>7 DEF UnlabelKey, Shuts, With, Shut, asking, IsForm, IsDialog, Panels, NamesOrNobody
  <1>8. CASE NodeDone
    <2>1. /\ dialog' \in {dialog, Hidden}
          /\ form' = form \/ \E p : form' = Shut(p)
      BY <1>8 DEF NodeDone, With
    <2> QED
      BY <2>1, DialogsAre, PanelsChanged
  <1>9. CASE NodeFailed
    BY <1>9 DEF NodeFailed, Hears, Tells, asking, IsForm, IsDialog, Panels, NamesOrNobody,
      Calls, IsCall, Heard
  <1>10. CASE OpenNodes
    BY <1>10 DEF OpenNodes, EnterEmpty, Closed, Enter, Quiet, asking, IsForm, IsDialog, Panels,
      NamesOrNobody
  <1> QED
    BY <1>1, <1>2, <1>3, <1>4, <1>5, <1>6, <1>7, <1>8, <1>9, <1>10 DEF NodesOperator,
      NodesProgram

LEMMA TasksAsking ==
  ASSUME Listing, Asking, Calls, SortTasks \/ TasksTick \/ TasksProgram
  PROVE  Asking'
  <1> Selected \in NamesOrNobody
    BY SelectedIs
  <1> HIDE DEF Selected
  <1> USE DEF Asking
  <1>1. CASE TasksTick \/ SortTasks \/ RunLoadTasks \/ TasksLoaded \/ TasksNotLoaded \/
              ReturnToTasks
    BY <1>1 DEF TasksTick, SortTasks, RunLoadTasks, TasksLoaded, TasksNotLoaded, ReturnToTasks,
      Tick, asking
  <1>2. CASE OpenTasks
    BY <1>2 DEF OpenTasks, EnterEmpty, Closed, Enter, Quiet, asking, IsForm, IsDialog, Panels,
      NamesOrNobody
  <1> QED
    BY <1>1, <1>2 DEF TasksProgram

LEMMA VolumesAsking ==
  ASSUME Listing, Asking, Calls, VolumesOperator \/ VolumesTick \/ VolumesProgram
  PROVE  Asking'
  <1> Selected \in NamesOrNobody
    BY SelectedIs
  <1> HIDE DEF Selected
  <1> USE DEF Asking
  <1>1. CASE VolumesTick \/ VolumesMove \/ RunLoadVolumes
    BY <1>1 DEF VolumesTick, VolumesMove, RunLoadVolumes, Tick, asking
  <1>2. CASE DismissVolumesError
    BY <1>2 DEF DismissVolumesError, Shuts, With, Shut, asking, IsForm, IsDialog, Panels,
      NamesOrNobody
  <1>3. CASE VolumeAction
    BY <1>3 DEF VolumeAction, Opens, With, Opened, asking, IsForm, IsDialog, Panels,
      NamesOrNobody
  <1>4. CASE VolumesLoaded
    BY <1>4 DEF VolumesLoaded, Hears, With, Idle, asking, IsForm, IsDialog, Panels,
      NamesOrNobody, Calls, IsCall, Heard
  <1>5. CASE VolumesNotLoaded
    BY <1>5 DEF VolumesNotLoaded, Hears, With, Opened, asking, IsForm, IsDialog, Panels,
      NamesOrNobody
  <1>6. CASE OpenVolumes
    BY <1>6 DEF OpenVolumes, EnterEmpty, Closed, Enter, Quiet, asking, IsForm, IsDialog,
      Panels, NamesOrNobody
  <1>7. CASE ReturnToVolumes
    BY <1>7 DEF ReturnToVolumes, With, Busy, asking, IsForm, IsDialog, Panels, NamesOrNobody
  <1> QED
    BY <1>1, <1>2, <1>3, <1>4, <1>5, <1>6, <1>7 DEF VolumesOperator, VolumesProgram

LEMMA NetworksAsking ==
  ASSUME Listing, Asking, Calls, NetworksOperator \/ NetworksTick \/ NetworksProgram
  PROVE  Asking'
  <1> Selected \in NamesOrNobody
    BY SelectedIs
  <1> HIDE DEF Selected
  <1> USE DEF Asking
  <1>1. CASE NetworksTick \/ NetworksMove \/ UsedByNetwork \/ RunLoadNetworks \/ RunNetworkOp
              \/ RunNetworkUsage \/ UsageKnown
    BY <1>1 DEF NetworksTick, NetworksMove, UsedByNetwork, RunLoadNetworks, RunNetworkOp,
      RunNetworkUsage, UsageKnown, Tick, asking
  <1>2. CASE AskNetwork
    <2>1. \/ dialog' = Asks("delete", Selected) /\ form' = [form EXCEPT !.on = Selected]
          \/ dialog' = Asks("prune", Nobody) /\ form' = form
      BY <1>2, Zenon DEF AskNetwork, With
    <2>2. IsForm([form EXCEPT !.on = Selected])
      BY Changed
    <2>3. IsDialog(Asks("delete", Selected)) /\ IsDialog(Asks("prune", Nobody))
      BY DialogsAre, NobodyIsOne
    <2> QED
      BY <2>1, <2>2, <2>3
  <1>3. CASE NewNetwork
    BY <1>3 DEF NewNetwork, With, Opened, asking, IsForm, IsDialog, Panels, NamesOrNobody
  <1>4. CASE CreateNetworkKey
    BY <1>4 DEF CreateNetworkKey, With, Shut, NetworkBasicKey, NetworkReviewKey, asking,
      IsForm, IsDialog, Panels, NamesOrNobody
  <1>5. CASE UsedByKey
    BY <1>5 DEF UsedByKey, Shuts, With, Busy, Shut, asking, IsForm, IsDialog, Panels,
      NamesOrNobody
  <1>6. CASE DismissNetworksError
    BY <1>6 DEF DismissNetworksError, Shuts, With, Shut, asking, IsForm, IsDialog, Panels,
      NamesOrNobody
  <1>7. CASE \E yes \in BOOLEAN : NetworksAnswer(yes)
    BY <1>7 DEF NetworksAnswer, Quiet, asking, IsForm, IsDialog, Panels, NamesOrNobody
  <1>8. CASE NetworksLoaded
    BY <1>8 DEF NetworksLoaded, Hears, With, Idle, asking, IsForm, IsDialog, Panels,
      NamesOrNobody, Calls, IsCall, Heard
  <1>9. CASE NetworksNotLoaded
    BY <1>9 DEF NetworksNotLoaded, Hears, With, Opened, asking, IsForm, IsDialog, Panels,
      NamesOrNobody
  <1>10. CASE NetworkDone
    BY <1>10 DEF NetworkDone, Hears, With, Shut, asking, IsForm, IsDialog, Panels,
      NamesOrNobody
  <1>11. CASE NetworkFailed
    BY <1>11 DEF NetworkFailed, Hears, With, Opened, asking, IsForm, IsDialog, Panels,
      NamesOrNobody
  <1>12. CASE UsedByLoaded
    <2>1. UNCHANGED dialog /\ \E m \in mail :
            With([Opened("usedby") EXCEPT !.busy = (@ \ {"unused", "before"}) \cup ({m.what} \ {"usedby"})])
      BY <1>12 DEF UsedByLoaded
    <2>2. ASSUME NEW m PROVE IsForm([Opened("usedby") EXCEPT !.busy = (@ \ {"unused", "before"}) \cup ({m.what} \ {"usedby"})])
      BY PanelsChanged, Changed DEF Panels
    <2> QED
      BY <2>1, <2>2 DEF With
  <1>13. CASE OpenNetworks
    BY <1>13 DEF OpenNetworks, EnterEmpty, Closed, Enter, Quiet, asking, IsForm, IsDialog,
      Panels, NamesOrNobody
  <1>14. CASE ReturnToNetworks
    BY <1>14 DEF ReturnToNetworks, With, Busy, asking, IsForm, IsDialog, Panels, NamesOrNobody
  <1> QED
    BY <1>1, <1>2, <1>3, <1>4, <1>5, <1>6, <1>7, <1>8, <1>9, <1>10, <1>11, <1>12, <1>13, <1>14
      DEF NetworksOperator, NetworksProgram

LEMMA ConfigsAsking ==
  ASSUME Listing, Asking, Calls, ConfigsOperator \/ ConfigsTick \/ ConfigsProgram
  PROVE  Asking'
  <1> Selected \in NamesOrNobody
    BY SelectedIs
  <1> HIDE DEF Selected
  <1> USE DEF Asking
  <1>1. CASE ConfigsTick \/ ConfigsMove \/ UsedByConfig \/ RunLoadConfigs \/ RunConfigOp \/
              RunConfigsOther \/ ConfigDone \/ ReturnToConfigs
    BY <1>1 DEF ConfigsTick, ConfigsMove, UsedByConfig, RunLoadConfigs, RunConfigOp,
      RunConfigsOther, ConfigDone, ReturnToConfigs, Tick, asking
  <1>2. CASE AskDeleteConfig
    BY <1>2, DialogsAre, OverNoticeIs, Changed DEF AskDeleteConfig, With
  <1>3. CASE EditConfig
    BY <1>3, DialogsAre DEF EditConfig, asking
  <1>4. CASE NewConfig
    BY <1>4, ZenonT(30) DEF NewConfig, With, Opened, asking, IsForm, IsDialog, Panels, NamesOrNobody
  <1>5. CASE CreateConfigKey
    BY <1>5 DEF CreateConfigKey, With, Shut, ConfigSourceKey, ConfigFileKey, ConfigInlineKey,
      CreatesConfig, asking, IsForm, IsDialog, Panels, NamesOrNobody
  <1>6. CASE BrowseConfigKey
    BY <1>6 DEF BrowseConfigKey, With, Shut, asking, IsForm, IsDialog, Panels, NamesOrNobody
  <1>7. CASE DismissConfigs
    BY <1>7 DEF DismissConfigs, With, Shut, asking, IsForm, IsDialog, Panels, NamesOrNobody
  <1>8. CASE ConfigsAnswer \/ ConfigAnswered
    <2>1. CASE ConfigsAnswer
      BY <2>1, AnswerKeyAsking DEF ConfigsAnswer
    <2>2. CASE ConfigAnswered
      <3>1. dialog' = Quiet /\ form' = [form EXCEPT !.on = Nobody]
        BY <2>2 DEF ConfigAnswered, With
      <3> QED
        BY <3>1, DialogsAre, Changed, NobodyIsOne
    <2> QED
      BY <1>8, <2>1, <2>2
  <1>9. CASE ConfigsLoaded
    BY <1>9 DEF ConfigsLoaded, Hears, With, asking, IsForm, IsDialog, Panels, NamesOrNobody,
      Calls, IsCall, Heard
  <1>10. CASE ConfigEdited
    <2>1. PICK m \in mail :
            dialog' = OverNotice(Asks("rotate", m.on)) /\ form' = [form EXCEPT !.on = m.on]
      BY <1>10 DEF ConfigEdited, With
    <2>2. m.on \in NamesOrNobody
      BY DEF Calls, IsCall
    <2>3. IsForm(form')
      BY <2>1, <2>2, Changed
    <2>4. IsDialog(dialog')
      BY <2>1, <2>2, DialogsAre, OverNoticeIs
    <2> QED
      BY <2>3, <2>4
  <1>11. CASE ConfigFailed
    BY <1>11, ZenonT(30) DEF ConfigFailed, Hears, With, Opened, asking, IsForm, IsDialog, Panels,
      NamesOrNobody
  <1>12. CASE ConfigsOtherDone
    BY <1>12, ZenonT(30) DEF ConfigsOtherDone, Hears, With, Opened, asking, IsForm, IsDialog, Panels,
      NamesOrNobody
  <1>13. CASE OpenConfigs
    BY <1>13 DEF OpenConfigs, EnterEmpty, Closed, Enter, Quiet, asking, IsForm, IsDialog,
      Panels, NamesOrNobody
  <1> QED
    BY <1>1, <1>2, <1>3, <1>4, <1>5, <1>6, <1>7, <1>8, <1>9, <1>10, <1>11, <1>12, <1>13 DEF
      ConfigsOperator, ConfigsProgram

LEMMA SecretsAsking ==
  ASSUME Listing, Asking, Calls, SecretsOperator \/ SecretsTick \/ SecretsProgram
  PROVE  Asking'
  <1> Selected \in NamesOrNobody
    BY SelectedIs
  <1> HIDE DEF Selected
  <1> USE DEF Asking
  <1>1. CASE SecretsTick \/ SecretsMove \/ UsedBySecret \/ RunLoadSecrets \/ RunSecretOp \/
              RunSecretsOther \/ SecretDeleted \/ ReturnToSecrets
    BY <1>1 DEF SecretsTick, SecretsMove, UsedBySecret, RunLoadSecrets, RunSecretOp,
      RunSecretsOther, SecretDeleted, ReturnToSecrets, Tick, asking
  <1>2. CASE AskDeleteSecret
    BY <1>2 DEF AskDeleteSecret, Asks, With, asking, IsForm, IsDialog, Panels, NamesOrNobody
  <1>3. CASE RevealSecret
    BY <1>3 DEF RevealSecret, Opens, With, Opened, asking, IsForm, IsDialog, Panels,
      NamesOrNobody
  <1>4. CASE NewSecret
    BY <1>4 DEF NewSecret, With, Opened, asking, IsForm, IsDialog, Panels, NamesOrNobody
  <1>5. CASE CreateSecretKey
    BY <1>5 DEF CreateSecretKey, With, Shut, SecretSourceKey, SecretFileKey, SecretInlineKey,
      CreatesSecret, asking, IsForm, IsDialog, Panels, NamesOrNobody
  <1>6. CASE BrowseSecretKey
    BY <1>6 DEF BrowseSecretKey, With, asking, IsForm, IsDialog, Panels, NamesOrNobody
  <1>7. CASE DismissSecrets
    BY <1>7 DEF DismissSecrets, With, Shut, asking, IsForm, IsDialog, Panels, NamesOrNobody
  <1>8. CASE SecretsAnswer \/ SecretAnswered
    <2>1. CASE SecretsAnswer
      BY <2>1, AnswerKeyAsking DEF SecretsAnswer
    <2>2. CASE SecretAnswered
      <3>1. dialog' = Quiet /\ form' = [form EXCEPT !.on = Nobody]
        BY <2>2 DEF SecretAnswered, With
      <3> QED
        BY <3>1, DialogsAre, Changed, NobodyIsOne
    <2> QED
      BY <1>8, <2>1, <2>2
  <1>9. CASE SecretsLoaded
    BY <1>9 DEF SecretsLoaded, Hears, With, asking, IsForm, IsDialog, Panels, NamesOrNobody,
      Calls, IsCall, Heard
  <1>10. CASE SecretCreated
    BY <1>10 DEF SecretCreated, Hears, With, Shut, asking, IsForm, IsDialog, Panels,
      NamesOrNobody, Calls, IsCall, Heard
  <1>11. CASE SecretFailed
    BY <1>11 DEF SecretFailed, Hears, With, asking, IsForm, IsDialog, Panels, NamesOrNobody
  <1>12. CASE SecretsOtherDone
    BY <1>12, ZenonT(30) DEF SecretsOtherDone, Hears, With, Opened, asking, IsForm, IsDialog, Panels,
      NamesOrNobody
  <1>13. CASE OpenSecrets
    BY <1>13 DEF OpenSecrets, EnterEmpty, Closed, Enter, Quiet, asking, IsForm, IsDialog,
      Panels, NamesOrNobody
  <1> QED
    BY <1>1, <1>2, <1>3, <1>4, <1>5, <1>6, <1>7, <1>8, <1>9, <1>10, <1>11, <1>12, <1>13 DEF
      SecretsOperator, SecretsProgram

LEMMA ContextsAsking ==
  ASSUME Listing, Asking, Calls, ContextsOperator \/ ContextsTick \/ ContextsProgram
  PROVE  Asking'
  <1> Selected \in NamesOrNobody
    BY SelectedIs
  <1> HIDE DEF Selected
  <1> USE DEF Asking
  <1>1. CASE ContextsTick \/ ContextsMove \/ ClearContextsFilter \/ RunLoadContexts \/
              RunContextOp \/ RunContextFiles \/ GoElsewhere
    BY <1>1 DEF ContextsTick, ContextsMove, ClearContextsFilter, RunLoadContexts, RunContextOp,
      RunContextFiles, GoElsewhere, Tick, asking
  <1>2. CASE SwitchContext
    BY <1>2 DEF SwitchContext, With, Busy, asking, IsForm, IsDialog, Panels, NamesOrNobody
  <1>3. CASE DeleteOrExport
    <2>1. \/ UNCHANGED asking
          \/ /\ Selected \in Names /\ dialog' = Asks("delete", Selected)
             /\ form' = [form EXCEPT !.rows = {Selected}]
      BY <1>3 DEF DeleteOrExport, With, NamesOrNobody
    <2>2. {Selected} \subseteq NamesOrNobody
      OBVIOUS
    <2>3. IsForm([form EXCEPT !.rows = {Selected}])
      BY <2>2, Changed
    <2>4. IsDialog(Asks("delete", Selected))
      BY DialogsAre
    <2> QED
      BY <2>1, <2>3, <2>4 DEF asking
  <1>4. CASE OpenContextForm
    <2>1. UNCHANGED dialog /\ \/ form' \in {Opened("error"), Opened("create"), Opened("browse")}
                              \/ form' = [Opened("edit") EXCEPT !.on = Selected,
                                            !.step = IF seen[Selected] = 2 THEN "current" ELSE "none"]
      BY <1>4 DEF OpenContextForm, With
    <2>2. IsForm([Opened("edit") EXCEPT !.on = Selected, !.step = IF seen[Selected] = 2 THEN "current" ELSE "none"])
      <3> DEFINE g == [Opened("edit") EXCEPT !.on = Selected]
                 s == IF seen[Selected] = 2 THEN "current" ELSE "none"
      <3>1. IsForm(g)
        BY PanelsChanged, Changed DEF Panels
      <3> HIDE DEF g, s
      <3>2. IsForm([g EXCEPT !.step = s])
        BY <3>1, Changed
      <3> QED
        BY <3>2 DEF g, s
    <2> QED
      BY <2>1, <2>2, PanelsChanged DEF Panels
  <1>5. CASE CreateContextKey
    BY <1>5 DEF CreateContextKey, ContextsEsc, With, Shut, Opened, asking, IsForm, IsDialog,
      Panels, NamesOrNobody
  <1>6. CASE EditContextKey
    BY <1>6 DEF EditContextKey, ContextsEsc, With, Shut, asking, IsForm, IsDialog, Panels,
      NamesOrNobody
  <1>7. CASE CertKey
    BY <1>7, ZenonT(30) DEF CertKey, ContextsEsc, With, Shut, Busy, asking, IsForm, IsDialog, Panels,
      NamesOrNobody
  <1>8. CASE BrowseContextKey
    <2>1. UNCHANGED dialog /\ form' \in {[NoFiles EXCEPT !.open = @ \ {"browse"}], form, Busy("before")}
      BY <1>8 DEF BrowseContextKey, With
    <2>2. IsForm(NoFiles)
      BY Changed DEF NoFiles
    <2>3. IsForm([NoFiles EXCEPT !.open = NoFiles.open \ {"browse"}])
      <3>1. NoFiles.open \ {"browse"} \subseteq Panels
        BY <2>2 DEF IsForm
      <3> QED
        BY <2>2, <3>1, Changed
    <2> QED
      BY <2>1, <2>3, FlagsChanged
  <1>9. CASE DismissContextsError
    BY <1>9 DEF DismissContextsError, Shuts, With, Shut, asking, IsForm, IsDialog, Panels,
      NamesOrNobody
  <1>10. CASE ContextsAnswer \/ ContextAnswered
    <2>1. (\E order : AnswerKey(order)) \/ ForgetsAsked
      BY <1>10 DEF ContextsAnswer, ContextAnswered
    <2>2. IsForm([form EXCEPT !.rows = {}])
      BY Changed
    <2>3. ForgetsAsked => dialog' = Quiet /\ form' = [form EXCEPT !.rows = {}]
      BY DEF ForgetsAsked, With
    <2> QED
      BY <2>1, <2>2, <2>3, DialogsAre, AnswerKeyAsking
  <1>11. CASE ContextsLoaded
    BY <1>11 DEF ContextsLoaded, Hears, With, Idle, asking, IsForm, IsDialog, Panels,
      NamesOrNobody, Calls, IsCall, Heard
  <1>12. CASE ContextDone
    <2>1. PICK m \in mail : form' = [form EXCEPT
            !.busy = (@ \cup {"loading"}) \ (IF m.what = "switched" THEN {"switching"} ELSE {}),
            !.open = @ \ CASE m.what = "created" -> {"create"} [] m.what = "imported" -> {"browse"}
                           [] m.what \in {"updated", "moved"} -> {"edit"} [] OTHER -> {}]
      BY <1>12 DEF ContextDone, With
    <2>2. PICK b, o : form' = [form EXCEPT !.busy = b, !.open = @ \ o]
      BY <2>1
    <2>3. IsForm([form EXCEPT !.busy = b, !.open = @ \ o])
      <3> DEFINE g == [form EXCEPT !.busy = b]
      <3>1. IsForm(g)
        BY Changed
      <3> HIDE DEF g
      <3>2. g.open \ o \subseteq Panels
        BY <3>1 DEF IsForm
      <3>3. IsForm([g EXCEPT !.open = @ \ o])
        BY <3>1, <3>2, Changed
      <3> QED
        BY <3>3 DEF g
    <2>4. dialog' = dialog
      BY <1>12 DEF ContextDone
    <2> QED
      BY <2>2, <2>3, <2>4
  <1>13. CASE ContextFailed
    <2>1. UNCHANGED dialog /\ \/ form' = [Idle("switching") EXCEPT !.open = @ \cup {"error"}]
                              \/ form' = Shut("browse")
                              \/ form' = form
      BY <1>13 DEF ContextFailed, With
    <2>2. IsForm([Idle("switching") EXCEPT !.open = @ \cup {"error"}])
      <3> DEFINE g == Idle("switching")
      <3>1. IsForm(g)
        BY FlagsChanged
      <3> HIDE DEF g
      <3>2. g.open \cup {"error"} \subseteq Panels
        BY <3>1 DEF IsForm, Panels
      <3>3. IsForm([g EXCEPT !.open = @ \cup {"error"}])
        BY <3>1, <3>2, Changed
      <3> QED
        BY <3>3 DEF g
    <2> QED
      BY <2>1, <2>2, PanelsChanged
  <1>14. CASE ExportExists
    <2>1. PICK m \in mail : dialog' = Asks("overwrite", m.on) /\ form' = [form EXCEPT !.rows = {m.on}]
      BY <1>14 DEF ExportExists, With
    <2>2. m.on \in NamesOrNobody /\ {m.on} \subseteq NamesOrNobody
      BY DEF Calls, IsCall
    <2> QED
      BY <2>1, <2>2, DialogsAre, Changed
  <1>15. CASE ContextFilesLoaded
    <2>1. UNCHANGED dialog /\ \/ form' = [form EXCEPT !.busy = (@ \ {"before"}) \cup {"files"},
                                            !.open = IF "cert" \in @ THEN @ ELSE @ \cup {"browse"}]
                              \/ form' = Shut("browse")
                              \/ form' = form
      BY <1>15 DEF ContextFilesLoaded, With
    <2>2. IsForm([form EXCEPT !.busy = (@ \ {"before"}) \cup {"files"},
                    !.open = IF "cert" \in @ THEN @ ELSE @ \cup {"browse"}])
      <3> DEFINE g == [form EXCEPT !.busy = (@ \ {"before"}) \cup {"files"}]
      <3>1. IsForm(g)
        BY Changed
      <3> HIDE DEF g
      <3>2. (IF "cert" \in g.open THEN g.open ELSE g.open \cup {"browse"}) \subseteq Panels
        BY <3>1 DEF IsForm, Panels
      <3>3. IsForm([g EXCEPT !.open = IF "cert" \in @ THEN @ ELSE @ \cup {"browse"}])
        BY <3>1, <3>2, Changed
      <3> QED
        BY <3>3 DEF g
    <2> QED
      BY <2>1, <2>2, PanelsChanged
  <1>16. CASE OpenContexts
    BY <1>16 DEF OpenContexts, EnterEmpty, Closed, Enter, Quiet, asking, IsForm, IsDialog,
      Panels, NamesOrNobody
  <1>17. CASE ReturnToContexts
    BY <1>17 DEF ReturnToContexts, With, Busy, asking, IsForm, IsDialog, Panels, NamesOrNobody
  <1> QED
    BY <1>1, <1>2, <1>3, <1>4, <1>5, <1>6, <1>7, <1>8, <1>9, <1>10, <1>11, <1>12, <1>13, <1>14,
      <1>15, <1>16, <1>17 DEF ContextsOperator, ContextsProgram

LEMMA ChartsAsking ==
  ASSUME Listing, Asking, Calls, ChartsOperator \/ ChartsTick \/ ChartsProgram
  PROVE  Asking'
  <1> Selected \in NamesOrNobody
    BY SelectedIs
  <1> HIDE DEF Selected
  <1> USE DEF Asking
  <1>1. CASE RunReadReleases
    BY <1>1 DEF RunReadReleases, asking
  <1>2. CASE ChartsTick
    BY <1>2 DEF ChartsTick, With, Idle, asking, IsForm, IsDialog, Panels, NamesOrNobody
  <1>3. CASE ChartsMove
    BY <1>3 DEF ChartsMove, With, KeepsChild, asking, IsForm, IsDialog, Panels, NamesOrNobody
  <1>4. CASE StepRow
    BY <1>4 DEF StepRow, With, asking, IsForm, IsDialog, Panels, NamesOrNobody
  <1>5. CASE ExpandRow
    BY <1>5 DEF ExpandRow, With, asking, IsForm, IsDialog, Panels, NamesOrNobody
  <1>6. CASE BlockedAction
    BY <1>6, DialogsAre DEF BlockedAction
  <1>7. CASE DismissCharts \/ ChartsAnswer \/ ChartsAnswered
    BY <1>7, DialogsAre, AnswerKeyAsking, PanelsChanged DEF DismissCharts, ChartsAnswer, ChartsAnswered, Shuts, With
  <1>8. CASE PollRetry
    BY <1>8 DEF PollRetry, Hears, ArmsIn, asking, IsForm, IsDialog, Panels, NamesOrNobody
  <1>9. CASE ReleasesLoaded
    BY <1>9, ReleasesLoadedIs, ArmsIs DEF ReleasesLoaded
  <1>10. CASE ReleasesNotLoaded
    BY <1>10, ReleasesNotLoadedIs, ArmsIs DEF ReleasesNotLoaded
  <1>11. CASE OpenCharts
    BY <1>11 DEF OpenCharts, EnterEmpty, Closed, Enter, Quiet, asking, IsForm, IsDialog,
      Panels, NamesOrNobody
  <1>12. CASE ReturnToCharts
    BY <1>12 DEF ReturnToCharts, With, asking, IsForm, IsDialog, Panels, NamesOrNobody
  <1> QED
    BY <1>1, <1>2, <1>3, <1>4, <1>5, <1>6, <1>7, <1>8, <1>9, <1>10, <1>11, <1>12 DEF
      ChartsOperator, ChartsProgram

-----------------------------------------------------------------------------
(***************************************************************************)
(* The poll is never lost                                                  *)
(***************************************************************************)
LEMMA BoundIs == MaxEvents \in Nat
  BY ListViewAssumption

LEMMA ArmedIs ==
  ASSUME ticks \in [Gens -> Nat], NEW g \in Gens, ticks' = Armed(g)
  PROVE  ticks' \in [Gens -> Nat] /\ ticks'[g] > 0 /\ \A h \in Gens : ticks'[h] >= ticks[h]
  BY DEF Armed

LEMMA EnterPolls ==
  ASSUME PollInv, Enter
  PROVE  PollInv'
  <1>1. 1 \in Gens /\ ticks' = Armed(1) /\ gen' = 1 /\ place' = "on" /\ UNCHANGED events
    BY BoundIs DEF Enter, Gens, bounds
  <1>2. ticks' \in [Gens -> Nat] /\ ticks'[1] > 0
    BY <1>1, ArmedIs DEF PollInv
  <1> QED
    BY <1>1, <1>2 DEF PollInv

LEMMA ReEnterPolls ==
  ASSUME PollInv, ReEnter
  PROVE  PollInv'
  <1>1. /\ gen + 1 \in Gens /\ ticks' = Armed(gen + 1) /\ gen' = gen + 1 /\ gen + 1 <= events + 1
        /\ place' = "on" /\ UNCHANGED events
    BY BoundIs DEF ReEnter, Gens, bounds, PollInv
  <1>2. ticks' \in [Gens -> Nat] /\ ticks'[gen + 1] > 0
    BY <1>1, ArmedIs DEF PollInv
  <1> QED
    BY <1>1, <1>2 DEF PollInv

\* A step that leaves the beats alone, and in the charts view what is read and believed.
LEMMA KeepsPolls ==
  ASSUME PollInv, Keeps, view = "charts" => (Reading => Reading') /\ Scheduled' = Scheduled
  PROVE  PollInv'
  BY BoundIs DEF PollInv, Keeps, Happens

LEMMA TickPolls ==
  ASSUME PollInv, NEW g \in Gens, NEW checks, Tick(g, checks)
  PROVE  PollInv'
  <1>1. UNCHANGED <<view, place, gen, events, form>>
    BY DEF Tick, screen, bounds, asking
  <1>2. CASE place = "on" /\ g = gen
    <2>1. ticks' = ticks /\ running' = running \cup checks /\ mail' = mail
      BY <1>2 DEF Tick
    <2>2. (Reading => Reading') /\ Scheduled' = Scheduled
      BY <1>1, <2>1 DEF Reading, Scheduled
    <2> QED
      BY <1>1, <2>1, <2>2 DEF PollInv
  <1>3. CASE ~(place = "on" /\ g = gen)
    <2>1. ticks' = [ticks EXCEPT ![g] = @ - 1] /\ ticks[g] > 0 /\ running' = running /\ mail' = mail
      BY <1>3 DEF Tick, out
    <2>2. ticks' \in [Gens -> Nat] /\ (place = "on" => ticks'[gen] = ticks[gen])
      BY <1>3, <2>1 DEF PollInv
    <2>3. Reading' = Reading /\ Scheduled' = Scheduled
      BY <1>1, <2>1 DEF Reading, Scheduled
    <2> QED
      BY <1>1, <2>2, <2>3 DEF PollInv
  <1> QED
    BY <1>2, <1>3

LEMMA LeavePolls ==
  ASSUME PollInv, NEW stays, Leave(stays)
  PROVE  PollInv'
  BY BoundIs DEF PollInv, Leave, Happens, poll

\* Only entries, beats and the answers of reads touch what the charts view is polled by.
LEMMA ChartsOperatorKeeps ==
  ASSUME Asking, ChartsOperator
  PROVE  Keeps /\ (Reading => Reading') /\ Scheduled' = Scheduled
  <1> USE DEF Asking
  <1>a. UNCHANGED out => (Reading => Reading')
    BY DEF out, Reading
  <1>1. CASE ChartsMove
    BY <1>1, <1>a DEF ChartsMove, ChartsKey, Press, Keeps, screen, poll, With, KeepsChild, IsForm, Scheduled
  <1>2. CASE StepRow
    BY <1>2, <1>a DEF StepRow, ChartsKey, Press, Keeps, screen, poll, With, IsForm, Scheduled
  <1>3. CASE ExpandRow
    BY <1>3, <1>a DEF ExpandRow, ChartsKey, Press, Keeps, screen, poll, With, IsForm, Scheduled
  <1>4. CASE BlockedAction
    BY <1>4, <1>a DEF BlockedAction, ChartsKey, Press, Keeps, screen, poll, Scheduled
  <1>5. CASE DismissCharts
    BY <1>5, <1>a DEF DismissCharts, ChartsKey, Press, Keeps, screen, poll, Shuts, Shut, With, IsForm, Scheduled
  <1>6. CASE ChartsAnswer
    <2>1. Keeps /\ form' = form
      BY <1>6, AnswerKeyKeeps, AnswerKeyAsking DEF ChartsAnswer
    <2>2. running' = running /\ mail \subseteq mail'
      BY <1>6 DEF ChartsAnswer, AnswerKey
    <2> QED
      BY <2>1, <2>2 DEF Reading, Scheduled
  <1> QED
    BY <1>1, <1>2, <1>3, <1>4, <1>5, <1>6 DEF ChartsOperator

LEMMA ArmsPolls ==
  ASSUME PollInv, place = "on", view = "charts", NEW f, IsForm(f), ArmsIn(f), f.busy \subseteq form.busy,
         UNCHANGED <<view, place, events>>, Scheduled \/ "scheduled" \notin f.busy
  PROVE  PollInv'
  <1>1. Scheduled' /\ gen' = gen /\ ticks' = IF "scheduled" \in f.busy THEN ticks ELSE Armed(gen)
    BY ArmsIs
  <1>2. gen \in Gens
    BY BoundIs DEF PollInv, Gens
  <1>3. ticks' \in [Gens -> Nat] /\ ticks'[gen] > 0
    BY <1>1, <1>2, ArmedIs DEF PollInv, Scheduled
  <1> QED
    BY <1>1, <1>3 DEF PollInv

\* An answer is none to a read.
LEMMA AnswerIsNoReading ==
  ASSUME NEW m, HearsAnswer(m), Heard(m)
  PROVE  Reading => Reading'
  BY DEF HearsAnswer, Hears, Heard, Reading, ReadWords

LEMMA ChartsPolls ==
  ASSUME Listing, Asking, Calls, PollInv, view = "charts", ChartsOperator \/ ChartsTick \/ ChartsProgram
  PROVE  PollInv'
  <1>1. CASE ChartsOperator
    BY <1>1, ChartsOperatorKeeps, KeepsPolls
  <1>2. CASE ChartsTick
    <2>1. PICK g \in Gens :
            /\ ticks[g] > 0
            /\ IF place = "on" /\ g = gen
               THEN Begin(Check) /\ With(Idle("scheduled"))
               ELSE UNCHANGED <<out, form>>
            /\ ticks' = [ticks EXCEPT ![g] = @ - 1]
      BY <1>2 DEF ChartsTick
    <2>2. UNCHANGED <<view, place, gen, events>>
      BY <1>2 DEF ChartsTick, screen, bounds
    <2>3. ticks' \in [Gens -> Nat]
      BY <2>1 DEF PollInv
    <2>4. CASE place = "on" /\ g = gen
      <3>1. Check \in running' /\ Check.what = "check"
        BY <2>1, <2>4 DEF Begin, Check, Saw
      <3>2. Reading'
        BY <3>1 DEF Reading, ReadWords
      <3>3. ~Scheduled'
        BY <2>1, <2>4 DEF With, Idle, Scheduled, Asking, IsForm
      <3> QED
        BY <2>2, <2>3, <3>2, <3>3 DEF PollInv
    <2>5. CASE ~(place = "on" /\ g = gen)
      <3>1. Reading' = Reading /\ Scheduled' = Scheduled
        BY <2>1, <2>5 DEF Reading, Scheduled, out
      <3>2. place = "on" => ticks'[gen] = ticks[gen]
        BY <2>1, <2>5 DEF PollInv
      <3> QED
        BY <2>2, <2>3, <3>1, <3>2 DEF PollInv
    <2> QED
      BY <2>4, <2>5
  <1>3. CASE RunReadReleases
    <2>1. Keeps /\ Scheduled' = Scheduled
      BY <1>3 DEF RunReadReleases, ReadFails, Keeps, screen, poll, asking, bounds, Scheduled
    <2>2. Reading'
      <3>1. PICK c \in running :
              \/ Answers(c, {IF c.what = "check" /\ world = c.saw THEN Cmd("same", Nobody) ELSE Saw("releases", world)})
              \/ Answers(c, {Cmd("no-releases", Nobody)})
        BY <1>3 DEF RunReadReleases, ReadFails
      <3> DEFINE a == IF c.what = "check" /\ world = c.saw THEN Cmd("same", Nobody) ELSE Saw("releases", world)
                 b == Cmd("no-releases", Nobody)
      <3>2. a.what \in ReadWords /\ b.what \in ReadWords
        BY DEF Cmd, Saw, ReadWords
      <3>3. mail' = mail \cup {a} \/ mail' = mail \cup {b}
        BY <3>1 DEF Answers
      <3> HIDE DEF a, b
      <3> QED
        BY <3>2, <3>3 DEF Reading
    <2> QED
      BY <2>1, <2>2, KeepsPolls
  <1>4. CASE PollRetry
    <2>1. place = "on" /\ ArmsIn(form) /\ UNCHANGED <<view, place, events>>
      BY <1>4 DEF PollRetry, Hears, screen, bounds
    <2> QED
      BY <2>1, ArmsPolls DEF Asking, Scheduled
  <1>5. CASE ReleasesLoaded
    <2>1. UNCHANGED <<view, place, events>>
      BY <1>5 DEF ReleasesLoaded, screen, bounds
    <2>2. PICK f : place = "on" /\ IsForm(f) /\ ArmsIn(f) /\ f.busy = form.busy \ {"first"}
      BY <1>5, ReleasesLoadedIs
    <2> QED
      BY <2>1, <2>2, ArmsPolls DEF Scheduled
  <1>6. CASE ReleasesNotLoaded
    <2>1. place = "on" /\ UNCHANGED <<view, place, events>>
      BY <1>6 DEF ReleasesNotLoaded, Hears, screen, bounds
    <2>2. PICK f : IsForm(f) /\ ArmsIn(f) /\ f.busy = form.busy \ {"first"}
      BY <1>6, ReleasesNotLoadedIs
    <2> QED
      BY <2>1, <2>2, ArmsPolls DEF Scheduled
  <1>7. CASE OpenCharts \/ ReturnToCharts
    BY <1>7, EnterPolls, ReEnterPolls DEF OpenCharts, ReturnToCharts, EnterEmpty
  <1>8. CASE ChartsAnswered
    <2>1. Keeps /\ form' = form
      BY <1>8 DEF ChartsAnswered, Keeps, screen, poll, bounds
    <2>2. \E m \in mail : HearsAnswer(m) /\ Heard(m)
      BY <1>8 DEF ChartsAnswered
    <2> QED
      BY <2>1, <2>2, AnswerIsNoReading, KeepsPolls DEF Scheduled
  <1> QED
    BY <1>1, <1>2, <1>3, <1>4, <1>5, <1>6, <1>7, <1>8 DEF ChartsProgram

LEMMA TicksPoll ==
  ASSUME PollInv, Ticks, ~ChartsTick
  PROVE  PollInv'
  BY TickPolls DEF Ticks, StacksTick, ServicesTick, NodesTick, TasksTick, VolumesTick, NetworksTick,
    ConfigsTick, SecretsTick, ContextsTick

LEMMA OthersPoll ==
  ASSUME PollInv, view # "charts", Keeps \/ Enter \/ ReEnter
  PROVE  PollInv'
  BY KeepsPolls, EnterPolls, ReEnterPolls

LEMMA RestPolls ==
  ASSUME PollInv, \/ Leave(view \in {"stacks", "services", "nodes"})
                  \/ Change \/ Refresh \/ \E m \in mail : Dropped(m)
  PROVE  PollInv'
  <1>1. CASE Leave(view \in {"stacks", "services", "nodes"})
    BY <1>1, LeavePolls
  <1>2. CASE Change \/ Refresh
    <2>1. Keeps /\ Reading' = Reading /\ Scheduled' = Scheduled
      BY <1>2 DEF Change, Refresh, Keeps, Reading, Scheduled, screen, poll, out, asking, bounds
    <2> QED
      BY <2>1, KeepsPolls
  <1>3. CASE \E m \in mail : Dropped(m)
    <2>1. Keeps /\ UNCHANGED <<view, place, gen, ticks, events, form>>
      BY <1>3 DEF Dropped, Keeps, screen, poll, asking, bounds
    <2>2. place # "on" \/ (Reading => Reading')
      BY <1>3, AnswerIsNoReading DEF Dropped
    <2> QED
      BY <2>1, <2>2 DEF PollInv, Scheduled
  <1> QED
    BY <1>1, <1>2, <1>3

LEMMA NextPolls ==
  ASSUME Listing, Asking, Calls, PollInv, Next
  PROVE  PollInv'
  <1>1. CASE view = "charts" /\ (ChartsOperator \/ ChartsTick \/ ChartsProgram)
    BY <1>1, ChartsPolls
  <1>2. CASE Ticks /\ ~ChartsTick
    BY <1>2, TicksPoll
  <1>3. CASE view # "charts" /\ (Keeps \/ Enter \/ ReEnter)
    BY <1>3, OthersPoll
  <1>4. CASE \/ Leave(view \in {"stacks", "services", "nodes"})
             \/ Change \/ Refresh \/ \E m \in mail : Dropped(m)
    BY <1>4, RestPolls
  <1>5. ChartsTick => view = "charts"
    BY DEF ChartsTick
  <1> QED
    BY <1>1, <1>2, <1>3, <1>4, <1>5, StacksKeep, ServicesKeep, NodesKeep, TasksKeep, VolumesKeep,
       NetworksKeep, ConfigsKeep, SecretsKeep, ContextsKeep DEF Next, Ticks

-----------------------------------------------------------------------------
(***************************************************************************)
(* The list of each view                                                   *)
(***************************************************************************)

\* What every step leaves of the list: rows that are names, a cursor that is where it was, at
\* an end or on a row, and no more rows than there were or than there are names.
Shrinks == \A k \in Nat : Within(k) /\ Cardinality(Names) <= k => Within(k)'

Kept == Listing' /\ cursor' \in {0, 1, cursor} \cup DOMAIN entries \cup DOMAIN entries' /\ Shrinks

LEMMA KeptIs ==
  ASSUME Listing, Kept
  PROVE  /\ Listing' /\ (cursor \in Nat => cursor' \in Nat) /\ Shrinks
         /\ entries' \in Seq(Names) /\ (OnARow' => cursor' \in {1} \cup DOMAIN entries')
  <1>1. Listing' /\ entries' \in Seq(Names)
    BY DEF Kept, Listing
  <1>2. DOMAIN entries \subseteq Nat /\ DOMAIN entries' \subseteq Nat
    BY <1>1 DEF Listing
  <1> QED
    BY <1>1, <1>2 DEF Kept, OnARow

LEMMA RowKeeps ==
  ASSUME Listing', OnARow', Shrinks
  PROVE  Kept
  BY DEF Kept, OnARow

LEMMA SameKeeps ==
  ASSUME Listing, UNCHANGED list
  PROVE  Kept /\ (OnARow => OnARow') /\ (AsTold => AsTold')
  <1>1. Listing' /\ cursor' = cursor /\ (OnARow => OnARow') /\ (AsTold => AsTold')
    BY DEF list, Listing, OnARow, AsTold
  <1>2. Shrinks
    BY DEF list, Shrinks, Within
  <1> QED
    BY <1>1, <1>2 DEF Kept

LEMMA FreshKeeps ==
  ASSUME Listing, entries' = <<>>, items' = <<>>, cursor' = 1, ascending' = TRUE, query' = Names, seen' = Unhashed
  PROVE  Kept /\ OnARow' /\ AsTold'
  <1>1. Listing'
    BY DEF Listing, Seens
  <1>2. Shrinks
    BY DEF Shrinks, Within
  <1> QED
    BY <1>1, <1>2 DEF Kept, OnARow, AsTold, Ordered

LEMMA MoveKeeps ==
  ASSUME Listing, MoveCursor
  PROVE  Kept /\ OnARow' /\ (AsTold => AsTold')
  <1>1. Listing' /\ OnARow' /\ entries' = entries /\ items' = items /\ ascending' = ascending
    BY MoveIs
  <1>2. Shrinks
    BY <1>1 DEF Shrinks, Within
  <1> QED
    BY <1>1, <1>2, RowKeeps DEF AsTold

LEMMA PageDownKeeps ==
  ASSUME Listing, PageDown
  PROVE  Kept /\ (AsTold => AsTold')
  <1>1. Listing' /\ cursor' = 0 /\ UNCHANGED <<entries, ascending, items>>
    BY DEF PageDown, Listing
  <1>2. Shrinks
    BY <1>1 DEF Shrinks, Within
  <1> QED
    BY <1>1, <1>2 DEF Kept, AsTold

LEMMA ToggleKeeps ==
  ASSUME Listing, cursor \in Nat, ToggleSort
  PROVE  Kept /\ (OnARow => OnARow') /\ AsTold'
  <1>1. /\ Listing' /\ AsTold' /\ (OnARow => OnARow')
        /\ Len(entries') = Len(entries) /\ Len(items') \in {Len(items), Len(entries)}
    BY ToggleIs
  <1>2. entries' \in Seq(Names) /\ (cursor' = cursor \/ cursor' = RowOf(Selected, entries'))
    BY <1>1 DEF ToggleSort, Listing
  <1>3. cursor' \in {1, cursor} \cup DOMAIN entries'
    BY <1>2, RowOfIs
  <1>4. Len(entries) \in Nat /\ Len(items) \in Nat
    BY DEF Listing
  <1>5. Shrinks
    BY <1>1, <1>4 DEF Shrinks, Within
  <1> QED
    BY <1>1, <1>3, <1>5 DEF Kept

LEMMA SearchKeeps ==
  ASSUME Listing, NEW sorts \in BOOLEAN, Search(sorts)
  PROVE  Kept /\ OnARow' /\ (sorts => AsTold')
  <1>1. /\ Listing' /\ OnARow' /\ (sorts => AsTold')
        /\ Len(entries') <= Len(items) /\ Len(items') <= Len(items)
    BY SearchIs
  <1>2. Len(items) \in Nat /\ Len(entries') \in Nat /\ Len(items') \in Nat
    BY <1>1 DEF Listing
  <1>3. Shrinks
    BY <1>1, <1>2 DEF Shrinks, Within
  <1> QED
    BY <1>1, <1>3, RowKeeps

LEMMA MovesKeep ==
  ASSUME Listing, cursor \in Nat, Moves
  PROVE  Kept /\ (OnARow => OnARow')
  BY MoveKeeps, ToggleKeeps, SearchKeeps DEF Moves

\* A load leaves the list told in order, and of no more rows than there are names.
LEMMA ShowsKeeps ==
  ASSUME Listing, NEW w \in Seens, Shows(w)
  PROVE  /\ Listing' /\ AsTold' /\ Shrinks /\ entries' \in Seq(Names) /\ Range(items') = Holds(w)
  <1>1. Listing' /\ AsTold' /\ Range(items)' = Holds(w) /\ Within(Cardinality(Names))'
    BY ShowsIs
  <1>2. Len(entries') \in Nat /\ Len(items') \in Nat /\ entries' \in Seq(Names)
    BY <1>1 DEF Listing
  <1>3. Shrinks
    BY <1>1, <1>2, FiniteNames DEF Shrinks, Within
  <1> QED
    BY <1>1, <1>2, <1>3

\* A list that opens on the snapshot.
LEMMA OpensOn ==
  ASSUME Listing, snapshot \in Worlds, entries' = Sorted(Holds(snapshot), TRUE), items' = entries',
         ascending' = TRUE, query' = Names, seen' = snapshot
  PROVE  Listing' /\ AsTold' /\ Shrinks /\ entries' \in Seq(Names)
  <1> DEFINE t == Sorted(Holds(snapshot), TRUE)
  <1>1. Holds(snapshot) \subseteq Names
    BY DEF Holds
  <1>2. t \in Seq(Names) /\ Ordered(t, TRUE) /\ Len(t) <= Cardinality(Names)
    BY <1>1, SortedNames
  <1>3. entries' = t /\ items' = t
    OBVIOUS
  <1> HIDE DEF t
  <1>4. Listing' /\ AsTold'
    BY <1>2, <1>3 DEF Listing, AsTold, Seens
  <1>5. Len(t) \in Nat
    BY <1>2
  <1>6. Shrinks
    <2> SUFFICES ASSUME NEW k \in Nat, Cardinality(Names) <= k PROVE Within(k)'
      BY DEF Shrinks
    <2>1. Len(t) <= k
      BY <1>2, <1>5, FiniteNames
    <2> QED
      BY <1>3, <2>1 DEF Within
  <1> QED
    BY <1>2, <1>3, <1>4, <1>6

LEMMA StacksList ==
  ASSUME Listing, cursor \in Nat, OnARow, Calls, snapshot \in Worlds,
         StacksOperator \/ StacksTick \/ StacksProgram
  PROVE  Kept /\ OnARow'
  <1>1. CASE OpenStacks
    <2>1. snapshot \in Worlds /\ Enter /\ entries' = Sorted(Holds(snapshot), TRUE) /\ items' = entries' /\ cursor' = 1 /\ seen' = snapshot
      BY <1>1 DEF OpenStacks
    <2> QED
      BY <2>1, OpensOn, RowKeeps DEF Enter, OnARow
  <1>2. CASE StacksLoaded
    <2>1. PICK m \in mail : m.saw \in Seens /\ Shows(m.saw) /\ KeepsRow
      BY <1>2 DEF StacksLoaded, Calls, IsCall
    <2> QED
      BY <2>1, ShowsKeeps, KeepsRowIs, RowKeeps
  <1>3. CASE StacksMove
    BY <1>3, MovesKeep DEF StacksMove
  <1>4. CASE StacksTick \/ DeleteStack \/ EditStack \/ SaveStack \/ NewStack \/ SaveDialogKey
              \/ CreateDialogKey \/ FileBrowserKey \/ RunLoadStacks \/ RunRemoveStack \/
              RunDeploy \/ RunStacksOther \/ StackDeleteIntent \/ Deployed \/ StackFailed \/
              Edited \/ SavedOrBrowsed \/ ReturnToStacks \/ StacksAnswer \/ StackAnswered
    <2>1. UNCHANGED list
      BY <1>4 DEF StacksTick, DeleteStack, EditStack, SaveStack, NewStack, StacksAnswer, StackAnswered, AnswerKey,
        SaveDialogKey, CreateDialogKey, FileBrowserKey, RunLoadStacks, RunRemoveStack,
        RunDeploy, RunStacksOther, StackDeleteIntent, Deployed, StackFailed, Edited,
        SavedOrBrowsed, ReturnToStacks, Tick
    <2> QED
      BY <2>1, SameKeeps
  <1> QED
    BY <1>1, <1>2, <1>3, <1>4 DEF StacksOperator, StacksProgram

LEMMA ServicesList ==
  ASSUME Listing, cursor \in Nat, OnARow, Calls, snapshot \in Worlds,
         ServicesOperator \/ ServicesTick \/ ServicesProgram
  PROVE  Kept /\ OnARow'
  <1>1. CASE OpenServices
    <2>1. Enter /\ entries' = Sorted(Holds(snapshot), TRUE) /\ items' = entries' /\ seen' = snapshot
          /\ cursor' = InBounds(Len(entries'), entries')
      BY <1>1 DEF OpenServices
    <2>2. Listing' /\ Shrinks /\ entries' \in Seq(Names)
      BY <2>1, OpensOn DEF Enter
    <2>3. Len(entries') \in Int
      BY <2>2, SeqIs
    <2>4. cursor' \in DOMAIN entries' \cup {1}
      BY <2>1, <2>2, <2>3, InBoundsIs
    <2> QED
      BY <2>2, <2>4, RowKeeps DEF OnARow
  <1>2. CASE ServicesLoaded
    <2>1. PICK m \in mail : m.saw \in Seens /\ (UNCHANGED list \/ (Shows(m.saw) /\ KeepsLoadedRow(m.saw)))
      BY <1>2 DEF ServicesLoaded, Calls, IsCall
    <2> QED
      BY <2>1, SameKeeps, ShowsKeeps, KeepsLoadedRowIs, RowKeeps
  <1>3. CASE ServicesMove
    BY <1>3, MovesKeep DEF ServicesMove
  <1>4. CASE ServicesTick \/ AskService \/ RunCheckServices \/ RunServiceOp \/ ServiceFailed \/
              ToStacks \/ ReturnToServices \/ ServicesAnswer \/ ScaleAnswer \/
              ServiceAnswered \/ ScaleAnswered
    <2>1. UNCHANGED list
      BY <1>4 DEF ServicesTick, AskService, ServicesAnswer, ServiceAnswered, ScaleAnswered, AnswerKey, ScaleAnswer, RunCheckServices,
        RunServiceOp, ServiceFailed, ToStacks, ReturnToServices, Tick
    <2> QED
      BY <2>1, SameKeeps
  <1> QED
    BY <1>1, <1>2, <1>3, <1>4 DEF ServicesOperator, ServicesProgram

LEMMA NodesList ==
  ASSUME Listing, cursor \in Nat, OnARow, Calls,
         NodesOperator \/ NodesTick \/ NodesProgram
  PROVE  Kept /\ OnARow'
  <1>1. CASE OpenNodes
    BY <1>1, FreshKeeps DEF OpenNodes, EnterEmpty, Enter
  <1>2. CASE NodesLoaded
    <2>1. PICK m \in mail :
            /\ m.saw \in Seens /\ Shows(m.saw)
            /\ (cursor <= Len(entries') /\ UNCHANGED cursor) \/ KeepsLoadedRow(m.saw)
      BY <1>2 DEF NodesLoaded, Calls, IsCall
    <2>2. Listing' /\ Shrinks /\ entries' \in Seq(Names)
      BY <2>1, ShowsKeeps
    <2>3. CASE cursor <= Len(entries') /\ UNCHANGED cursor
      <3>1. cursor \in Nat /\ 1 <= cursor
        BY DEF OnARow, Listing
      <3>2. cursor' \in DOMAIN entries'
        BY <2>2, <2>3, <3>1, SeqIs
      <3> QED
        BY <2>2, <3>2, RowKeeps DEF OnARow
    <2> QED
      BY <2>1, <2>2, <2>3, KeepsLoadedRowIs, RowKeeps
  <1>3. CASE NodesMove
    BY <1>3, MovesKeep DEF NodesMove
  <1>4. CASE NodesTick \/ ChangeRole \/ AskNode \/ AvailabilityKey \/ LabelKey \/ UnlabelKey \/
              RunLoadNodes \/ RunNodeOp \/ NodeDone \/ NodeFailed \/ ReturnToNodes \/ NodesAnswer \/ NodeAnswered
    <2>1. UNCHANGED list
      BY <1>4 DEF NodesTick, ChangeRole, AskNode, NodesAnswer, NodeAnswered, AnswerKey, AvailabilityKey, LabelKey,
        UnlabelKey, RunLoadNodes, RunNodeOp, NodeDone, NodeFailed, ReturnToNodes, Tick
    <2> QED
      BY <2>1, SameKeeps
  <1> QED
    BY <1>1, <1>2, <1>3, <1>4 DEF NodesOperator, NodesProgram

LEMMA TasksList ==
  ASSUME Listing, cursor \in Nat, Calls,
         SortTasks \/ TasksTick \/ TasksProgram
  PROVE  Kept
  <1>1. CASE OpenTasks
    BY <1>1, FreshKeeps DEF OpenTasks, EnterEmpty, Enter
  <1>2. CASE TasksLoaded
    <2>1. PICK m \in mail : m.saw \in Seens /\ Shows(m.saw) /\ UNCHANGED cursor
      BY <1>2 DEF TasksLoaded, Calls, IsCall
    <2> QED
      BY <2>1, ShowsKeeps DEF Kept
  <1>3. CASE SortTasks
    BY <1>3, ToggleKeeps DEF SortTasks
  <1>4. CASE TasksTick \/ RunLoadTasks \/ TasksNotLoaded \/ ReturnToTasks
    <2>1. UNCHANGED list
      BY <1>4 DEF TasksTick, RunLoadTasks, TasksNotLoaded, ReturnToTasks, Tick
    <2> QED
      BY <2>1, SameKeeps
  <1> QED
    BY <1>1, <1>2, <1>3, <1>4 DEF TasksProgram

LEMMA VolumesList ==
  ASSUME Listing, cursor \in Nat, AsTold, Calls,
         VolumesOperator \/ VolumesTick \/ VolumesProgram
  PROVE  Kept /\ AsTold'
  <1>1. CASE OpenVolumes
    BY <1>1, FreshKeeps DEF OpenVolumes, EnterEmpty, Enter
  <1>2. CASE ReturnToVolumes
    <2>1. cursor' = 1 /\ UNCHANGED <<entries, ascending, items, query, seen>>
      BY <1>2 DEF ReturnToVolumes
    <2>2. Listing' /\ OnARow' /\ Shrinks /\ AsTold'
      BY <2>1 DEF Listing, OnARow, Shrinks, Within, AsTold
    <2> QED
      BY <2>2, RowKeeps
  <1>3. CASE VolumesLoaded
    <2>1. \/ UNCHANGED list
          \/ \E m \in mail :
               /\ m.saw \in Seens /\ Shows(m.saw)
               /\ \/ cursor' = 1
                  \/ cursor' = RowOf(Selected, entries')
                  \/ cursor' = InBounds(cursor, entries')
      BY <1>3 DEF VolumesLoaded, Calls, IsCall
    <2>2. CASE ~UNCHANGED list
      <3>1. Listing' /\ AsTold' /\ Shrinks /\ entries' \in Seq(Names)
        BY <2>1, <2>2, ShowsKeeps
      <3>2. cursor' \in {1} \cup DOMAIN entries'
        BY <2>1, <2>2, <3>1, RowOfIs, InBoundsIs
      <3> QED
        BY <3>1, <3>2, RowKeeps DEF OnARow
    <2> QED
      BY <2>2, SameKeeps
  <1>4. CASE VolumesMove
    BY <1>4, MoveKeeps, ToggleKeeps, SearchKeeps, PageDownKeeps DEF VolumesMove
  <1>5. CASE VolumesTick \/ DismissVolumesError \/ VolumeAction \/ RunLoadVolumes \/
              VolumesNotLoaded
    <2>1. UNCHANGED list
      BY <1>5 DEF VolumesTick, DismissVolumesError, VolumeAction, RunLoadVolumes,
        VolumesNotLoaded, Tick
    <2> QED
      BY <2>1, SameKeeps
  <1> QED
    BY <1>1, <1>2, <1>3, <1>4, <1>5 DEF VolumesOperator, VolumesProgram

LEMMA NetworksList ==
  ASSUME Listing, cursor \in Nat, Calls,
         NetworksOperator \/ NetworksTick \/ NetworksProgram
  PROVE  Kept
  <1>1. CASE OpenNetworks
    BY <1>1, FreshKeeps DEF OpenNetworks, EnterEmpty, Enter
  <1>2. CASE ReturnToNetworks
    <2>1. cursor' = 1 /\ UNCHANGED <<entries, ascending, items, query, seen>>
      BY <1>2 DEF ReturnToNetworks
    <2>2. Listing' /\ OnARow' /\ Shrinks
      BY <2>1 DEF Listing, OnARow, Shrinks, Within
    <2> QED
      BY <2>2, RowKeeps
  <1>3. CASE NetworksLoaded
    <2>1. \/ UNCHANGED list
          \/ \E m \in mail :
               /\ m.saw \in Seens /\ Shows(m.saw)
               /\ \/ cursor' = 1
                  \/ cursor' = RowOf(Selected, entries')
                  \/ cursor' = InBounds(cursor, entries')
      BY <1>3 DEF NetworksLoaded, Calls, IsCall
    <2>2. CASE ~UNCHANGED list
      <3>1. Listing' /\ AsTold' /\ Shrinks /\ entries' \in Seq(Names)
        BY <2>1, <2>2, ShowsKeeps
      <3>2. cursor' \in {1} \cup DOMAIN entries'
        BY <2>1, <2>2, <3>1, RowOfIs, InBoundsIs
      <3> QED
        BY <3>1, <3>2, RowKeeps DEF OnARow
    <2> QED
      BY <2>2, SameKeeps
  <1>4. CASE UsageKnown
    <2> DEFINE t == InOrder(entries, ascending)
    <2>1. /\ entries' = t /\ items' = (IF query = Names THEN t ELSE items)
          /\ cursor' = (IF Selected # Nobody THEN RowOf(Selected, t) ELSE InBounds(cursor, t))
          /\ UNCHANGED <<ascending, query, seen>>
      BY <1>4 DEF UsageKnown
    <2>2. t \in Seq(Names) /\ Len(t) = Len(entries) /\ Range(t) = Range(entries)
      BY InOrderIs DEF Listing
    <2> HIDE DEF t
    <2>3. Listing'
      BY <2>1, <2>2 DEF Listing
    <2>4. OnARow'
      BY <2>1, <2>2, RowOfIs, InBoundsIs DEF OnARow
    <2>5. Len(entries) \in Nat /\ Len(items) \in Nat
      BY DEF Listing
    <2>6. Shrinks
      BY <2>1, <2>2, <2>5 DEF Shrinks, Within
    <2> QED
      BY <2>3, <2>4, <2>6, RowKeeps
  <1>5. CASE NetworksMove
    BY <1>5, MovesKeep, PageDownKeeps DEF NetworksMove
  <1>6. CASE NetworksTick \/ AskNetwork \/ NewNetwork \/ CreateNetworkKey \/ UsedByNetwork \/
              UsedByKey \/ DismissNetworksError \/ RunLoadNetworks \/ RunNetworkOp \/
              RunNetworkUsage \/ NetworksNotLoaded \/ NetworkDone \/ NetworkFailed \/
              UsedByLoaded \/ \E yes \in BOOLEAN : NetworksAnswer(yes)
    <2>1. UNCHANGED list
      BY <1>6 DEF NetworksTick, AskNetwork, NewNetwork, CreateNetworkKey, UsedByNetwork,
        UsedByKey, DismissNetworksError, NetworksAnswer, RunLoadNetworks, RunNetworkOp,
        RunNetworkUsage, NetworksNotLoaded, NetworkDone, NetworkFailed, UsedByLoaded, Tick
    <2> QED
      BY <2>1, SameKeeps
  <1> QED
    BY <1>1, <1>2, <1>3, <1>4, <1>5, <1>6 DEF NetworksOperator, NetworksProgram

LEMMA ConfigsList ==
  ASSUME Listing, cursor \in Nat, OnARow, Calls,
         ConfigsOperator \/ ConfigsTick \/ ConfigsProgram, ~ConfigEdited
  PROVE  Kept /\ OnARow'
  <1>1. CASE OpenConfigs
    BY <1>1, FreshKeeps DEF OpenConfigs, EnterEmpty, Enter
  <1>2. CASE ConfigsLoaded
    <2>1. PICK m \in mail : m.saw \in Seens /\ Shows(m.saw) /\ KeepsLoadedRow(m.saw)
      BY <1>2 DEF ConfigsLoaded, Calls, IsCall
    <2> QED
      BY <2>1, ShowsKeeps, KeepsLoadedRowIs, RowKeeps
  <1>3. CASE ConfigsMove
    BY <1>3, MovesKeep DEF ConfigsMove
  <1>4. CASE ConfigsTick \/ AskDeleteConfig \/ EditConfig \/ UsedByConfig \/ NewConfig \/
              CreateConfigKey \/ BrowseConfigKey \/ DismissConfigs \/ RunLoadConfigs \/
              RunConfigOp \/ RunConfigsOther \/ ConfigDone \/ ConfigFailed \/ ConfigsOtherDone
              \/ ReturnToConfigs \/ ConfigsAnswer \/ ConfigAnswered
    <2>1. UNCHANGED list
      BY <1>4 DEF ConfigsTick, AskDeleteConfig, EditConfig, UsedByConfig, NewConfig,
        CreateConfigKey, BrowseConfigKey, DismissConfigs, ConfigsAnswer, ConfigAnswered, AnswerKey, RunLoadConfigs,
        RunConfigOp, RunConfigsOther, ConfigDone, ConfigFailed, ConfigsOtherDone,
        ReturnToConfigs, Tick
    <2> QED
      BY <2>1, SameKeeps
  <1> QED
    BY <1>1, <1>2, <1>3, <1>4 DEF ConfigsOperator, ConfigsProgram

LEMMA SecretsList ==
  ASSUME Listing, cursor \in Nat, OnARow, Calls,
         SecretsOperator \/ SecretsTick \/ SecretsProgram, ~SecretCreated
  PROVE  Kept /\ OnARow'
  <1>1. CASE OpenSecrets
    BY <1>1, FreshKeeps DEF OpenSecrets, EnterEmpty, Enter
  <1>2. CASE SecretsLoaded
    <2>1. PICK m \in mail : m.saw \in Seens /\ Shows(m.saw) /\ KeepsLoadedRow(m.saw)
      BY <1>2 DEF SecretsLoaded, Calls, IsCall
    <2> QED
      BY <2>1, ShowsKeeps, KeepsLoadedRowIs, RowKeeps
  <1>3. CASE SecretsMove
    BY <1>3, MovesKeep DEF SecretsMove
  <1>4. CASE SecretsTick \/ AskDeleteSecret \/ UsedBySecret \/ RevealSecret \/ NewSecret \/
              CreateSecretKey \/ BrowseSecretKey \/ DismissSecrets \/ RunLoadSecrets \/
              RunSecretOp \/ RunSecretsOther \/ SecretDeleted \/ SecretFailed \/
              SecretsOtherDone \/ ReturnToSecrets \/ SecretsAnswer \/ SecretAnswered
    <2>1. UNCHANGED list
      BY <1>4 DEF SecretsTick, AskDeleteSecret, UsedBySecret, RevealSecret, NewSecret,
        CreateSecretKey, BrowseSecretKey, DismissSecrets, SecretsAnswer, SecretAnswered, AnswerKey, RunLoadSecrets,
        RunSecretOp, RunSecretsOther, SecretDeleted, SecretFailed, SecretsOtherDone,
        ReturnToSecrets, Tick
    <2> QED
      BY <2>1, SameKeeps
  <1> QED
    BY <1>1, <1>2, <1>3, <1>4 DEF SecretsOperator, SecretsProgram

LEMMA ContextsList ==
  ASSUME Listing, cursor \in Nat, Calls,
         ContextsOperator \/ ContextsTick \/ ContextsProgram
  PROVE  Kept
  <1>1. CASE OpenContexts
    BY <1>1, FreshKeeps DEF OpenContexts, EnterEmpty, Enter
  <1>2. CASE ContextsLoaded
    <2>1. PICK m \in mail : m.saw \in Seens /\ (UNCHANGED list \/ (Shows(m.saw) /\ cursor' = RowOf(Selected, entries')))
      BY <1>2 DEF ContextsLoaded, Calls, IsCall
    <2>2. CASE Shows(m.saw) /\ cursor' = RowOf(Selected, entries')
      <3>1. Listing' /\ Shrinks /\ entries' \in Seq(Names)
        BY <2>1, <2>2, ShowsKeeps
      <3>2. OnARow'
        BY <2>2, <3>1, RowOfIs DEF OnARow
      <3> QED
        BY <3>1, <3>2, RowKeeps
    <2> QED
      BY <2>1, <2>2, SameKeeps
  <1>3. CASE ContextsMove
    <2>1. CASE ToggleSort \/ Search(FALSE)
      BY <2>1, ToggleKeeps, SearchKeeps
    <2>2. CASE (\E i \in DOMAIN entries : cursor' = i) /\ entries' = Filtered(query, items)
               /\ UNCHANGED <<ascending, items, query, seen>>
      <3> DEFINE t == Filtered(query, items)
      <3>1. t \in Seq(Names) /\ Len(t) <= Len(items) /\ Range(t) = Range(items) \cap query
        BY FilteredIs DEF Listing
      <3>2. entries' = t
        BY <2>2
      <3> HIDE DEF t
      <3>3. Range(items) \subseteq Names
        BY DEF Listing, Range
      <3>4. Listing'
        BY <2>2, <3>1, <3>2, <3>3 DEF Listing
      <3>5. Len(t) \in Nat /\ Len(items) \in Nat
        BY <3>1 DEF Listing
      <3>6. Shrinks
        BY <2>2, <3>1, <3>2, <3>5 DEF Shrinks, Within
      <3> QED
        BY <2>2, <3>4, <3>6 DEF Kept
    <2> QED
      BY <1>3, <2>1, <2>2 DEF ContextsMove
  <1>4. CASE ClearContextsFilter
    BY <1>4, SearchKeeps DEF ClearContextsFilter
  <1>5. CASE ContextsTick \/ SwitchContext \/ DeleteOrExport \/ OpenContextForm \/
              CreateContextKey \/ EditContextKey \/ CertKey \/ BrowseContextKey \/
              DismissContextsError \/ RunLoadContexts \/ RunContextOp \/ RunContextFiles \/
              ContextDone \/ ContextFailed \/ ExportExists \/ ContextFilesLoaded \/ GoElsewhere
              \/ ReturnToContexts \/ ContextsAnswer \/ ContextAnswered
    <2>1. UNCHANGED list
      BY <1>5 DEF ContextsTick, SwitchContext, DeleteOrExport, OpenContextForm,
        CreateContextKey, EditContextKey, CertKey, BrowseContextKey, DismissContextsError,
        ContextsAnswer, ContextAnswered, AnswerKey, RunLoadContexts, RunContextOp, RunContextFiles, ContextDone,
        ContextFailed, ExportExists, ContextFilesLoaded, GoElsewhere, ReturnToContexts, Tick
    <2> QED
      BY <2>1, SameKeeps
  <1> QED
    BY <1>1, <1>2, <1>3, <1>4, <1>5 DEF ContextsOperator, ContextsProgram

LEMMA ChartsList ==
  ASSUME Listing, cursor \in Nat, OnARow, AsTold, Calls, Asking,
         ChartsOperator \/ ChartsTick \/ ChartsProgram
  PROVE  Kept /\ OnARow' /\ AsTold'
  <1>1. CASE OpenCharts
    BY <1>1, FreshKeeps DEF OpenCharts, EnterEmpty, Enter
  <1>2. CASE ReturnToCharts
    <2>1. cursor' \in {1, cursor} /\ UNCHANGED <<entries, ascending, items, query, seen>>
      BY <1>2 DEF ReturnToCharts
    <2>2. Listing' /\ OnARow' /\ Shrinks /\ AsTold'
      BY <2>1 DEF Listing, OnARow, Shrinks, Within, AsTold
    <2> QED
      BY <2>2, RowKeeps
  <1>3. CASE ReleasesLoaded
    <2>1. PICK m \in mail :
            /\ m.saw \in Seens /\ Shows(m.saw)
            /\ (\E n : cursor' = RowOf(n, entries')) \/ cursor' = 1 \/ cursor' = InBounds(cursor, entries')
      BY <1>3, ReleasesLoadedIs
    <2>2. Listing' /\ AsTold' /\ Shrinks /\ entries' \in Seq(Names)
      BY <2>1, ShowsKeeps
    <2>3. OnARow'
      BY <2>1, <2>2, RowOfIs, InBoundsIs DEF OnARow
    <2> QED
      BY <2>2, <2>3, RowKeeps
  <1>4. CASE ChartsMove
    BY <1>4, MoveKeeps, ToggleKeeps, SearchKeeps DEF ChartsMove
  <1>5. CASE StepRow
    <2>1. CASE UNCHANGED list
      BY <2>1, SameKeeps
    <2>2. CASE cursor > 1 /\ cursor' = cursor - 1 /\ UNCHANGED <<entries, ascending, items, query, seen>>
      <3>1. cursor \in DOMAIN entries /\ entries \in Seq(Names)
        BY <2>2 DEF OnARow, Listing
      <3>2. cursor' \in DOMAIN entries
        BY <2>2, <3>1, SeqIs
      <3>3. Listing' /\ OnARow' /\ Shrinks /\ AsTold'
        BY <2>2, <3>2 DEF Listing, OnARow, Shrinks, Within, AsTold
      <3> QED
        BY <3>3, RowKeeps
    <2> QED
      BY <1>5, <2>1, <2>2 DEF StepRow
  <1>6. CASE ChartsTick \/ ExpandRow \/ BlockedAction \/ DismissCharts \/ ChartsAnswer \/ ChartsAnswered \/ RunReadReleases \/
              PollRetry \/ ReleasesNotLoaded
    <2>1. UNCHANGED list
      BY <1>6 DEF ChartsTick, ExpandRow, BlockedAction, DismissCharts, ChartsAnswer, ChartsAnswered, AnswerKey, RunReadReleases,
        PollRetry, ReleasesNotLoaded
    <2> QED
      BY <2>1, SameKeeps
  <1> QED
    BY <1>1, <1>2, <1>3, <1>4, <1>5, <1>6 DEF ChartsOperator, ChartsProgram

-----------------------------------------------------------------------------
(***************************************************************************)
(* The rows of the charts view that are expanded                           *)
(***************************************************************************)
ChildInv == (OnChild => Expanded) /\ form.rows \subseteq Listed

LEMMA ChartsChild ==
  ASSUME Listing, cursor \in Nat, Asking, Calls, ChildInv, ChartsOperator \/ ChartsTick \/ ChartsProgram
  PROVE  ChildInv'
  <1> USE DEF ChildInv
  <1>1. CASE ChartsMove
    <2>1. ASSUME MoveCursor, form' = [form EXCEPT !.for = "none"] PROVE ChildInv'
      BY <2>1 DEF MoveCursor, OnChild, Listed, Asking, IsForm
    <2>2. ASSUME ToggleSort, KeepsChild(cursor', entries') PROVE ChildInv'
      <3>1. Range(items') = Range(items)
        BY <2>2, ToggleIs
      <3>2. form'.rows = form.rows /\ (form'.for = "child" => At(cursor', entries') \in form.rows)
        BY <2>2 DEF KeepsChild, With, Asking, IsForm
      <3> QED
        BY <3>1, <3>2 DEF OnChild, Expanded, Listed, Selected
    <2>3. ASSUME Search(TRUE), form' = [form EXCEPT !.for = "none"] PROVE ChildInv'
      <3>1. Range(items') = Range(items)
        BY <2>3, SearchIs
      <3> QED
        BY <2>3, <3>1 DEF OnChild, Listed, Asking, IsForm
    <2> QED
      BY <1>1, <2>1, <2>2, <2>3 DEF ChartsMove, With
  <1>2. CASE StepRow
    <2>1. items' = items /\ ascending' = ascending
      BY <1>2 DEF StepRow, list
    <2>2. ASSUME UNCHANGED list, Expanded, form' = [form EXCEPT !.for = "child"] PROVE ChildInv'
      BY <2>2 DEF list, OnChild, Expanded, Selected, Listed, Asking, IsForm
    <2>3. ASSUME form' = [form EXCEPT !.for = "none"] PROVE ChildInv'
      BY <2>1, <2>3 DEF OnChild, Listed, Asking, IsForm
    <2>4. ASSUME form' = [form EXCEPT !.for = IF At(cursor', entries) \in form.rows THEN "child" ELSE "none"],
                 entries' = entries
          PROVE  ChildInv'
      <3>1. form'.rows = form.rows /\ (form'.for = "child" => At(cursor', entries) \in form.rows)
        BY <2>4 DEF Asking, IsForm
      <3> QED
        BY <2>1, <2>4, <3>1 DEF OnChild, Expanded, Selected, Listed
    <2> QED
      BY <1>2, <2>2, <2>3, <2>4 DEF StepRow, With
  <1>3. CASE ExpandRow
    <2>1. UNCHANGED list
      BY <1>3 DEF ExpandRow
    <2>2. ASSUME form' = [form EXCEPT !.for = "none"] PROVE ChildInv'
      BY <2>1, <2>2 DEF OnChild, Listed, Asking, IsForm, list
    <2>3. ASSUME ~OnChild, form' = [form EXCEPT !.rows = (@ \ {Selected}) \cup ({Selected} \ @)], Selected # Nobody
          PROVE  ChildInv'
      <3>1. Selected \in Listed
        BY <2>3, AtIs DEF Selected, Listing, Listed
      <3> HIDE DEF Selected
      <3>2. form'.rows \subseteq form.rows \cup {Selected} /\ form'.for = form.for
        BY <2>3 DEF Asking, IsForm
      <3> QED
        BY <2>1, <2>3, <3>1, <3>2 DEF OnChild, Listed, list
    <2> QED
      BY <1>3, <2>2, <2>3 DEF ExpandRow, With
  <1>4. CASE BlockedAction \/ DismissCharts \/ ChartsAnswer \/ ChartsAnswered \/ RunReadReleases \/ ChartsTick
    <2>1. UNCHANGED list /\ form'.rows = form.rows /\ form'.for = form.for
      BY <1>4 DEF BlockedAction, DismissCharts, ChartsAnswer, ChartsAnswered, AnswerKey, RunReadReleases, ChartsTick, asking, Shuts, With, Shut, Idle, Asking, IsForm
    <2> QED
      BY <2>1 DEF OnChild, Expanded, Selected, Listed, list
  <1>5. CASE PollRetry \/ ReleasesNotLoaded
    <2>1. UNCHANGED list
      BY <1>5 DEF PollRetry, ReleasesNotLoaded
    <2>2. form'.rows = form.rows /\ form'.for = form.for
      BY <1>5, ReleasesNotLoadedIs, ArmsIs DEF PollRetry, Asking
    <2> QED
      BY <2>1, <2>2 DEF OnChild, Expanded, Selected, Listed, list
  <1>6. CASE ReleasesLoaded
    <2>1. PICK m, f :
            /\ m \in mail
            /\ Shows(m.saw) /\ m.saw \in Seens /\ IsForm(f) /\ ArmsIn(f) /\ f.rows \subseteq Holds(m.saw)
            /\ f.for = "child" => At(cursor', entries') \in f.rows
      BY <1>6, ReleasesLoadedIs
    <2>2. form'.rows = f.rows /\ form'.for = f.for
      BY <2>1, ArmsIs
    <2>3. Range(items') = Holds(m.saw)
      BY <2>1, ShowsKeeps
    <2> QED
      BY <2>1, <2>2, <2>3 DEF OnChild, Expanded, Selected, Listed
  <1>7. CASE OpenCharts
    <2>1. form'.rows = {} /\ form'.for = "none"
      BY <1>7 DEF OpenCharts, Closed
    <2> QED
      BY <2>1 DEF OnChild
  <1>8. CASE ReturnToCharts
    <2>1. UNCHANGED <<entries, items>>
      BY <1>8 DEF ReturnToCharts
    <2>2. form'.rows = form.rows /\ (form'.for = "none" \/ (cursor' = cursor /\ form'.for = form.for))
      BY <1>8 DEF ReturnToCharts, With, Asking, IsForm
    <2> QED
      BY <2>1, <2>2 DEF OnChild, Expanded, Selected, Listed
  <1> QED
    BY <1>1, <1>2, <1>3, <1>4, <1>5, <1>6, <1>7, <1>8 DEF ChartsOperator, ChartsProgram

-----------------------------------------------------------------------------
(***************************************************************************)
(* What is on its way                                                      *)
(***************************************************************************)

\* The word on which another view takes the screen goes out beside the room for commands.
Aside == Cmd(IF view = "services" THEN "to-stacks" ELSE "elsewhere", Nobody)

\* The commands that end with a row the program adds itself, and the messages that bring it.
Making == IF view = "configs" THEN {"edit"} ELSE IF view = "secrets" THEN {"create"} ELSE {}
Made   == IF view = "configs" THEN {"edited"} ELSE IF view = "secrets" THEN {"created"} ELSE {}

\* What a step does to the commands under way and the messages on their way.
Sends ==
  \/ UNCHANGED out
  \/ \E c : IsCall(c) /\ (c.what \in Making => Happens) /\ Begin(c)
  \/ \E m : IsCall(m) /\ m.what \notin Made /\ Room(1) /\ mail' = mail \cup {m} /\ UNCHANGED running
  \/ \E c \in running : Answers(c, {})
  \/ \E c \in running : \E m : IsCall(m) /\ (m.what \in Made => c.what \in Making) /\ Answers(c, {m})
  \/ \E m \in mail : Heard(m)
  \/ \E m \in mail : \E c :
       /\ m # Aside /\ IsCall(c) /\ c.what \notin Making /\ running' = running \cup {c}
       /\ mail' \in {mail \ {m}, (mail \ {m}) \cup {Aside}}
  \/ \E m \in mail : mail' = (mail \ {m}) \cup {Aside} /\ UNCHANGED running

LEMMA CmdIs ==
  ASSUME NEW what, NEW n \in NamesOrNobody
  PROVE  IsCall(Cmd(what, n)) /\ Cmd(what, n).what = what
  BY DEF IsCall, Cmd, Seens

LEMMA SawIs ==
  ASSUME NEW what, NEW w \in Seens
  PROVE  IsCall(Saw(what, w)) /\ Saw(what, w).what = what
  BY DEF IsCall, Saw, NamesOrNobody

LEMMA LoadIs == IsCall(Load) /\ Load.what = "load"
  BY CmdIs DEF Load, NamesOrNobody

LEMMA CheckIs == Listing => IsCall(Check) /\ Check.what = "check"
  BY SawIs DEF Check, Listing

LEMMA RenamedIs ==
  ASSUME NEW c, IsCall(c), NEW what
  PROVE  IsCall([c EXCEPT !.what = what]) /\ [c EXCEPT !.what = what].what = what
  BY DEF IsCall

LEMMA AsideIs == IsCall(Aside) /\ Aside.what \in {"to-stacks", "elsewhere"}
  BY CmdIs DEF Aside, NamesOrNobody

LEMMA MakingIs == Making \subseteq {"edit", "create"} /\ Made \subseteq {"edited", "created"}
  BY DEF Making, Made

LEMMA PressSends ==
  ASSUME Happens, NEW c, IsCall(c), Begin(c)
  PROVE  Sends
  BY DEF Sends

LEMMA PostSends ==
  ASSUME NEW m, IsCall(m), m.what \notin Made, Room(1), mail' = mail \cup {m}, UNCHANGED running
  PROVE  Sends
  BY DEF Sends

LEMMA LoadSends == Begin(Load) => Sends
  <1>1. Load.what \notin Making
    BY LoadIs, MakingIs
  <1> QED
    BY <1>1, LoadIs DEF Sends

LEMMA AnswerSends ==
  ASSUME NEW c \in running, NEW m, IsCall(m), m.what \in Made => c.what \in Making, Answers(c, {m})
  PROVE  Sends
  BY DEF Sends

LEMMA SilenceSends ==
  ASSUME NEW c \in running, Answers(c, {})
  PROVE  Sends
  BY DEF Sends

LEMMA HeardSends ==
  ASSUME NEW m \in mail, Heard(m)
  PROVE  Sends
  BY DEF Sends

LEMMA HeardAndBegunSends ==
  ASSUME NEW m \in mail, m # Aside, NEW c, IsCall(c), c.what \notin Making, HeardAndBegun(m, c)
  PROVE  Sends
  BY DEF Sends, HeardAndBegun

LEMMA ReadsSend ==
  ASSUME NEW c, NEW w \in Seens, NEW as, as \notin {"edited", "created"}, Reads(c, w, as)
  PROVE  Sends
  <1>1. c \in running /\ (Answers(c, {Saw(as, w)}) \/ Answers(c, {}))
    BY DEF Reads, Runs
  <1>2. as \notin Made
    BY MakingIs
  <1> QED
    BY <1>1, <1>2, SawIs, AnswerSends, SilenceSends

LEMMA ReadFailsSends ==
  ASSUME NEW c, NEW as, as \notin {"edited", "created"}, ReadFails(c, as)
  PROVE  Sends
  <1>1. c \in running /\ Answers(c, {Cmd(as, Nobody)})
    BY DEF ReadFails, Runs
  <1>2. as \notin Made
    BY MakingIs
  <1> QED
    BY <1>1, <1>2, CmdIs, AnswerSends DEF NamesOrNobody

LEMMA TickSends ==
  ASSUME Listing, NEW g, NEW checks \in {{}, {Check}, {Load}}, Tick(g, checks)
  PROVE  Sends
  <1>1. CASE UNCHANGED out
    BY <1>1 DEF Sends
  <1>2. CASE checks # {} /\ Room(1) /\ running' = running \cup checks /\ UNCHANGED mail
    <2>1. PICK c \in {Check, Load} : checks = {c}
      BY <1>2
    <2>2. IsCall(c) /\ c.what \notin Making
      BY LoadIs, CheckIs, MakingIs
    <2> QED
      BY <1>2, <2>1, <2>2 DEF Sends, Begin
  <1> QED
    BY <1>1, <1>2 DEF Tick

Clustered == world \in Worlds /\ snapshot \in Worlds

LEMMA NothingMade == view \notin {"configs", "secrets"} => Making = {} /\ Made = {}
  BY DEF Making, Made

LEMMA SameSends == UNCHANGED out => Sends
  BY DEF Sends

LEMMA OperatorSends ==
  ASSUME Happens, NEW what, NEW n \in NamesOrNobody, Begin(Cmd(what, n))
  PROVE  Sends
  BY CmdIs, PressSends

LEMMA NobodyIs == Nobody \in NamesOrNobody /\ Names \subseteq NamesOrNobody
  BY DEF NamesOrNobody

LEMMA OpenSends ==
  ASSUME UNCHANGED out \/ Begin(Load)
  PROVE  Sends
  BY LoadSends DEF Sends

LEMMA LoadAfter ==
  ASSUME NEW m \in mail, m.what \notin {"to-stacks", "elsewhere"}, HeardAndBegun(m, Load)
  PROVE  Sends
  BY HeardAndBegunSends, LoadIs, MakingIs, AsideIs

\* A command that comes back as a message of no row.
LEMMA EndSends ==
  ASSUME NEW c \in running, NEW what, NEW n \in NamesOrNobody, what \notin Made, Answers(c, {Cmd(what, n)})
  PROVE  Sends
  BY CmdIs, AnswerSends

\* The answer to a dialog is a message of no row.
LEMMA AnswerKeySends ==
  ASSUME NEW order, AnswerKey(order)
  PROVE  Sends
  <1>1. \A what \in {"yes", "no"} : IsCall(Cmd(what, Nobody)) /\ Cmd(what, Nobody).what \notin Made
    BY CmdIs, NobodyIs, MakingIs
  <1>2. \E what \in {"yes", "no"} : mail' = mail \cup {Cmd(what, Nobody)}
    BY DEF AnswerKey
  <1>3. Room(1) /\ UNCHANGED running
    BY DEF AnswerKey
  <1> QED
    BY <1>1, <1>2, <1>3, PostSends

\* An answer that is heard begins what was asked for, or nothing.
LEMMA AnsweredSends ==
  ASSUME NEW m \in mail, m.what \in {"yes", "no", "to-scale", "not-to-scale"},
         NEW c, IsCall(c), c.what \notin Making, Heard(m) \/ HeardAndBegun(m, c)
  PROVE  Sends
  <1>1. m # Aside
    BY AsideIs
  <1> QED
    BY <1>1, HeardSends, HeardAndBegunSends

LEMMA StacksSend ==
  ASSUME Listing, Clustered, Clustered', Asking, Calls, view = "stacks", StacksOperator \/ StacksTick \/ StacksProgram
  PROVE  Sends
  <1> Selected \in NamesOrNobody
    BY SelectedIs
  <1> HIDE DEF Selected
  <1> USE DEF Asking
  <1>1. CASE StacksMove \/ SaveStack \/ NewStack
    BY <1>1 DEF StacksMove, SaveStack, NewStack, Sends
  <1>2. CASE StacksTick
    BY <1>2, TickSends DEF StacksTick
  <1>3. CASE OpenStacks \/ ReturnToStacks
    BY <1>3, OpenSends DEF OpenStacks, ReturnToStacks, EnterEmpty
  <1>4. CASE DeleteStack
    BY <1>4, SameSends, OperatorSends, NobodyIs DEF DeleteStack, StacksKey, Press
  <1>5. CASE EditStack
    <2>1. UNCHANGED out \/ \E m : IsCall(m) /\ Room(1) /\ mail' = mail \cup {m} /\ UNCHANGED running
      <3>1. IsCall(Cmd("edited", Selected)) /\ IsCall(Cmd("create-failed", Nobody))
        BY CmdIs DEF NamesOrNobody
      <3> QED
        BY <1>5, <3>1 DEF EditStack, out
    <2> QED
      BY <2>1, NothingMade, PostSends DEF Sends
  <1>6. CASE StacksAnswer
    BY <1>6, AnswerKeySends DEF StacksAnswer
  <1>20. CASE StackAnswered
    <2> DEFINE r == [Check EXCEPT !.what = "remove", !.on = Selected]
    <2>1. PICK m \in mail : /\ m.what \in {"yes", "no"}
                            /\ Heard(m) \/ HeardAndBegun(m, Cmd("save", form.on)) \/ HeardAndBegun(m, r)
      BY <1>20 DEF StackAnswered, HearsAnswer, Hears
    <2>3. IsCall(r)
      <3> DEFINE q == [Check EXCEPT !.what = "remove"]
      <3>1. IsCall(q)
        BY CheckIs, RenamedIs
      <3> HIDE DEF q
      <3>2. IsCall([q EXCEPT !.on = Selected])
        BY <3>1 DEF IsCall
      <3> QED
        BY <3>2 DEF q
    <2>4. IsCall(Cmd("save", form.on))
      BY CmdIs DEF IsForm
    <2> HIDE DEF r
    <2>5. Making = {}
      BY NothingMade
    <2> QED
      BY <2>1, <2>3, <2>4, <2>5, AnsweredSends
  <1>7. CASE SaveDialogKey
    BY <1>7, SameSends, OperatorSends, NobodyIs DEF SaveDialogKey, StacksKey, Press, IsForm
  <1>8. CASE CreateDialogKey
    <2>1. Happens
      BY <1>8 DEF CreateDialogKey, StacksKey, Press
    <2>2. \/ UNCHANGED out \/ Begin(Cmd("files", Nobody)) \/ \E n \in Names : Begin(Cmd("deploy", n))
          \/ Room(1) /\ mail' = mail \cup {Cmd("edited", Nobody)} /\ UNCHANGED running
      BY <1>8 DEF CreateDialogKey, CreateSourceKey, CreateFileKey, CreateInlineKey, DeploysNew
    <2> QED
      BY <2>1, <2>2, SameSends, OperatorSends, CmdIs, NobodyIs, NothingMade, PostSends
  <1>9. CASE FileBrowserKey
    <2>1. Happens
      BY <1>9 DEF FileBrowserKey, StacksKey, Press
    <2>2. \/ UNCHANGED out \/ Begin(Cmd("files", Nobody))
          \/ Room(1) /\ mail' = mail \cup {Cmd("edited", Nobody)} /\ UNCHANGED running
      BY <1>9 DEF FileBrowserKey
    <2> QED
      BY <2>1, <2>2, SameSends, OperatorSends, CmdIs, NobodyIs, NothingMade, PostSends
  <1>10. CASE RunLoadStacks
    BY <1>10, ReadsSend DEF RunLoadStacks, Clustered, Seens
  <1>11. CASE RunRemoveStack
    <2>1. PICK c \in running : \/ Answers(c, {}) \/ Answers(c, {Saw("stacks", snapshot')})
                               \/ Answers(c, {Cmd("remove-failed", c.on)})
      <3>1. PICK c \in running : \/ Answers(c, IF snapshot' # c.saw THEN {Saw("stacks", snapshot')} ELSE {})
                                 \/ Answers(c, {Cmd("remove-failed", c.on)})
        BY <1>11 DEF RunRemoveStack
      <3> QED
        BY <3>1
    <2>2. snapshot' \in Seens
      BY DEF Clustered, Seens
    <2>3. c.on \in NamesOrNobody
      BY DEF Calls, IsCall
    <2> QED
      BY <2>1, <2>2, <2>3, NothingMade, SilenceSends, AnswerSends, CmdIs, SawIs
  <1>12. CASE RunDeploy
    <2> DEFINE f(c) == IF c.what = "deploy" THEN Cmd("create-failed", Nobody) ELSE Cmd("update-failed", c.on)
    <2>1. PICK c \in running : Answers(c, {Cmd("deployed", c.on)}) \/ Answers(c, {f(c)})
      BY <1>12 DEF RunDeploy
    <2>2. c.on \in NamesOrNobody
      BY DEF Calls, IsCall
    <2>3. IsCall(f(c))
      BY <2>2, NobodyIs, CmdIs
    <2> HIDE DEF f
    <2> QED
      BY <2>1, <2>2, <2>3, NothingMade, EndSends, AnswerSends
  <1>13. CASE RunStacksOther
    <2>1. PICK c \in running : Answers(c, {c}) \/ \E what : Answers(c, {[c EXCEPT !.what = what]})
      BY <1>13 DEF RunStacksOther
    <2>2. IsCall(c)
      BY DEF Calls
    <2> QED
      BY <2>1, <2>2, NothingMade, RenamedIs, AnswerSends
  <1>14. CASE StacksLoaded
    BY <1>14, HeardSends DEF StacksLoaded
  <1>15. CASE StackDeleteIntent
    BY <1>15, HeardSends DEF StackDeleteIntent
  <1>16. CASE Deployed
    BY <1>16, LoadAfter DEF Deployed, Hears
  <1>17. CASE StackFailed
    BY <1>17, HeardSends DEF StackFailed
  <1>18. CASE Edited
    <2>1. PICK m \in mail : m.what = "edited" /\ (Heard(m) \/ HeardAndBegun(m, Cmd("redeploy", m.on)))
      BY <1>18 DEF Edited, Hears
    <2>2. m.on \in NamesOrNobody
      BY DEF Calls, IsCall
    <2> QED
      BY <2>1, <2>2, NothingMade, CmdIs, AsideIs, HeardSends, HeardAndBegunSends
  <1>19. CASE SavedOrBrowsed
    BY <1>19, HeardSends DEF SavedOrBrowsed
  <1> QED
    BY <1>1, <1>2, <1>3, <1>4, <1>5, <1>6, <1>7, <1>8, <1>9, <1>10, <1>11, <1>12, <1>13, <1>14,
      <1>15, <1>16, <1>17, <1>18, <1>19, <1>20 DEF StacksOperator, StacksProgram

LEMMA ServicesSend ==
  ASSUME Listing, Clustered, Clustered', Asking, Calls, view = "services", ServicesOperator \/ ServicesTick \/ ServicesProgram
  PROVE  Sends
  <1> Selected \in NamesOrNobody
    BY SelectedIs
  <1> HIDE DEF Selected
  <1> USE DEF Asking
  <1>1. CASE ServicesMove \/ AskService
    BY <1>1 DEF ServicesMove, AskService, Sends
  <1>2. CASE ServicesTick
    BY <1>2, TickSends DEF ServicesTick, ServicesChecks
  <1>3. CASE OpenServices \/ ReturnToServices
    BY <1>3, OpenSends DEF OpenServices, ReturnToServices, EnterEmpty
  <1>4. CASE ServicesAnswer
    BY <1>4, AnswerKeySends DEF ServicesAnswer
  <1>5. CASE ScaleAnswer
    <2>1. \E what \in {"to-scale", "not-to-scale"} : mail' = mail \cup {Cmd(what, Nobody)}
      BY <1>5 DEF ScaleAnswer
    <2>2. Room(1) /\ UNCHANGED running
      BY <1>5 DEF ScaleAnswer
    <2> QED
      BY <2>1, <2>2, CmdIs, NobodyIs, NothingMade, PostSends
  <1>11. CASE ServiceAnswered
    <2>1. PICK m \in mail :
            /\ m.what \in {"yes", "no"}
            /\ \/ \E what : HeardAndBegun(m, Cmd(what, Selected))
               \/ running' = running /\ mail' \in {mail \ {m}, (mail \ {m}) \cup {Cmd("to-stacks", Nobody)}}
      BY <1>11 DEF ServiceAnswered, HearsAnswer, Hears
    <2>2. Aside = Cmd("to-stacks", Nobody)
      BY DEF Aside
    <2>3. CASE \E what : HeardAndBegun(m, Cmd(what, Selected))
      BY <2>1, <2>3, CmdIs, NothingMade, AnsweredSends
    <2>4. CASE running' = running /\ mail' \in {mail \ {m}, (mail \ {m}) \cup {Cmd("to-stacks", Nobody)}}
      BY <2>2, <2>4 DEF Sends, Heard
    <2> QED
      BY <2>1, <2>3, <2>4
  <1>12. CASE ScaleAnswered
    <2>1. PICK m \in mail : /\ m.what \in {"to-scale", "not-to-scale"}
                            /\ Heard(m) \/ HeardAndBegun(m, Cmd("scale", Selected))
      BY <1>12 DEF ScaleAnswered, Hears
    <2> QED
      BY <2>1, CmdIs, NothingMade, AnsweredSends
  <1>6. CASE RunCheckServices
    BY <1>6, ReadsSend DEF RunCheckServices, Clustered, Seens
  <1>7. CASE RunServiceOp
    <2>1. PICK c \in running : Answers(c, {Saw("services", snapshot')}) \/ Answers(c, {Cmd("failed", c.on)})
      BY <1>7 DEF RunServiceOp
    <2>2. snapshot' \in Seens
      BY DEF Clustered, Seens
    <2>3. c.on \in NamesOrNobody
      BY DEF Calls, IsCall
    <2> QED
      BY <2>1, <2>2, <2>3, NothingMade, AnswerSends, EndSends, SawIs
  <1>8. CASE ServicesLoaded
    BY <1>8, HeardSends DEF ServicesLoaded
  <1>9. CASE ServiceFailed
    BY <1>9, HeardSends DEF ServiceFailed
  <1>10. CASE ToStacks
    BY <1>10, HeardSends DEF ToStacks
  <1> QED
    BY <1>1, <1>2, <1>3, <1>4, <1>5, <1>6, <1>7, <1>8, <1>9, <1>10, <1>11, <1>12 DEF ServicesOperator,
      ServicesProgram

LEMMA NodesSend ==
  ASSUME Listing, Clustered, Asking, Calls, view = "nodes", NodesOperator \/ NodesTick \/ NodesProgram
  PROVE  Sends
  <1> Selected \in NamesOrNobody
    BY SelectedIs
  <1> HIDE DEF Selected
  <1> USE DEF Asking
  <1>1. CASE NodesMove \/ ChangeRole \/ AskNode
    BY <1>1 DEF NodesMove, ChangeRole, AskNode, Sends
  <1>2. CASE NodesTick
    BY <1>2, TickSends DEF NodesTick
  <1>3. CASE OpenNodes \/ ReturnToNodes
    BY <1>3, OpenSends DEF OpenNodes, ReturnToNodes, EnterEmpty
  <1>4. CASE NodesAnswer
    BY <1>4, AnswerKeySends DEF NodesAnswer
  <1>13. CASE NodeAnswered
    <2>1. PICK m \in mail : m.what \in {"yes", "no"} /\ (Heard(m) \/ HeardAndBegun(m, Cmd(dialog.act, Selected)))
      BY <1>13 DEF NodeAnswered, HearsAnswer, Hears
    <2> QED
      BY <2>1, CmdIs, NothingMade, AnsweredSends
  <1>5. CASE AvailabilityKey
    BY <1>5, SameSends, OperatorSends, NobodyIs DEF AvailabilityKey, NodesKey, Press, IsForm
  <1>6. CASE LabelKey
    BY <1>6, SameSends, OperatorSends, NobodyIs DEF LabelKey, NodesKey, Press, IsForm
  <1>7. CASE UnlabelKey
    BY <1>7, SameSends, OperatorSends, NobodyIs DEF UnlabelKey, NodesKey, Press, IsForm
  <1>8. CASE RunLoadNodes
    BY <1>8, ReadsSend DEF RunLoadNodes, Clustered, Seens
  <1>9. CASE RunNodeOp
    <2>1. PICK c \in running : (\E what : Answers(c, {Cmd(what, Nobody)})) \/ Answers(c, {Cmd("failed", c.on)})
      BY <1>9 DEF RunNodeOp
    <2>2. c.on \in NamesOrNobody /\ Nobody \in NamesOrNobody
      BY DEF Calls, IsCall, NamesOrNobody
    <2> QED
      BY <2>1, <2>2, NothingMade, EndSends
  <1>10. CASE NodesLoaded
    BY <1>10, HeardSends DEF NodesLoaded
  <1>11. CASE NodeDone
    BY <1>11, LoadAfter DEF NodeDone, Hears, NodePanels
  <1>12. CASE NodeFailed
    BY <1>12, HeardSends DEF NodeFailed
  <1> QED
    BY <1>1, <1>2, <1>3, <1>4, <1>5, <1>6, <1>7, <1>8, <1>9, <1>10, <1>11, <1>12, <1>13 DEF
      NodesOperator, NodesProgram

LEMMA TasksSend ==
  ASSUME Listing, Clustered, Asking, Calls, view = "tasks", SortTasks \/ TasksTick \/ TasksProgram
  PROVE  Sends
  <1> Selected \in NamesOrNobody
    BY SelectedIs
  <1> HIDE DEF Selected
  <1> USE DEF Asking
  <1>1. CASE SortTasks
    BY <1>1 DEF SortTasks, Sends
  <1>2. CASE TasksTick
    BY <1>2, TickSends DEF TasksTick
  <1>3. CASE OpenTasks \/ ReturnToTasks
    BY <1>3, OpenSends DEF OpenTasks, ReturnToTasks, EnterEmpty
  <1>4. CASE RunLoadTasks
    BY <1>4, ReadsSend, ReadFailsSends DEF RunLoadTasks, Clustered, Seens
  <1>5. CASE TasksLoaded
    BY <1>5, HeardSends DEF TasksLoaded
  <1>6. CASE TasksNotLoaded
    BY <1>6, HeardSends DEF TasksNotLoaded
  <1> QED
    BY <1>1, <1>2, <1>3, <1>4, <1>5, <1>6 DEF TasksProgram

LEMMA VolumesSend ==
  ASSUME Listing, Clustered, Asking, Calls, view = "volumes", VolumesOperator \/ VolumesTick \/ VolumesProgram
  PROVE  Sends
  <1> Selected \in NamesOrNobody
    BY SelectedIs
  <1> HIDE DEF Selected
  <1> USE DEF Asking
  <1>1. CASE VolumesMove \/ DismissVolumesError \/ VolumeAction
    BY <1>1 DEF VolumesMove, DismissVolumesError, VolumeAction, Sends
  <1>2. CASE VolumesTick
    BY <1>2, TickSends DEF VolumesTick
  <1>3. CASE OpenVolumes \/ ReturnToVolumes
    BY <1>3, OpenSends DEF OpenVolumes, ReturnToVolumes, EnterEmpty
  <1>4. CASE RunLoadVolumes
    BY <1>4, ReadsSend, ReadFailsSends DEF RunLoadVolumes, Clustered, Seens
  <1>5. CASE VolumesLoaded
    BY <1>5, HeardSends DEF VolumesLoaded
  <1>6. CASE VolumesNotLoaded
    BY <1>6, HeardSends DEF VolumesNotLoaded
  <1> QED
    BY <1>1, <1>2, <1>3, <1>4, <1>5, <1>6 DEF VolumesOperator, VolumesProgram

LEMMA NetworksSend ==
  ASSUME Listing, Clustered, Asking, Calls, view = "networks", NetworksOperator \/ NetworksTick \/ NetworksProgram
  PROVE  Sends
  <1> Selected \in NamesOrNobody
    BY SelectedIs
  <1> HIDE DEF Selected
  <1> USE DEF Asking
  <1>1. CASE NetworksMove \/ AskNetwork \/ NewNetwork \/ UsedByKey \/ DismissNetworksError
    BY <1>1 DEF NetworksMove, AskNetwork, NewNetwork, UsedByKey, DismissNetworksError, Sends
  <1>2. CASE NetworksTick
    BY <1>2, TickSends DEF NetworksTick
  <1>3. CASE OpenNetworks \/ ReturnToNetworks
    BY <1>3, OpenSends DEF OpenNetworks, ReturnToNetworks, EnterEmpty
  <1>4. CASE CreateNetworkKey
    BY <1>4, SameSends, OperatorSends, NobodyIs DEF CreateNetworkKey, NetworksKey,
      NetworkBasicKey, NetworkReviewKey, Press
  <1>5. CASE UsedByNetwork
    BY <1>5, SameSends, OperatorSends, NobodyIs DEF UsedByNetwork, NetworksKey, Press
  <1>6. CASE \E yes \in BOOLEAN : NetworksAnswer(yes)
    BY <1>6, SameSends, OperatorSends, NobodyIs DEF NetworksAnswer, NetworksKey, Press, IsForm
  <1>7. CASE RunLoadNetworks
    <2>1. Unasked(world) \in Seens
      BY DEF Unasked, Seens, Worlds
    <2> QED
      BY <1>7, <2>1, ReadsSend, ReadFailsSends DEF RunLoadNetworks
  <1>8. CASE RunNetworkOp
    <2>1. PICK c \in running : (\E what : Answers(c, {[c EXCEPT !.what = what]})) \/ \E what : Answers(c, {Cmd(what, c.on)})
      BY <1>8 DEF RunNetworkOp
    <2>2. IsCall(c) /\ c.on \in NamesOrNobody
      BY DEF Calls, IsCall
    <2> QED
      BY <2>1, <2>2, NothingMade, RenamedIs, AnswerSends, EndSends
  <1>9. CASE RunNetworkUsage
    <2>1. PICK c \in running : (\E what : Answers(c, {[c EXCEPT !.what = what]})) \/ Answers(c, {Cmd("failed", c.on)})
      BY <1>9 DEF RunNetworkUsage
    <2>2. IsCall(c) /\ c.on \in NamesOrNobody
      BY DEF Calls, IsCall
    <2> QED
      BY <2>1, <2>2, NothingMade, RenamedIs, AnswerSends, EndSends
  <1>10. CASE NetworksLoaded
    <2>1. PICK m \in mail : m.what = "networks" /\ (Heard(m) \/ HeardAndBegun(m, Cmd("usage", Nobody)))
      BY <1>10 DEF NetworksLoaded, Hears
    <2> QED
      BY <2>1, NothingMade, CmdIs, AsideIs, HeardSends, HeardAndBegunSends DEF NamesOrNobody
  <1>11. CASE NetworksNotLoaded
    BY <1>11, HeardSends DEF NetworksNotLoaded
  <1>12. CASE UsageKnown
    BY <1>12, HeardSends DEF UsageKnown
  <1>13. CASE NetworkDone
    BY <1>13, LoadAfter DEF NetworkDone, Hears
  <1>14. CASE NetworkFailed
    BY <1>14, HeardSends DEF NetworkFailed
  <1>15. CASE UsedByLoaded
    BY <1>15, HeardSends DEF UsedByLoaded
  <1> QED
    BY <1>1, <1>2, <1>3, <1>4, <1>5, <1>6, <1>7, <1>8, <1>9, <1>10, <1>11, <1>12, <1>13, <1>14,
      <1>15 DEF NetworksOperator, NetworksProgram

\* An answer never begins an edit: what is pending is a deletion or a rotation.
Pended == view = "configs" => pending # "edit"

LEMMA ConfigsPended ==
  ASSUME Pended, view = "configs", ConfigsOperator \/ ConfigsTick \/ ConfigsProgram
  PROVE  pending' # "edit"
  <1>1. CASE ConfigsOperator
    BY <1>1 DEF Pended, ConfigsOperator, ConfigsMove, AskDeleteConfig, EditConfig, UsedByConfig, NewConfig,
      CreateConfigKey, BrowseConfigKey, DismissConfigs, ConfigsAnswer, AnswerKey, asking
  <1>2. CASE ConfigsTick \/ RunLoadConfigs \/ RunConfigOp \/ RunConfigsOther \/ ConfigsLoaded
    BY <1>2 DEF Pended, ConfigsTick, Tick, RunLoadConfigs, RunConfigOp, RunConfigsOther, ConfigsLoaded, asking
  <1>3. CASE ConfigAnswered \/ ConfigDone \/ ConfigEdited \/ ConfigFailed \/ ConfigsOtherDone
    BY <1>3 DEF Pended, ConfigAnswered, ConfigDone, ConfigEdited, ConfigFailed, ConfigsOtherDone, asking
  <1>4. CASE OpenConfigs \/ ReturnToConfigs
    BY <1>4 DEF Pended, OpenConfigs, ReturnToConfigs, EnterEmpty, Enter, asking
  <1> QED
    BY <1>1, <1>2, <1>3, <1>4 DEF ConfigsProgram

LEMMA ConfigsSend ==
  ASSUME Listing, Clustered, Asking, Calls, Pended, view = "configs", ConfigsOperator \/ ConfigsTick \/ ConfigsProgram
  PROVE  Sends
  <1> Selected \in NamesOrNobody
    BY SelectedIs
  <1> HIDE DEF Selected
  <1> USE DEF Asking
  <1>1. CASE ConfigsMove \/ AskDeleteConfig \/ NewConfig \/ DismissConfigs
    BY <1>1 DEF ConfigsMove, AskDeleteConfig, NewConfig, DismissConfigs, Sends
  <1>2. CASE ConfigsTick
    BY <1>2, TickSends DEF ConfigsTick
  <1>3. CASE OpenConfigs \/ ReturnToConfigs
    BY <1>3, OpenSends DEF OpenConfigs, ReturnToConfigs, EnterEmpty
  <1>4. CASE EditConfig
    BY <1>4, SameSends, OperatorSends, NobodyIs DEF EditConfig, ConfigsKey, Press
  <1>5. CASE UsedByConfig
    BY <1>5, SameSends, OperatorSends, NobodyIs DEF UsedByConfig, ConfigsKey, Press
  <1>6. CASE CreateConfigKey
    BY <1>6, SameSends, OperatorSends, NobodyIs DEF CreateConfigKey, ConfigsKey,
      ConfigSourceKey, ConfigFileKey, ConfigInlineKey, Press, CreatesConfig
  <1>7. CASE BrowseConfigKey
    BY <1>7, SameSends, OperatorSends, NobodyIs DEF BrowseConfigKey, ConfigsKey, Press
  <1>8. CASE ConfigsAnswer
    BY <1>8, AnswerKeySends DEF ConfigsAnswer
  <1>17. CASE ConfigAnswered
    <2>1. PICK m \in mail : m.what \in {"yes", "no"} /\ (Heard(m) \/ HeardAndBegun(m, Cmd(pending, form.on)))
      BY <1>17 DEF ConfigAnswered, HearsAnswer, Hears
    <2>2. pending \notin Making
      BY DEF Pended, Making
    <2>3. IsCall(Cmd(pending, form.on)) /\ Cmd(pending, form.on).what = pending
      BY CmdIs DEF IsForm
    <2> QED
      BY <2>1, <2>2, <2>3, AnsweredSends
  <1>9. CASE RunLoadConfigs
    <2>1. \/ \E c : Reads(c, world, "configs") \/ ReadFails(c, "failed")
          \/ \E c \in running : Answers(c, {})
      BY <1>9 DEF RunLoadConfigs
    <2> QED
      BY <2>1, ReadsSend, ReadFailsSends, SilenceSends DEF Clustered, Seens
  <1>10. CASE RunConfigOp
    <2>1. PICK c \in running :
            \/ Answers(c, {})
            \/ \E what \in {"done", "not-created", "not-edited", "failed"} : Answers(c, {Cmd(what, Nobody)})
            \/ c.what = "edit" /\ \E n \in Names : Answers(c, {Cmd("edited", n)})
      BY <1>10 DEF RunConfigOp
    <2>2. Making = {"edit"} /\ Made = {"edited"}
      BY DEF Making, Made
    <2> QED
      BY <2>1, <2>2, SilenceSends, EndSends, CmdIs, AnswerSends DEF NamesOrNobody
  <1>11. CASE RunConfigsOther
    <2>1. PICK c \in running :
            \/ c.what \in {"files", "write", "usedby"} /\ Answers(c, {c})
            \/ \E what \in {"usedby-failed", "not-created"} : Answers(c, {Cmd(what, Nobody)})
      BY <1>11 DEF RunConfigsOther
    <2>2. Made = {"edited"}
      BY DEF Made
    <2>3. IsCall(c)
      BY DEF Calls
    <2> QED
      BY <2>1, <2>2, <2>3, EndSends, AnswerSends DEF NamesOrNobody
  <1>12. CASE ConfigsLoaded
    BY <1>12, HeardSends DEF ConfigsLoaded
  <1>13. CASE ConfigDone
    BY <1>13, LoadAfter DEF ConfigDone, Hears
  <1>14. CASE ConfigEdited
    BY <1>14, HeardSends DEF ConfigEdited
  <1>15. CASE ConfigFailed
    BY <1>15, HeardSends DEF ConfigFailed
  <1>16. CASE ConfigsOtherDone
    BY <1>16, HeardSends DEF ConfigsOtherDone
  <1> QED
    BY <1>1, <1>2, <1>3, <1>4, <1>5, <1>6, <1>7, <1>8, <1>9, <1>10, <1>11, <1>12, <1>13, <1>14,
      <1>15, <1>16, <1>17 DEF ConfigsOperator, ConfigsProgram

LEMMA SecretsSend ==
  ASSUME Listing, Clustered, Asking, Calls, view = "secrets", SecretsOperator \/ SecretsTick \/ SecretsProgram
  PROVE  Sends
  <1> Selected \in NamesOrNobody
    BY SelectedIs
  <1> HIDE DEF Selected
  <1> USE DEF Asking
  <1>1. CASE SecretsMove \/ AskDeleteSecret \/ RevealSecret \/ NewSecret \/ DismissSecrets
    BY <1>1 DEF SecretsMove, AskDeleteSecret, RevealSecret, NewSecret, DismissSecrets, Sends
  <1>2. CASE SecretsTick
    BY <1>2, TickSends DEF SecretsTick, SecretsChecks
  <1>3. CASE OpenSecrets \/ ReturnToSecrets
    BY <1>3, OpenSends DEF OpenSecrets, ReturnToSecrets, EnterEmpty
  <1>4. CASE UsedBySecret
    BY <1>4, SameSends, OperatorSends, NobodyIs DEF UsedBySecret, SecretsKey, Press
  <1>5. CASE CreateSecretKey
    BY <1>5, SameSends, OperatorSends, NobodyIs DEF CreateSecretKey, SecretsKey,
      SecretSourceKey, SecretFileKey, SecretInlineKey, Press, CreatesSecret
  <1>6. CASE BrowseSecretKey
    BY <1>6, SameSends, OperatorSends, NobodyIs DEF BrowseSecretKey, SecretsKey, Press
  <1>7. CASE SecretsAnswer
    BY <1>7, AnswerKeySends DEF SecretsAnswer
  <1>16. CASE SecretAnswered
    <2>1. PICK m \in mail : m.what \in {"yes", "no"} /\ (Heard(m) \/ HeardAndBegun(m, Cmd("delete", form.on)))
      BY <1>16 DEF SecretAnswered, HearsAnswer, Hears
    <2>2. IsCall(Cmd("delete", form.on)) /\ Cmd("delete", form.on).what = "delete"
      BY CmdIs DEF IsForm
    <2> QED
      BY <2>1, <2>2, MakingIs, AnsweredSends
  <1>8. CASE RunLoadSecrets
    <2>1. \/ \E c : Reads(c, world, "secrets") \/ ReadFails(c, "failed")
          \/ \E c \in running : Answers(c, {})
      BY <1>8 DEF RunLoadSecrets
    <2> QED
      BY <2>1, ReadsSend, ReadFailsSends, SilenceSends DEF Clustered, Seens
  <1>9. CASE RunSecretOp
    <2>1. PICK c \in running :
            \/ Answers(c, {Cmd("failed", Nobody)})
            \/ Answers(c, {Cmd("deleted", c.on)})
            \/ c.what = "create" /\ Answers(c, {Cmd("created", c.on)})
      BY <1>9 DEF RunSecretOp
    <2>2. Making = {"create"} /\ Made = {"created"}
      BY DEF Making, Made
    <2>3. c.on \in NamesOrNobody /\ Nobody \in NamesOrNobody
      BY DEF Calls, IsCall, NamesOrNobody
    <2> QED
      BY <2>1, <2>2, <2>3, EndSends, CmdIs, AnswerSends
  <1>10. CASE RunSecretsOther
    <2>1. PICK c \in running :
            \/ c.what \in {"files", "write", "usedby"} /\ Answers(c, {c})
            \/ Answers(c, {Cmd("failed", Nobody)})
      BY <1>10 DEF RunSecretsOther
    <2>2. Made = {"created"}
      BY DEF Made
    <2>3. IsCall(c)
      BY DEF Calls
    <2> QED
      BY <2>1, <2>2, <2>3, EndSends, AnswerSends DEF NamesOrNobody
  <1>11. CASE SecretsLoaded
    BY <1>11, HeardSends DEF SecretsLoaded
  <1>12. CASE SecretDeleted
    BY <1>12, LoadAfter DEF SecretDeleted, Hears
  <1>13. CASE SecretCreated
    BY <1>13, HeardSends DEF SecretCreated
  <1>14. CASE SecretFailed
    BY <1>14, HeardSends DEF SecretFailed
  <1>15. CASE SecretsOtherDone
    BY <1>15, HeardSends DEF SecretsOtherDone
  <1> QED
    BY <1>1, <1>2, <1>3, <1>4, <1>5, <1>6, <1>7, <1>8, <1>9, <1>10, <1>11, <1>12, <1>13, <1>14,
      <1>15, <1>16 DEF SecretsOperator, SecretsProgram

LEMMA ContextsSend ==
  ASSUME Listing, Clustered, Asking, Calls, view = "contexts", ContextsOperator \/ ContextsTick \/ ContextsProgram
  PROVE  Sends
  <1> Selected \in NamesOrNobody
    BY SelectedIs
  <1> HIDE DEF Selected
  <1> USE DEF Asking
  <1>1. CASE ContextsMove \/ ClearContextsFilter \/ DismissContextsError
    BY <1>1 DEF ContextsMove, ClearContextsFilter, DismissContextsError, Sends
  <1>2. CASE ContextsTick
    BY <1>2, TickSends DEF ContextsTick
  <1>3. CASE OpenContexts \/ ReturnToContexts
    BY <1>3, OpenSends DEF OpenContexts, ReturnToContexts, EnterEmpty
  <1>4. CASE SwitchContext
    BY <1>4, SameSends, OperatorSends, NobodyIs DEF SwitchContext, ContextsKey, Press
  <1>5. CASE DeleteOrExport
    BY <1>5, SameSends, OperatorSends, NobodyIs DEF DeleteOrExport, ContextsKey, Press
  <1>6. CASE OpenContextForm
    BY <1>6, SameSends, OperatorSends, NobodyIs DEF OpenContextForm, ContextsKey, Press
  <1>7. CASE CreateContextKey
    BY <1>7, SameSends, OperatorSends, NobodyIs DEF CreateContextKey, ContextsEsc, ContextsKey,
      Press
  <1>8. CASE EditContextKey
    BY <1>8, SameSends, OperatorSends, NobodyIs DEF EditContextKey, ContextsEsc, ContextsKey,
      Press, IsForm
  <1>9. CASE CertKey
    BY <1>9, SameSends, OperatorSends, NobodyIs DEF CertKey, ContextsEsc, ContextsKey, Press
  <1>10. CASE BrowseContextKey
    BY <1>10, SameSends, OperatorSends, NobodyIs DEF BrowseContextKey, ContextsEsc,
      ContextsKey, Press
  <1>11. CASE ContextsAnswer
    BY <1>11, AnswerKeySends, SameSends DEF ContextsAnswer
  <1>21. CASE ContextAnswered
    <2>1. PICK m \in mail : /\ m.what \in {"yes", "no"}
                            /\ Heard(m) \/ \E n \in form.rows : HeardAndBegun(m, Cmd(pending, n))
      BY <1>21 DEF ContextAnswered, HearsAnswer, Hears
    <2>2. \A n \in form.rows : IsCall(Cmd(pending, n))
      BY CmdIs DEF IsForm
    <2> QED
      BY <2>1, <2>2, NothingMade, HeardSends, AnsweredSends
  <1>12. CASE RunLoadContexts
    BY <1>12, ReadsSend, ReadFailsSends DEF RunLoadContexts, Clustered, Seens
  <1>13. CASE RunContextOp
    <2>1. PICK c \in running : (\E what : Answers(c, {[c EXCEPT !.what = what]})) \/ \E what : Answers(c, {Cmd(what, c.on)})
      BY <1>13 DEF RunContextOp
    <2>2. IsCall(c) /\ c.on \in NamesOrNobody
      BY DEF Calls, IsCall
    <2> QED
      BY <2>1, <2>2, NothingMade, RenamedIs, AnswerSends, EndSends
  <1>14. CASE RunContextFiles
    <2>1. PICK c \in running : \/ Answers(c, {}) \/ Answers(c, {c}) \/ Answers(c, {Cmd("exists", c.on)})
                               \/ Answers(c, {Cmd("no-files", Nobody)})
      BY <1>14 DEF RunContextFiles
    <2>2. IsCall(c) /\ c.on \in NamesOrNobody /\ Nobody \in NamesOrNobody
      BY DEF Calls, IsCall, NamesOrNobody
    <2> QED
      BY <2>1, <2>2, NothingMade, SilenceSends, AnswerSends, EndSends
  <1>15. CASE ContextsLoaded
    BY <1>15, HeardSends DEF ContextsLoaded
  <1>16. CASE ContextDone
    <2>1. PICK m \in mail :
            /\ m.what \in {"switched", "deleted", "created", "imported", "updated", "moved"}
            /\ running' = running \cup {Load}
            /\ mail' \in {mail \ {m}, (mail \ {m}) \cup {Cmd("elsewhere", Nobody)}}
      BY <1>16 DEF ContextDone, Hears
    <2>2. Aside = Cmd("elsewhere", Nobody)
      BY DEF Aside
    <2> QED
      BY <2>1, <2>2, NothingMade, LoadIs, AsideIs DEF Sends
  <1>17. CASE ContextFailed
    BY <1>17, HeardSends DEF ContextFailed
  <1>18. CASE ExportExists
    BY <1>18, HeardSends DEF ExportExists
  <1>19. CASE ContextFilesLoaded
    BY <1>19, HeardSends DEF ContextFilesLoaded
  <1>20. CASE GoElsewhere
    BY <1>20, HeardSends DEF GoElsewhere
  <1> QED
    BY <1>1, <1>2, <1>3, <1>4, <1>5, <1>6, <1>7, <1>8, <1>9, <1>10, <1>11, <1>12, <1>13, <1>14,
      <1>15, <1>16, <1>17, <1>18, <1>19, <1>20, <1>21 DEF ContextsOperator, ContextsProgram

LEMMA ChartsSend ==
  ASSUME Listing, Clustered, Asking, Calls, view = "charts", ChartsOperator \/ ChartsTick \/ ChartsProgram
  PROVE  Sends
  <1> Selected \in NamesOrNobody
    BY SelectedIs
  <1> HIDE DEF Selected
  <1> USE DEF Asking
  <1>1. CASE ChartsMove \/ StepRow \/ ExpandRow \/ BlockedAction \/ DismissCharts
    BY <1>1 DEF ChartsMove, StepRow, ExpandRow, BlockedAction, DismissCharts, Sends
  <1>8. CASE ChartsAnswer
    BY <1>8, AnswerKeySends DEF ChartsAnswer
  <1>9. CASE ChartsAnswered
    BY <1>9, HeardSends DEF ChartsAnswered
  <1>2. CASE ChartsTick
    <2>1. UNCHANGED out \/ Begin(Check)
      BY <1>2 DEF ChartsTick
    <2>2. Check.what \notin Making
      BY CheckIs, MakingIs
    <2> QED
      BY <2>1, <2>2, CheckIs DEF Sends
  <1>3. CASE OpenCharts \/ ReturnToCharts
    BY <1>3, OpenSends DEF OpenCharts, ReturnToCharts, EnterEmpty
  <1>4. CASE RunReadReleases
    <2> DEFINE a(c) == IF c.what = "check" /\ world = c.saw THEN Cmd("same", Nobody) ELSE Saw("releases", world)
    <2>1. PICK c \in running : Answers(c, {a(c)}) \/ ReadFails(c, "no-releases")
      BY <1>4 DEF RunReadReleases
    <2>2. IsCall(a(c))
      BY CmdIs, SawIs DEF Clustered, Seens, NamesOrNobody
    <2> HIDE DEF a
    <2> QED
      BY <2>1, <2>2, NothingMade, ReadFailsSends, AnswerSends
  <1>5. CASE PollRetry
    BY <1>5, HeardSends DEF PollRetry
  <1>6. CASE ReleasesLoaded
    BY <1>6, HeardSends DEF ReleasesLoaded
  <1>7. CASE ReleasesNotLoaded
    BY <1>7, HeardSends DEF ReleasesNotLoaded
  <1> QED
    BY <1>1, <1>2, <1>3, <1>4, <1>5, <1>6, <1>7, <1>8, <1>9 DEF ChartsOperator, ChartsProgram

\* Every command and message is of its shape, and no more are on their way than there is room
\* for, but for the word on which another view takes the screen.
OutInv ==
  /\ Calls /\ IsFiniteSet(running) /\ IsFiniteSet(mail)
  /\ Cardinality(running) + Cardinality(mail \ {Aside}) <= MaxCalls

LEMMA Grown ==
  ASSUME NEW S, IsFiniteSet(S), NEW x
  PROVE  IsFiniteSet(S \cup {x}) /\ Cardinality(S) \in Nat /\ Cardinality(S \cup {x}) \in Nat
         /\ Cardinality(S \cup {x}) <= Cardinality(S) + 1
  BY FS_AddElement, FS_CardinalityType

LEMMA Shrunk ==
  ASSUME NEW S, IsFiniteSet(S), NEW T \in SUBSET S
  PROVE  IsFiniteSet(T) /\ Cardinality(T) \in Nat /\ Cardinality(S) \in Nat /\ Cardinality(T) <= Cardinality(S)
  BY FS_Subset, FS_CardinalityType

LEMMA Lost ==
  ASSUME NEW S, IsFiniteSet(S), NEW x \in S
  PROVE  IsFiniteSet(S \ {x}) /\ Cardinality(S \ {x}) = Cardinality(S) - 1
         /\ Cardinality(S) \in Nat /\ Cardinality(S \ {x}) \in Nat
  BY FS_RemoveElement, FS_CardinalityType

LEMMA SendsCalls ==
  ASSUME Calls, Sends
  PROVE  Calls'
  <1>1. CASE UNCHANGED out
    BY <1>1 DEF Calls, out
  <1>2. CASE \E c : IsCall(c) /\ Begin(c)
    BY <1>2 DEF Calls, Begin
  <1>3. CASE \E m : IsCall(m) /\ mail' = mail \cup {m} /\ UNCHANGED running
    BY <1>3 DEF Calls
  <1>4. CASE \E c \in running : Answers(c, {})
    BY <1>4 DEF Calls, Answers
  <1>5. CASE \E c \in running : \E m : IsCall(m) /\ Answers(c, {m})
    BY <1>5 DEF Calls, Answers
  <1>6. CASE \E m \in mail : Heard(m)
    BY <1>6 DEF Calls, Heard
  <1>7. CASE \E m \in mail : \E c : IsCall(c) /\ running' = running \cup {c} /\ mail' \in {mail \ {m}, (mail \ {m}) \cup {Aside}}
    BY <1>7, AsideIs DEF Calls
  <1>8. CASE \E m \in mail : mail' = (mail \ {m}) \cup {Aside} /\ UNCHANGED running
    BY <1>8, AsideIs DEF Calls
  <1> QED
    BY <1>1, <1>2, <1>3, <1>4, <1>5, <1>6, <1>7, <1>8 DEF Sends

LEMMA SendsOut ==
  ASSUME OutInv, Sends, view' = view
  PROVE  OutInv'
  <1> DEFINE R == Cardinality(running)
             M == Cardinality(mail \ {Aside})
             RP == Cardinality(running')
             MP == Cardinality(mail' \ {Aside})
  <1> USE DEF OutInv
  <1>a. Calls' /\ Aside' = Aside
    BY SendsCalls DEF Aside
  <1>b. IsFiniteSet(mail \ {Aside}) /\ R \in Nat /\ M \in Nat /\ M <= Cardinality(mail) /\ MaxCalls \in Nat /\ Cardinality(mail) \in Nat
    <2>1. mail \ {Aside} \in SUBSET mail
      OBVIOUS
    <2> QED
      BY <2>1, Shrunk, FS_CardinalityType, ListViewAssumption
  <1>c. IsFiniteSet(running') /\ IsFiniteSet(mail') /\ RP + MP <= MaxCalls
    <2>1. CASE UNCHANGED out
      BY <2>1 DEF out
    <2>2. CASE \E c : Begin(c)
      <3>1. PICK c : Room(1) /\ running' = running \cup {c} /\ mail' = mail
        BY <2>2 DEF Begin
      <3>2. IsFiniteSet(running') /\ RP \in Nat /\ RP <= R + 1
        BY <3>1, Grown
      <3>3. R + Cardinality(mail) + 1 <= MaxCalls
        BY <3>1 DEF Room
      <3> QED
        BY <1>b, <3>1, <3>2, <3>3
    <2>3. CASE \E m : Room(1) /\ mail' = mail \cup {m} /\ UNCHANGED running
      <3>1. PICK m : Room(1) /\ mail' = mail \cup {m} /\ UNCHANGED running
        BY <2>3
      <3>2. IsFiniteSet(mail') /\ Cardinality(mail') \in Nat /\ Cardinality(mail') <= Cardinality(mail) + 1
        BY <3>1, Grown
      <3>3. mail' \ {Aside} \in SUBSET mail'
        OBVIOUS
      <3>4. MP \in Nat /\ MP <= Cardinality(mail')
        BY <3>2, <3>3, Shrunk
      <3>5. R + Cardinality(mail) + 1 <= MaxCalls
        BY <3>1 DEF Room
      <3> QED
        BY <1>b, <3>1, <3>2, <3>4, <3>5
    <2>4. CASE \E c \in running : Answers(c, {})
      <3>1. PICK c \in running : running' = running \ {c} /\ mail' = mail
        BY <2>4 DEF Answers
      <3> QED
        BY <1>b, <3>1, Lost
    <2>5. CASE \E c \in running : \E m : Answers(c, {m})
      <3>1. PICK c, m : c \in running /\ running' = running \ {c} /\ mail' = mail \cup {m}
        BY <2>5 DEF Answers
      <3>2. IsFiniteSet(running') /\ RP = R - 1
        BY <3>1, Lost
      <3>3. IsFiniteSet(mail')
        BY <3>1, Grown
      <3>4. IsFiniteSet((mail \ {Aside}) \cup {m}) /\ Cardinality((mail \ {Aside}) \cup {m}) <= M + 1
            /\ Cardinality((mail \ {Aside}) \cup {m}) \in Nat
        BY <1>b, Grown
      <3>5. mail' \ {Aside} \in SUBSET ((mail \ {Aside}) \cup {m})
        BY <3>1
      <3>6. MP \in Nat /\ MP <= Cardinality((mail \ {Aside}) \cup {m})
        BY <3>4, <3>5, Shrunk
      <3> QED
        BY <1>b, <3>2, <3>3, <3>4, <3>6
    <2>6. CASE \E m \in mail : Heard(m)
      <3>1. mail' \in SUBSET mail /\ running' = running /\ mail' \ {Aside} \in SUBSET (mail \ {Aside})
        BY <2>6 DEF Heard
      <3>2. IsFiniteSet(mail') /\ MP \in Nat /\ MP <= M
        BY <1>b, <3>1, Shrunk
      <3> QED
        BY <1>b, <3>1, <3>2
    <2>7. CASE \E m \in mail : \E c : m # Aside /\ running' = running \cup {c} /\ mail' \in {mail \ {m}, (mail \ {m}) \cup {Aside}}
      <3>1. PICK m, c : m \in mail /\ m # Aside /\ running' = running \cup {c} /\ mail' \in {mail \ {m}, (mail \ {m}) \cup {Aside}}
        BY <2>7
      <3>2. IsFiniteSet(running') /\ RP \in Nat /\ RP <= R + 1
        BY <3>1, Grown
      <3>3. IsFiniteSet(mail')
        <4>1. mail' \in SUBSET (mail \cup {Aside})
          BY <3>1
        <4>2. IsFiniteSet(mail \cup {Aside})
          BY Grown
        <4> QED
          BY <4>1, <4>2, Shrunk
      <3>4. mail' \ {Aside} = (mail \ {Aside}) \ {m} /\ m \in mail \ {Aside}
        BY <3>1
      <3>5. MP = M - 1
        BY <1>b, <3>4, Lost
      <3> QED
        BY <1>b, <3>2, <3>3, <3>5
    <2>8. CASE \E m \in mail : mail' = (mail \ {m}) \cup {Aside} /\ UNCHANGED running
      <3>1. mail' \in SUBSET (mail \cup {Aside}) /\ mail' \ {Aside} \in SUBSET (mail \ {Aside}) /\ running' = running
        BY <2>8
      <3>2. IsFiniteSet(mail \cup {Aside})
        BY Grown
      <3>3. IsFiniteSet(mail') /\ MP \in Nat /\ MP <= M
        BY <1>b, <3>1, <3>2, Shrunk
      <3> QED
        BY <1>b, <3>1, <3>3
    <2> QED
      BY <2>1, <2>2, <2>3, <2>4, <2>5, <2>6, <2>7, <2>8 DEF Sends
  <1> QED
    BY <1>a, <1>c

\* Rows to come of what the program makes itself.
Owed == Cardinality({c \in running : c.what \in Making}) + Cardinality({m \in mail : m.what \in Made})

LEMMA OwedIs ==
  ASSUME IsFiniteSet(running), IsFiniteSet(mail)
  PROVE  /\ Owed \in Nat
         /\ IsFiniteSet({c \in running : c.what \in Making}) /\ IsFiniteSet({m \in mail : m.what \in Made})
         /\ Cardinality({c \in running : c.what \in Making}) \in Nat /\ Cardinality({m \in mail : m.what \in Made}) \in Nat
  <1>1. {c \in running : c.what \in Making} \in SUBSET running /\ {m \in mail : m.what \in Made} \in SUBSET mail
    OBVIOUS
  <1> QED
    BY <1>1, Shrunk DEF Owed

\* None more than there are events more: what makes a row is begun with a key.
LEMMA SendsOwed ==
  ASSUME OutInv, Sends, view' = view, events \in Nat, events' \in {events, events + 1}
  PROVE  Owed' <= Owed + (events' - events)
  <1> DEFINE A(r) == {c \in r : c.what \in Making}
             B(s) == {m \in s : m.what \in Made}
             more == events' - events
  <1>a. Calls /\ IsFiniteSet(running) /\ IsFiniteSet(mail)
        /\ IsFiniteSet(running') /\ IsFiniteSet(mail') /\ Making' = Making /\ Made' = Made
    BY SendsOut DEF Making, Made, OutInv
  <1>b. /\ IsFiniteSet(A(running)) /\ IsFiniteSet(B(mail))
        /\ Cardinality(A(running)) \in Nat /\ Cardinality(B(mail)) \in Nat
        /\ Owed = Cardinality(A(running)) + Cardinality(B(mail))
    BY <1>a, OwedIs DEF Owed
  <1>c. Owed' = Cardinality(A(running')) + Cardinality(B(mail'))
    BY <1>a DEF Owed
  <1>m. more = 0 \/ (more = 1 /\ events' = events + 1)
    <2>1. CASE events' = events
      BY <2>1
    <2>2. CASE events' = events + 1
      BY <2>2
    <2> QED
      BY <2>1, <2>2
  <1>n. events' = events + 1 => more = 1
    OBVIOUS
  <1> HIDE DEF more
  <1> SUFFICES Owed' <= Owed + more
    BY DEF more
  <1>d. ASSUME A(running') \subseteq A(running), B(mail') \subseteq B(mail)
        PROVE  Owed' <= Owed + more
    <2>1. A(running') \in SUBSET A(running) /\ B(mail') \in SUBSET B(mail)
      BY <1>d
    <2> HIDE DEF A, B
    <2>2. Cardinality(A(running')) \in Nat /\ Cardinality(A(running')) <= Cardinality(A(running))
      BY <1>b, <2>1, Shrunk
    <2>3. Cardinality(B(mail')) \in Nat /\ Cardinality(B(mail')) <= Cardinality(B(mail))
      BY <1>b, <2>1, Shrunk
    <2> QED
      BY <1>b, <1>c, <1>m, <2>2, <2>3
  <1>1. CASE UNCHANGED out
    <2>1. A(running') \subseteq A(running) /\ B(mail') \subseteq B(mail)
      BY <1>1 DEF out
    <2> QED
      BY <1>d, <2>1
  <1>2. CASE \E c : (c.what \in Making => Happens) /\ Begin(c)
    <2>1. PICK c : (c.what \in Making => Happens) /\ running' = running \cup {c} /\ mail' = mail
      BY <1>2 DEF Begin
    <2>2. CASE c.what \notin Making
      <3>1. A(running') \subseteq A(running) /\ B(mail') \subseteq B(mail)
        BY <2>1, <2>2
      <3> QED
        BY <1>d, <3>1
    <2>3. CASE c.what \in Making
      <3>1. A(running') = A(running) \cup {c} /\ B(mail') = B(mail)
        BY <2>1, <2>3
      <3>2. more = 1
        BY <1>n, <2>1, <2>3 DEF Happens
      <3> HIDE DEF A, B
      <3>3. Cardinality(A(running')) \in Nat /\ Cardinality(A(running')) <= Cardinality(A(running)) + 1
        BY <1>b, <3>1, Grown
      <3> QED
        BY <1>b, <1>c, <3>1, <3>2, <3>3
    <2> QED
      BY <2>2, <2>3
  <1>3. CASE \E m : m.what \notin Made /\ mail' = mail \cup {m} /\ UNCHANGED running
    <2>1. A(running') \subseteq A(running) /\ B(mail') \subseteq B(mail)
      BY <1>3
    <2> QED
      BY <1>d, <2>1
  <1>4. CASE \E c \in running : Answers(c, {})
    <2>1. A(running') \subseteq A(running) /\ B(mail') \subseteq B(mail)
      BY <1>4 DEF Answers
    <2> QED
      BY <1>d, <2>1
  <1>5. CASE \E c \in running : \E m : (m.what \in Made => c.what \in Making) /\ Answers(c, {m})
    <2>1. PICK c, m : c \in running /\ (m.what \in Made => c.what \in Making) /\ running' = running \ {c} /\ mail' = mail \cup {m}
      BY <1>5 DEF Answers
    <2>2. CASE m.what \notin Made
      <3>1. A(running') \subseteq A(running) /\ B(mail') \subseteq B(mail)
        BY <2>1, <2>2
      <3> QED
        BY <1>d, <3>1
    <2>3. CASE m.what \in Made
      <3>1. A(running') = A(running) \ {c} /\ c \in A(running) /\ B(mail') = B(mail) \cup {m}
        BY <2>1, <2>3
      <3> HIDE DEF A, B
      <3>2. Cardinality(A(running')) = Cardinality(A(running)) - 1
        BY <1>b, <3>1, Lost
      <3>3. Cardinality(B(mail')) \in Nat /\ Cardinality(B(mail')) <= Cardinality(B(mail)) + 1
        BY <1>b, <3>1, Grown
      <3> QED
        BY <1>b, <1>c, <1>m, <3>2, <3>3
    <2> QED
      BY <2>2, <2>3
  <1>6. CASE \E m \in mail : Heard(m)
    <2>1. A(running') \subseteq A(running) /\ B(mail') \subseteq B(mail)
      BY <1>6 DEF Heard
    <2> QED
      BY <1>d, <2>1
  <1>7. CASE \E m \in mail : \E c : c.what \notin Making /\ running' = running \cup {c} /\ mail' \in {mail \ {m}, (mail \ {m}) \cup {Aside}}
    <2>1. Aside.what \notin Made
      BY AsideIs, MakingIs
    <2>2. A(running') \subseteq A(running) /\ B(mail') \subseteq B(mail)
      BY <1>7, <2>1
    <2> QED
      BY <1>d, <2>2
  <1>8. CASE \E m \in mail : mail' = (mail \ {m}) \cup {Aside} /\ UNCHANGED running
    <2>1. Aside.what \notin Made
      BY AsideIs, MakingIs
    <2>2. A(running') \subseteq A(running) /\ B(mail') \subseteq B(mail)
      BY <1>8, <2>1
    <2> QED
      BY <1>d, <2>2
  <1> QED
    BY <1>1, <1>2, <1>3, <1>4, <1>5, <1>6, <1>7, <1>8 DEF Sends

\* The row that a message brings is no longer owed once it is heard.
LEMMA HeardOwed ==
  ASSUME OutInv, NEW m \in mail, m.what \in Made, Heard(m), view' = view
  PROVE  Owed' = Owed - 1
  <1> DEFINE A == {c \in running : c.what \in Making}
             B(s) == {n \in s : n.what \in Made}
  <1>1. running' = running /\ mail' = mail \ {m} /\ Making' = Making /\ Made' = Made
    BY DEF Heard, Making, Made
  <1>2. IsFiniteSet(B(mail)) /\ Cardinality(A) \in Nat
    BY OwedIs DEF OutInv
  <1>3. B(mail') = B(mail) \ {m} /\ m \in B(mail)
    BY <1>1
  <1>4. Cardinality(B(mail')) = Cardinality(B(mail)) - 1 /\ Cardinality(B(mail)) \in Nat
    BY <1>2, <1>3, Lost
  <1> QED
    BY <1>1, <1>2, <1>4 DEF Owed

-----------------------------------------------------------------------------
(***************************************************************************)
(* The swarm and the snapshot                                              *)
(***************************************************************************)
LEMMA SetIs ==
  ASSUME Clustered, NEW n, NEW is \in 0..2, world' = [world EXCEPT ![n] = is], snapshot' \in {world', snapshot}
  PROVE  Clustered'
  <1>1. world' \in Worlds
    BY DEF Clustered, Worlds
  <1> QED
    BY <1>1 DEF Clustered

LEMMA DoesIs ==
  ASSUME Clustered, NEW c, NEW S \in SUBSET (0..2), Does(c, S)
  PROVE  Clustered'
  <1>1. PICK is \in S : world' = [world EXCEPT ![c.on] = is] /\ snapshot' \in {world', snapshot}
    BY DEF Does
  <1> QED
    BY <1>1, SetIs

LEMMA StacksClustered ==
  ASSUME Clustered, StacksOperator \/ StacksTick \/ StacksProgram
  PROVE  Clustered'
  <1>1. (StacksMove \/ DeleteStack \/ EditStack \/ SaveStack \/ NewStack \/ SaveDialogKey \/
        CreateDialogKey \/ FileBrowserKey \/ StacksTick
          \/ StacksAnswer \/ StackAnswered)
        => UNCHANGED cluster
    BY DEF StacksMove, DeleteStack, EditStack, SaveStack, NewStack, StacksAnswer, StackAnswered, AnswerKey,
      SaveDialogKey, CreateDialogKey, FileBrowserKey, StacksTick, Tick, cluster
  <1>2. (RunLoadStacks \/ RunStacksOther \/ StacksLoaded \/ StackDeleteIntent \/ Deployed \/
        StackFailed \/ Edited \/ SavedOrBrowsed \/ OpenStacks \/ ReturnToStacks)
        => UNCHANGED cluster
    BY DEF RunLoadStacks, RunStacksOther, StacksLoaded, StackDeleteIntent, Deployed,
      StackFailed, Edited, SavedOrBrowsed, OpenStacks, ReturnToStacks, Enter, ReEnter, cluster
  <1>3. CASE RunRemoveStack
    <2>1. /\ world' = world \/ \E n : world' = [world EXCEPT ![n] = 0] \/ world' = [world EXCEPT ![n] = 1]
          /\ snapshot' \in {world', snapshot}
      BY <1>3 DEF RunRemoveStack
    <2> QED
      BY <2>1, SetIs DEF Clustered
  <1>4. CASE RunDeploy
    <2>1. UNCHANGED cluster \/ \E c : Does(c, 1..2)
      BY <1>4 DEF RunDeploy
    <2> QED
      BY <2>1, DoesIs DEF Clustered, cluster
  <1> QED
    BY <1>1, <1>2, <1>3, <1>4 DEF Clustered, cluster, StacksOperator, StacksProgram

LEMMA ServicesClustered ==
  ASSUME Clustered, ServicesOperator \/ ServicesTick \/ ServicesProgram
  PROVE  Clustered'
  <1>1. (ServicesMove \/ AskService \/ ServicesTick
          \/ ServicesAnswer \/ ScaleAnswer \/
              ServiceAnswered \/ ScaleAnswered)
        => UNCHANGED cluster
    BY DEF ServicesMove, AskService, ServicesAnswer, ServiceAnswered, ScaleAnswered, AnswerKey, ScaleAnswer, ServicesTick, Tick, cluster
  <1>2. (RunCheckServices \/ ServicesLoaded \/ ServiceFailed \/ ToStacks \/ OpenServices \/
        ReturnToServices)
        => UNCHANGED cluster
    BY DEF RunCheckServices, ServicesLoaded, ServiceFailed, ToStacks, OpenServices,
      ReturnToServices, Enter, ReEnter, cluster
  <1>3. CASE RunServiceOp
    <2>1. UNCHANGED cluster \/ \E c : Does(c, {0}) \/ Does(c, 1..2)
      BY <1>3 DEF RunServiceOp
    <2> QED
      BY <2>1, DoesIs DEF Clustered, cluster
  <1> QED
    BY <1>1, <1>2, <1>3 DEF Clustered, cluster, ServicesOperator, ServicesProgram

LEMMA NodesClustered ==
  ASSUME Clustered, NodesOperator \/ NodesTick \/ NodesProgram
  PROVE  Clustered'
  <1>1. (NodesMove \/ AskNode \/ AvailabilityKey \/ LabelKey \/ UnlabelKey \/ NodesTick \/ NodesAnswer \/ NodeAnswered)
        => UNCHANGED cluster
    BY DEF NodesMove, AskNode, NodesAnswer, NodeAnswered, AnswerKey, AvailabilityKey, LabelKey, UnlabelKey, NodesTick,
      Tick, cluster
  <1>2. (RunLoadNodes \/ NodesLoaded \/ NodeDone \/ NodeFailed \/ OpenNodes \/ ReturnToNodes)
        => UNCHANGED cluster
    BY DEF RunLoadNodes, NodesLoaded, NodeDone, NodeFailed, OpenNodes, ReturnToNodes,
      EnterEmpty, ReEnter, Enter, cluster
  <1>3. CASE RunNodeOp
    <2>1. \/ UNCHANGED cluster
          \/ \E c : c.on \in Holds(world) /\ \E is \in {0, 1, 2, world[c.on]} : Does(c, {is})
      BY <1>3 DEF RunNodeOp
    <2>2. \A n \in Holds(world) : {0, 1, 2, world[n]} \subseteq 0..2
      BY DEF Holds, Clustered, Worlds
    <2>3. CASE UNCHANGED cluster
      BY <2>3 DEF Clustered, cluster
    <2>4. ASSUME NEW c, c.on \in Holds(world), NEW is \in {0, 1, 2, world[c.on]}, Does(c, {is})
          PROVE  Clustered'
      BY <2>2, <2>4, DoesIs
    <2> QED
      BY <2>1, <2>3, <2>4
  <1>4. CASE ChangeRole
    BY <1>4 DEF ChangeRole, Clustered
  <1> QED
    BY <1>1, <1>2, <1>3, <1>4 DEF Clustered, cluster, NodesOperator, NodesProgram

LEMMA TasksClustered ==
  ASSUME Clustered, SortTasks \/ TasksTick \/ TasksProgram
  PROVE  Clustered'
  <1>1. (SortTasks \/ TasksTick)
        => UNCHANGED cluster
    BY DEF SortTasks, TasksTick, Tick, cluster
  <1>2. (RunLoadTasks \/ TasksLoaded \/ TasksNotLoaded \/ OpenTasks \/ ReturnToTasks)
        => UNCHANGED cluster
    BY DEF RunLoadTasks, TasksLoaded, TasksNotLoaded, OpenTasks, ReturnToTasks, EnterEmpty,
      ReEnter, Enter, cluster
  <1> QED
    BY <1>1, <1>2 DEF Clustered, cluster, TasksProgram

LEMMA VolumesClustered ==
  ASSUME Clustered, VolumesOperator \/ VolumesTick \/ VolumesProgram
  PROVE  Clustered'
  <1>1. (VolumesMove \/ DismissVolumesError \/ VolumeAction \/ VolumesTick)
        => UNCHANGED cluster
    BY DEF VolumesMove, DismissVolumesError, VolumeAction, VolumesTick, Tick, cluster
  <1>2. (RunLoadVolumes \/ VolumesLoaded \/ VolumesNotLoaded \/ OpenVolumes \/ ReturnToVolumes)
        => UNCHANGED cluster
    BY DEF RunLoadVolumes, VolumesLoaded, VolumesNotLoaded, OpenVolumes, ReturnToVolumes,
      EnterEmpty, ReEnter, Enter, cluster
  <1> QED
    BY <1>1, <1>2 DEF Clustered, cluster, VolumesOperator, VolumesProgram

LEMMA NetworksClustered ==
  ASSUME Clustered, NetworksOperator \/ NetworksTick \/ NetworksProgram
  PROVE  Clustered'
  <1>1. (NetworksMove \/ AskNetwork \/ NewNetwork \/ CreateNetworkKey \/ UsedByNetwork \/
        UsedByKey \/ DismissNetworksError \/ NetworksTick
          \/ \E yes \in BOOLEAN : NetworksAnswer(yes))
        => UNCHANGED cluster
    BY DEF NetworksMove, AskNetwork, NewNetwork, CreateNetworkKey, UsedByNetwork, UsedByKey,
      DismissNetworksError, NetworksAnswer, NetworksTick, Tick, cluster
  <1>2. (RunLoadNetworks \/ RunNetworkUsage \/ NetworksLoaded \/ NetworksNotLoaded \/
        UsageKnown \/ NetworkDone \/ NetworkFailed \/ UsedByLoaded \/ OpenNetworks \/
        ReturnToNetworks)
        => UNCHANGED cluster
    BY DEF RunLoadNetworks, RunNetworkUsage, NetworksLoaded, NetworksNotLoaded, UsageKnown,
      NetworkDone, NetworkFailed, UsedByLoaded, OpenNetworks, ReturnToNetworks, EnterEmpty,
      ReEnter, Enter, cluster
  <1>3. CASE RunNetworkOp
    <2>1. \/ world' = world
          \/ world' = [n \in Names |-> IF world[n] = 1 THEN 0 ELSE world[n]]
          \/ \E n : world' = [world EXCEPT ![n] = 0] \/ world' = [world EXCEPT ![n] = 1]
      BY <1>3 DEF RunNetworkOp
    <2>2. UNCHANGED snapshot
      BY <1>3 DEF RunNetworkOp
    <2>3. [n \in Names |-> IF world[n] = 1 THEN 0 ELSE world[n]] \in Worlds
      BY DEF Clustered, Worlds
    <2> QED
      BY <2>1, <2>2, <2>3, SetIs DEF Clustered
  <1> QED
    BY <1>1, <1>2, <1>3 DEF Clustered, cluster, NetworksOperator, NetworksProgram

LEMMA ConfigsClustered ==
  ASSUME Clustered, ConfigsOperator \/ ConfigsTick \/ ConfigsProgram
  PROVE  Clustered'
  <1>1. (ConfigsMove \/ AskDeleteConfig \/ EditConfig \/ UsedByConfig \/ NewConfig \/
        CreateConfigKey \/ BrowseConfigKey \/ DismissConfigs \/ ConfigsTick \/ ConfigsAnswer \/ ConfigAnswered)
        => UNCHANGED cluster
    BY DEF ConfigsMove, AskDeleteConfig, EditConfig, UsedByConfig, NewConfig, CreateConfigKey,
      BrowseConfigKey, DismissConfigs, ConfigsAnswer, ConfigAnswered, AnswerKey, ConfigsTick, Tick, cluster
  <1>2. (RunLoadConfigs \/ RunConfigsOther \/ ConfigsLoaded \/ ConfigDone \/ ConfigEdited \/
        ConfigFailed \/ ConfigsOtherDone \/ OpenConfigs \/ ReturnToConfigs)
        => UNCHANGED cluster
    BY DEF RunLoadConfigs, RunConfigsOther, ConfigsLoaded, ConfigDone, ConfigEdited,
      ConfigFailed, ConfigsOtherDone, OpenConfigs, ReturnToConfigs, EnterEmpty, ReEnter, Enter,
      cluster
  <1>3. CASE RunConfigOp
    <2>1. \/ world' = world
          \/ \E n : world' = [world EXCEPT ![n] = 0] \/ world' = [world EXCEPT ![n] = 1]
      BY <1>3 DEF RunConfigOp
    <2>2. UNCHANGED snapshot
      BY <1>3 DEF RunConfigOp
    <2> QED
      BY <2>1, <2>2, SetIs DEF Clustered
  <1> QED
    BY <1>1, <1>2, <1>3 DEF Clustered, cluster, ConfigsOperator, ConfigsProgram

LEMMA SecretsClustered ==
  ASSUME Clustered, SecretsOperator \/ SecretsTick \/ SecretsProgram
  PROVE  Clustered'
  <1>1. (SecretsMove \/ AskDeleteSecret \/ UsedBySecret \/ RevealSecret \/ NewSecret \/
        CreateSecretKey \/ BrowseSecretKey \/ DismissSecrets \/ SecretsTick \/ SecretsAnswer \/ SecretAnswered)
        => UNCHANGED cluster
    BY DEF SecretsMove, AskDeleteSecret, UsedBySecret, RevealSecret, NewSecret,
      CreateSecretKey, BrowseSecretKey, DismissSecrets, SecretsAnswer, SecretAnswered, AnswerKey, SecretsTick, Tick,
      cluster
  <1>2. (RunLoadSecrets \/ RunSecretsOther \/ SecretsLoaded \/ SecretDeleted \/ SecretCreated
        \/ SecretFailed \/ SecretsOtherDone \/ OpenSecrets \/ ReturnToSecrets)
        => UNCHANGED cluster
    BY DEF RunLoadSecrets, RunSecretsOther, SecretsLoaded, SecretDeleted, SecretCreated,
      SecretFailed, SecretsOtherDone, OpenSecrets, ReturnToSecrets, EnterEmpty, ReEnter, Enter,
      cluster
  <1>3. CASE RunSecretOp
    <2>1. \/ world' = world
          \/ \E n : world' = [world EXCEPT ![n] = 0] \/ world' = [world EXCEPT ![n] = 1]
      BY <1>3 DEF RunSecretOp
    <2>2. UNCHANGED snapshot
      BY <1>3 DEF RunSecretOp
    <2> QED
      BY <2>1, <2>2, SetIs DEF Clustered
  <1> QED
    BY <1>1, <1>2, <1>3 DEF Clustered, cluster, SecretsOperator, SecretsProgram

LEMMA ContextsClustered ==
  ASSUME Clustered, ContextsOperator \/ ContextsTick \/ ContextsProgram
  PROVE  Clustered'
  <1>1. (ContextsMove \/ ClearContextsFilter \/ SwitchContext \/ DeleteOrExport \/
        OpenContextForm \/ CreateContextKey \/ EditContextKey \/ CertKey \/ BrowseContextKey \/
        DismissContextsError \/ ContextsTick
          \/ ContextsAnswer \/ ContextAnswered)
        => UNCHANGED cluster
    BY DEF ContextsMove, ClearContextsFilter, SwitchContext, DeleteOrExport, OpenContextForm,
      CreateContextKey, EditContextKey, CertKey, BrowseContextKey, DismissContextsError,
      ContextsAnswer, ContextAnswered, AnswerKey, ContextsTick, Tick, cluster
  <1>2. (RunLoadContexts \/ RunContextFiles \/ ContextsLoaded \/ ContextDone \/ ContextFailed
        \/ ExportExists \/ ContextFilesLoaded \/ GoElsewhere \/ OpenContexts \/
        ReturnToContexts)
        => UNCHANGED cluster
    BY DEF RunLoadContexts, RunContextFiles, ContextsLoaded, ContextDone, ContextFailed,
      ExportExists, ContextFilesLoaded, GoElsewhere, OpenContexts, ReturnToContexts,
      EnterEmpty, ReEnter, Enter, cluster
  <1>3. CASE RunContextOp
    <2>1. \/ world' = world
          \/ \E n : world' = InUse(n) \/ world' = [world EXCEPT ![n] = 0] \/ world' = [world EXCEPT ![n] = 1]
      BY <1>3 DEF RunContextOp
    <2>2. UNCHANGED snapshot
      BY <1>3 DEF RunContextOp
    <2>3. \A n : InUse(n) \in Worlds
      BY DEF Clustered, Worlds, InUse
    <2> QED
      BY <2>1, <2>2, <2>3, SetIs DEF Clustered
  <1> QED
    BY <1>1, <1>2, <1>3 DEF Clustered, cluster, ContextsOperator, ContextsProgram

LEMMA ChartsClustered ==
  ASSUME Clustered, ChartsOperator \/ ChartsTick \/ ChartsProgram
  PROVE  Clustered'
  <1>1. (ChartsMove \/ StepRow \/ ExpandRow \/ BlockedAction \/ DismissCharts \/ ChartsAnswer \/ ChartsAnswered \/ ChartsTick)
        => UNCHANGED cluster
    BY DEF ChartsMove, StepRow, ExpandRow, BlockedAction, DismissCharts, ChartsAnswer, ChartsAnswered, AnswerKey, ChartsTick, cluster
  <1>2. (RunReadReleases \/ PollRetry \/ ReleasesLoaded \/ ReleasesNotLoaded \/ OpenCharts \/
        ReturnToCharts)
        => UNCHANGED cluster
    BY DEF RunReadReleases, PollRetry, ReleasesLoaded, ReleasesNotLoaded, OpenCharts,
      ReturnToCharts, EnterEmpty, ReEnter, Enter, cluster
  <1> QED
    BY <1>1, <1>2 DEF Clustered, cluster, ChartsOperator, ChartsProgram

-----------------------------------------------------------------------------
(***************************************************************************)
(* Every step                                                              *)
(***************************************************************************)

\* No step turns to another view, or takes more than one event.
Counts == view' = view /\ (UNCHANGED events \/ Happens)

LEMMA KeepsCounts == Keeps \/ Enter \/ ReEnter => Counts
  BY DEF Keeps, Enter, ReEnter, Counts, bounds

LEMMA TickCounts ==
  ASSUME NEW g, NEW checks, Tick(g, checks)
  PROVE  Counts
  BY DEF Tick, Counts, screen, bounds

LEMMA TicksCount == Ticks /\ ~ChartsTick => Counts
  BY TickCounts DEF Ticks, StacksTick, ServicesTick, NodesTick, TasksTick, VolumesTick, NetworksTick,
    ConfigsTick, SecretsTick, ContextsTick

LEMMA ChartsCount ==
  ASSUME Asking, ChartsOperator \/ ChartsTick \/ ChartsProgram
  PROVE  Counts
  <1>1. CASE ChartsOperator
    BY <1>1, ChartsOperatorKeeps, KeepsCounts
  <1>2. CASE ChartsTick \/ ChartsProgram
    BY <1>2 DEF ChartsTick, ChartsProgram, RunReadReleases, PollRetry, ChartsAnswered, ReleasesLoaded,
      ReleasesNotLoaded, OpenCharts, ReturnToCharts, EnterEmpty, Enter, ReEnter, ReadFails, Counts, screen,
      bounds
  <1> QED
    BY <1>1, <1>2

\* What is done to the view from outside of it.
Outside ==
  \/ Leave(view \in {"stacks", "services", "nodes"})
  \/ Change \/ Refresh
  \/ \E m \in mail : Dropped(m)

LEMMA OutsideCounts == Outside => Counts
  BY DEF Outside, Leave, Change, Refresh, Dropped, Counts, screen, bounds

LEMMA NextCounts ==
  ASSUME Asking, Next
  PROVE  Counts
  BY KeepsCounts, TicksCount, ChartsCount, OutsideCounts, StacksKeep, ServicesKeep, NodesKeep, TasksKeep,
     VolumesKeep, NetworksKeep, ConfigsKeep, SecretsKeep, ContextsKeep DEF Next, Ticks, Outside, ChartsTick

LEMMA OutsideClustered ==
  ASSUME Clustered, Outside
  PROVE  Clustered'
  <1>1. CASE Leave(view \in {"stacks", "services", "nodes"}) \/ Refresh \/ \E m \in mail : Dropped(m)
    BY <1>1 DEF Leave, Refresh, Dropped, cluster, Clustered
  <1>2. CASE Change
    <2>1. PICK n \in Names, is \in 0..2 : world' = [world EXCEPT ![n] = is] /\ UNCHANGED snapshot
      BY <1>2 DEF Change
    <2> QED
      BY <2>1, SetIs
  <1> QED
    BY <1>1, <1>2 DEF Outside

LEMMA NextClustered ==
  ASSUME Clustered, Next
  PROVE  Clustered'
  BY OutsideClustered, StacksClustered, ServicesClustered, NodesClustered, TasksClustered, VolumesClustered,
     NetworksClustered, ConfigsClustered, SecretsClustered, ContextsClustered, ChartsClustered DEF Next, Outside

LEMMA OutsideSends ==
  ASSUME Outside
  PROVE  Sends
  <1>1. CASE Leave(view \in {"stacks", "services", "nodes"}) \/ Change \/ Refresh
    BY <1>1, SameSends DEF Leave, Change, Refresh, out
  <1>2. CASE \E m \in mail : Dropped(m)
    BY <1>2, HeardSends DEF Dropped
  <1> QED
    BY <1>1, <1>2 DEF Outside

LEMMA NextSends ==
  ASSUME Listing, Clustered, Asking, Calls, Pended, Next
  PROVE  Sends
  BY NextClustered, OutsideSends, StacksSend, ServicesSend, NodesSend, TasksSend, VolumesSend, NetworksSend,
     ConfigsSend, SecretsSend, ContextsSend, ChartsSend DEF Next, Outside

LEMMA OutsideKeeps ==
  ASSUME Listing, Outside
  PROVE  UNCHANGED <<list, asking>>
  BY DEF Outside, Leave, Change, Refresh, Dropped

\* While the view is there, the panel the file browser goes back to is one of the two.
Backs == view = "stacks" /\ place \in {"on", "under"} => StacksBack

LEMMA NextAsking ==
  ASSUME Listing, Asking, Calls, Backs, Next
  PROVE  Asking'
  <1>1. CASE Outside
    BY <1>1, OutsideKeeps DEF asking, Asking
  <1>2. CASE view = "stacks" /\ (StacksOperator \/ StacksTick \/ StacksProgram)
    BY <1>2, StacksAsking DEF Backs
  <1> QED
    BY <1>1, <1>2, ServicesAsking, NodesAsking, TasksAsking, VolumesAsking, NetworksAsking,
       ConfigsAsking, SecretsAsking, ContextsAsking, ChartsAsking DEF Next, Outside

\* Only the opening of the view, and the two panels the browser is opened from, choose it.
LEMMA StacksBacks ==
  ASSUME Asking, Backs, view = "stacks", StacksOperator \/ StacksTick \/ StacksProgram
  PROVE  Backs'
  <1> USE DEF Asking
  <1>1. CASE UNCHANGED form /\ view' = view /\ place' = place
    BY <1>1 DEF Backs, StacksBack
  <1>2. CASE form'.for \in {form.for, "create", "save"} /\ view' = view /\ place' = place
    BY <1>2 DEF Backs, StacksBack
  <1>3. CASE StacksTick \/ StacksMove \/ DeleteStack \/ EditStack \/ RunLoadStacks \/ RunRemoveStack \/
             RunDeploy \/ RunStacksOther \/ StacksLoaded \/ StackDeleteIntent
    BY <1>1, <1>3 DEF StacksTick, StacksMove, DeleteStack, EditStack, RunLoadStacks, RunRemoveStack,
      RunDeploy, RunStacksOther, StacksLoaded, StackDeleteIntent, Tick, asking, screen
  <1>4. CASE SaveStack \/ NewStack \/ StacksAnswer \/ StackAnswered
    BY <1>2, <1>4 DEF SaveStack, NewStack, StacksAnswer, AnswerKey, StackAnswered, With, Opened, screen, IsForm
  <1>5. CASE SaveDialogKey
    BY <1>2, <1>5 DEF SaveDialogKey, Shuts, Shut, With, screen, IsForm
  <1>6. CASE CreateDialogKey
    BY <1>2, <1>6 DEF CreateDialogKey, CreateSourceKey, CreateFileKey, CreateInlineKey, DeploysNew, Shuts,
      Shut, With, screen, IsForm
  <1>7. CASE FileBrowserKey \/ Deployed \/ Edited
    BY <1>2, <1>7 DEF FileBrowserKey, Deployed, Edited, Opened, Idle, Busy, Shut, With, screen, IsForm
  <1>8. CASE StackFailed \/ SavedOrBrowsed
    BY <1>2, <1>8 DEF StackFailed, SavedOrBrowsed, Opened, Idle, Shut, With, screen, IsForm
  <1>9. CASE OpenStacks
    BY <1>9 DEF OpenStacks, Closed, Backs, StacksBack
  <1>10. CASE ReturnToStacks
    BY <1>10 DEF ReturnToStacks, ReEnter, asking, Backs, StacksBack
  <1> QED
    BY <1>3, <1>4, <1>5, <1>6, <1>7, <1>8, <1>9, <1>10 DEF StacksOperator, StacksProgram

LEMMA NextBacks ==
  ASSUME Listing, Asking, Backs, Next
  PROVE  Backs'
  <1>1. CASE Outside
    BY <1>1 DEF Outside, Leave, Change, Refresh, Dropped, asking, screen, Backs, StacksBack
  <1>2. CASE view = "stacks" /\ ~Outside
    BY <1>2, StacksBacks DEF Next, Outside
  <1>3. CASE view # "stacks"
    BY <1>3, NextCounts DEF Counts, Backs
  <1> QED
    BY <1>1, <1>2, <1>3

\* What brings a row is about a name.
Rowed == \A c \in running \cup mail : c.what \in {"create", "edited", "created"} => c.on \in Names

LEMMA ConfigsRowed ==
  ASSUME Listing, Asking, Rowed, view = "configs", ConfigsOperator \/ ConfigsTick \/ ConfigsProgram
  PROVE  Rowed'
  <1> USE DEF Asking, Rowed
  <1>1. CASE ConfigsMove \/ AskDeleteConfig \/ NewConfig \/ DismissConfigs
    BY <1>1 DEF ConfigsMove, AskDeleteConfig, NewConfig, DismissConfigs, out
  <1>2. CASE EditConfig \/ UsedByConfig
    BY <1>2 DEF EditConfig, UsedByConfig, Begin, Cmd, out
  <1>3. CASE CreateConfigKey
    BY <1>3 DEF CreateConfigKey, ConfigSourceKey, ConfigFileKey, ConfigInlineKey, CreatesConfig, Begin, Cmd, out
  <1>4. CASE BrowseConfigKey
    BY <1>4 DEF BrowseConfigKey, Begin, Cmd, out
  <1>5. CASE ConfigsAnswer
    BY <1>5 DEF ConfigsAnswer, AnswerKey, Cmd
  <1>13. CASE ConfigAnswered
    BY <1>13 DEF ConfigAnswered, Heard, HeardAndBegun, Cmd, IsForm, NamesOrNobody
  <1>6. CASE ConfigsTick
    BY <1>6 DEF ConfigsTick, Tick, Check, Saw, out
  <1>7. CASE RunLoadConfigs
    BY <1>7 DEF RunLoadConfigs, Reads, ReadFails, Runs, Answers, Saw, Cmd
  <1>8. CASE RunConfigOp
    BY <1>8 DEF RunConfigOp, Answers, Cmd
  <1>9. CASE RunConfigsOther
    BY <1>9 DEF RunConfigsOther, Answers, Cmd
  <1>10. CASE ConfigsLoaded \/ ConfigEdited \/ ConfigFailed \/ ConfigsOtherDone
    BY <1>10 DEF ConfigsLoaded, ConfigEdited, ConfigFailed, ConfigsOtherDone, Heard
  <1>11. CASE ConfigDone
    BY <1>11 DEF ConfigDone, HeardAndBegun, Load, Cmd
  <1>12. CASE OpenConfigs \/ ReturnToConfigs
    BY <1>12 DEF OpenConfigs, ReturnToConfigs, EnterEmpty, Begin, Load, Cmd
  <1> QED
    BY <1>1, <1>2, <1>3, <1>4, <1>5, <1>6, <1>7, <1>8, <1>9, <1>10, <1>11, <1>12, <1>13
       DEF ConfigsOperator, ConfigsProgram

LEMMA SecretsRowed ==
  ASSUME Listing, Asking, Rowed, view = "secrets", SecretsOperator \/ SecretsTick \/ SecretsProgram
  PROVE  Rowed'
  <1> USE DEF Asking, Rowed
  <1>1. CASE SecretsMove \/ AskDeleteSecret \/ NewSecret \/ RevealSecret \/ DismissSecrets
    BY <1>1 DEF SecretsMove, AskDeleteSecret, NewSecret, RevealSecret, DismissSecrets, out
  <1>2. CASE UsedBySecret
    BY <1>2 DEF UsedBySecret, Begin, Cmd, out
  <1>3. CASE CreateSecretKey
    BY <1>3 DEF CreateSecretKey, SecretSourceKey, SecretFileKey, SecretInlineKey, CreatesSecret, Begin, Cmd, out
  <1>4. CASE BrowseSecretKey
    BY <1>4 DEF BrowseSecretKey, Begin, Cmd, out
  <1>5. CASE SecretsAnswer
    BY <1>5 DEF SecretsAnswer, AnswerKey, Cmd
  <1>13. CASE SecretAnswered
    BY <1>13 DEF SecretAnswered, Heard, HeardAndBegun, Cmd
  <1>6. CASE SecretsTick
    BY <1>6 DEF SecretsTick, SecretsChecks, Tick, Check, Saw, out
  <1>7. CASE RunLoadSecrets
    BY <1>7 DEF RunLoadSecrets, Reads, ReadFails, Runs, Answers, Saw, Cmd
  <1>8. CASE RunSecretOp
    BY <1>8 DEF RunSecretOp, Answers, Cmd
  <1>9. CASE RunSecretsOther
    BY <1>9 DEF RunSecretsOther, Answers, Cmd
  <1>10. CASE SecretsLoaded \/ SecretCreated \/ SecretFailed \/ SecretsOtherDone
    BY <1>10 DEF SecretsLoaded, SecretCreated, SecretFailed, SecretsOtherDone, Heard
  <1>11. CASE SecretDeleted
    BY <1>11 DEF SecretDeleted, HeardAndBegun, Load, Cmd
  <1>12. CASE OpenSecrets \/ ReturnToSecrets
    BY <1>12 DEF OpenSecrets, ReturnToSecrets, EnterEmpty, Begin, Load, Cmd
  <1> QED
    BY <1>1, <1>2, <1>3, <1>4, <1>5, <1>6, <1>7, <1>8, <1>9, <1>10, <1>11, <1>12, <1>13
       DEF SecretsOperator, SecretsProgram

RowedInv == (view \in {"configs", "secrets"} => Rowed) /\ Pended

LEMMA NextRowed ==
  ASSUME Listing, Asking, RowedInv, Next
  PROVE  RowedInv'
  <1>1. view' = view
    BY NextCounts DEF Counts
  <1>2. CASE Outside
    BY <1>1, <1>2 DEF Outside, Leave, Change, Refresh, Dropped, Heard, out, asking, RowedInv, Rowed, Pended
  <1>3. CASE view = "configs" /\ ~Outside
    BY <1>1, <1>3, ConfigsRowed, ConfigsPended DEF Next, Outside, RowedInv, Pended
  <1>4. CASE view # "configs" /\ ~Outside
    BY <1>1, <1>4, SecretsRowed DEF Next, Outside, RowedInv, Pended
  <1> QED
    BY <1>2, <1>3, <1>4

Six == {"stacks", "services", "nodes", "configs", "secrets", "charts"}

\* What is known of the list, by view.
ListInv ==
  /\ Listing /\ cursor \in Nat
  /\ view \in Six => OnARow
  /\ view \in {"volumes", "charts"} => AsTold

\* A row that the program adds itself.
LEMMA AddedIs ==
  ASSUME Listing, cursor \in Nat, Rowed, OutInv, view \in {"configs", "secrets"}, view' = view,
         ConfigEdited \/ SecretCreated
  PROVE  /\ Listing' /\ OnARow' /\ UNCHANGED events
         /\ Len(entries') <= Len(items) + 1 /\ Len(items') = Len(items) + 1
         /\ Owed' = Owed - 1
  <1>1. PICK m \in mail : m.what \in Made /\ Heard(m) /\ Adds(m.on) /\ m.what \in {"edited", "created"}
    BY DEF ConfigEdited, SecretCreated, Hears, Made
  <1>2. UNCHANGED <<ascending, query, seen, events>> /\ KeepsRow
    BY DEF ConfigEdited, SecretCreated, bounds
  <1>3. m.on \in Names
    BY <1>1 DEF Rowed
  <1>4. /\ Listing'
        /\ Len(entries') <= Len(items) + 1 /\ Len(items') = Len(items) + 1
    BY <1>1, <1>2, <1>3, AddsIs
  <1>5. OnARow'
    BY <1>2, <1>4, KeepsRowIs DEF Listing
  <1>6. Owed' = Owed - 1
    BY <1>1, HeardOwed
  <1> QED
    BY <1>2, <1>4, <1>5, <1>6

LEMMA NextList ==
  ASSUME ListInv, Clustered, Asking, Calls, Next, ~ConfigEdited, ~SecretCreated
  PROVE  /\ Kept
         /\ view \in Six => OnARow'
         /\ view \in {"volumes", "charts"} => AsTold'
  <1> USE DEF ListInv, Six, Clustered
  <1>0. Listing /\ cursor \in Nat
    OBVIOUS
  <1>1. CASE Outside
    BY <1>1, OutsideKeeps, SameKeeps
  <1>2. CASE view = "stacks" /\ ~Outside
    BY <1>2, StacksList DEF Next, Outside
  <1>3. CASE view = "services" /\ ~Outside
    BY <1>3, ServicesList DEF Next, Outside
  <1>4. CASE view = "nodes" /\ ~Outside
    BY <1>4, NodesList DEF Next, Outside
  <1>5. CASE view = "tasks" /\ ~Outside
    BY <1>5, TasksList DEF Next, Outside
  <1>6. CASE view = "volumes" /\ ~Outside
    BY <1>6, VolumesList DEF Next, Outside
  <1>7. CASE view = "networks" /\ ~Outside
    BY <1>7, NetworksList DEF Next, Outside
  <1>8. CASE view = "configs" /\ ~Outside
    BY <1>8, ConfigsList DEF Next, Outside
  <1>9. CASE view = "secrets" /\ ~Outside
    BY <1>9, SecretsList DEF Next, Outside
  <1>10. CASE view = "contexts" /\ ~Outside
    BY <1>10, ContextsList DEF Next, Outside
  <1>11. CASE view = "charts" /\ ~Outside
    BY <1>11, ChartsList DEF Next, Outside
  <1> QED
    BY <1>1, <1>2, <1>3, <1>4, <1>5, <1>6, <1>7, <1>8, <1>9, <1>10, <1>11 DEF Next, Outside

LEMMA NextListing ==
  ASSUME ListInv, Clustered, Asking, OutInv, RowedInv, Next
  PROVE  ListInv'
  <1>1. view' = view
    BY NextCounts DEF Counts
  <1>2. Calls
    BY DEF OutInv
  <1>3. CASE ~ConfigEdited /\ ~SecretCreated
    BY <1>1, <1>2, <1>3, NextList, KeptIs DEF ListInv
  <1>4. CASE ConfigEdited \/ SecretCreated
    <2>1. view \in {"configs", "secrets"}
      BY <1>4 DEF ConfigEdited, SecretCreated
    <2>2. Listing' /\ OnARow'
      BY <1>1, <1>4, <2>1, AddedIs DEF ListInv, RowedInv
    <2>3. cursor' \in Nat
      BY <2>2 DEF OnARow, Listing
    <2> QED
      BY <1>1, <2>1, <2>2, <2>3 DEF ListInv
  <1> QED
    BY <1>3, <1>4

LEMMA OwedNat == OutInv => Owed \in Nat
  BY OwedIs DEF OutInv

LEMMA OwedNatNext == OutInv' => (Owed \in Nat)'
  BY OwedNat, PTL

\* No more rows, with those to come, than there are names and were events.
Fits ==
  /\ Owed <= events
  /\ Len(entries) + Owed <= Cardinality(Names) + events /\ Len(items) + Owed <= Cardinality(Names) + events
  /\ cursor <= 1 \/ cursor <= Cardinality(Names) + events

LEMMA NextFits ==
  ASSUME ListInv, Clustered, Asking, OutInv, RowedInv, events \in Nat, Fits, Next
  PROVE  Fits'
  <1> DEFINE C == Cardinality(Names)
             k == C + events - Owed
  <1>1. view' = view /\ events' \in {events, events + 1}
    BY NextCounts DEF Counts, Happens
  <1>2. Calls /\ Sends /\ Listing /\ cursor \in Nat
    BY NextSends DEF OutInv, ListInv, RowedInv
  <1>3. OutInv'
    BY <1>1, <1>2, SendsOut
  <1>4. Owed \in Nat /\ Owed' \in Nat
    BY <1>3, OwedNat, OwedNatNext
  <1>5. Owed' <= Owed + (events' - events)
    BY <1>1, <1>2, SendsOwed
  <1>6. Owed' <= events' /\ events' \in Nat /\ events <= events'
    <2>1. Owed <= events
      BY DEF Fits
    <2>2. CASE events' = events
      BY <1>4, <1>5, <2>1, <2>2
    <2>3. CASE events' = events + 1
      BY <1>4, <1>5, <2>1, <2>3
    <2> QED
      BY <1>1, <2>2, <2>3
  <1>7. C \in Nat /\ Len(entries) \in Nat /\ Len(items) \in Nat
    BY <1>2, FiniteNames DEF Listing
  <1>8. Listing'
    BY NextListing DEF ListInv
  <1>9. Len(entries') \in Nat /\ Len(items') \in Nat /\ entries' \in Seq(Names)
    BY <1>8 DEF Listing
  <1> HIDE DEF C
  <1>10. k \in Nat /\ C <= k /\ Within(k)
    BY <1>4, <1>7 DEF Fits, Within, C
  <1>11. CASE ~ConfigEdited /\ ~SecretCreated
    <2>1. Kept
      BY <1>2, <1>11, NextList
    <2>2. Len(entries') <= k /\ Len(items') <= k
      BY <1>10, <2>1 DEF Kept, Shrinks, Within, C
    <2>3. Len(entries') + Owed' <= C + events' /\ Len(items') + Owed' <= C + events'
      <3>1. CASE events' = events
        BY <1>4, <1>5, <1>7, <1>9, <2>2, <3>1
      <3>2. CASE events' = events + 1
        BY <1>4, <1>5, <1>7, <1>9, <2>2, <3>2
      <3> QED
        BY <1>1, <3>1, <3>2
    <2>4. cursor' \in {0, 1, cursor} \cup DOMAIN entries \cup DOMAIN entries'
      BY <2>1 DEF Kept
    <2>5. cursor' <= 1 \/ cursor' <= C + events'
      <3>1. Len(entries) <= C + events /\ Len(entries') <= C + events'
        BY <1>1, <1>4, <1>7, <1>9, <2>3, SMTT(30) DEF Fits, C
      <3>2. CASE cursor' \in {0, 1}
        BY <3>2
      <3>3. CASE cursor' = cursor
        BY <1>2, <1>6, <1>7, <3>3 DEF Fits, C
      <3>4. CASE cursor' \in DOMAIN entries
        BY <1>2, <1>6, <1>7, <3>1, <3>4 DEF Listing
      <3>5. CASE cursor' \in DOMAIN entries'
        BY <1>6, <1>7, <1>9, <3>1, <3>5
      <3> QED
        BY <2>4, <3>2, <3>3, <3>4, <3>5
    <2> QED
      BY <1>6, <2>3, <2>5 DEF Fits, C
  <1>12. CASE ConfigEdited \/ SecretCreated
    <2>1. view \in {"configs", "secrets"}
      BY <1>12 DEF ConfigEdited, SecretCreated
    <2>2. /\ OnARow' /\ UNCHANGED events
          /\ Len(entries') <= Len(items) + 1 /\ Len(items') = Len(items) + 1
          /\ Owed' = Owed - 1
      BY <1>1, <1>2, <1>12, <2>1, AddedIs DEF RowedInv
    <2>3. Len(entries') + Owed' <= C + events' /\ Len(items') + Owed' <= C + events'
      BY <1>4, <1>7, <1>9, <2>2 DEF Fits, C
    <2>4. cursor' <= 1 \/ cursor' <= C + events'
      BY <1>4, <1>6, <1>7, <1>9, <2>2, <2>3 DEF OnARow
    <2> QED
      BY <1>6, <2>3, <2>4 DEF Fits, C
  <1> QED
    BY <1>11, <1>12

-----------------------------------------------------------------------------
(***************************************************************************)
(* What holds of every view                                                *)
(***************************************************************************)
Shown == visible' \in {visible, TRUE, FALSE}

LEMMA StacksShown == StacksOperator \/ StacksProgram => Shown
  <1>1. StacksOperator => Shown
    BY DEF StacksOperator, StacksMove, DeleteStack, EditStack, SaveStack, NewStack, StacksAnswer, AnswerKey,
      SaveDialogKey, CreateDialogKey, FileBrowserKey, StacksKey, Press, Shown, screen
  <1>2. StacksProgram => Shown
    BY DEF StacksProgram, RunLoadStacks, RunRemoveStack, RunDeploy, RunStacksOther, StacksLoaded,
      StackAnswered, StackDeleteIntent, Deployed, StackFailed, Edited, SavedOrBrowsed, OpenStacks, ReturnToStacks,
      Enter, ReEnter, EnterEmpty, Reads, ReadFails, Shown, screen, bounds
  <1> QED BY <1>1, <1>2

LEMMA ServicesShown == ServicesOperator \/ ServicesProgram => Shown
  <1>1. ServicesOperator => Shown
    BY DEF ServicesOperator, ServicesMove, AskService, ServicesAnswer, ScaleAnswer, AnswerKey,
        ServicesKey, Press, Shown, screen
  <1>2. ServicesProgram => Shown
    BY DEF ServicesProgram, RunCheckServices, RunServiceOp, ServicesLoaded, ServiceAnswered,
        ScaleAnswered, ServiceFailed, ToStacks, OpenServices, ReturnToServices, Enter, ReEnter, EnterEmpty, Reads, ReadFails, Shown, screen,
        bounds
  <1> QED BY <1>1, <1>2

LEMMA NodesShown == NodesOperator \/ NodesProgram => Shown
  <1>1. NodesOperator => Shown
    BY DEF NodesOperator, NodesMove, ChangeRole, AskNode, NodesAnswer, AvailabilityKey, AnswerKey,
        LabelKey, UnlabelKey, NodesKey, Press, Shown, screen
  <1>2. NodesProgram => Shown
    BY DEF NodesProgram, RunLoadNodes, RunNodeOp, NodesLoaded, NodeAnswered, NodeDone, NodeFailed, OpenNodes,
        ReturnToNodes, Enter, ReEnter, EnterEmpty, Reads, ReadFails, Shown, screen, bounds
  <1> QED BY <1>1, <1>2

LEMMA TasksShown == SortTasks \/ TasksProgram => Shown
  <1>1. SortTasks => Shown
    BY DEF SortTasks, Press, Shown, screen
  <1>2. TasksProgram => Shown
    BY DEF TasksProgram, RunLoadTasks, TasksLoaded, TasksNotLoaded, OpenTasks, ReturnToTasks,
        Enter, ReEnter, EnterEmpty, Reads, ReadFails, Shown, screen, bounds
  <1> QED BY <1>1, <1>2

LEMMA VolumesShown == VolumesOperator \/ VolumesProgram => Shown
  <1>1. VolumesOperator => Shown
    BY DEF VolumesOperator, VolumesMove, DismissVolumesError, VolumeAction, VolumesKey, Press,
        Shown, screen
  <1>2. VolumesProgram => Shown
    BY DEF VolumesProgram, RunLoadVolumes, VolumesLoaded, VolumesNotLoaded, OpenVolumes,
        ReturnToVolumes, Enter, ReEnter, EnterEmpty, Reads, ReadFails, Shown, screen, bounds
  <1> QED BY <1>1, <1>2

LEMMA NetworksShown == NetworksOperator \/ NetworksProgram => Shown
  <1>1. NetworksOperator => Shown
    BY DEF NetworksOperator, NetworksMove, AskNetwork, NewNetwork, CreateNetworkKey,
        UsedByNetwork, UsedByKey, DismissNetworksError, NetworksAnswer, NetworksKey, Press,
        Shown, screen
  <1>2. NetworksProgram => Shown
    BY DEF NetworksProgram, RunLoadNetworks, RunNetworkOp, RunNetworkUsage, NetworksLoaded,
        NetworksNotLoaded, UsageKnown, NetworkDone, NetworkFailed, UsedByLoaded, OpenNetworks,
        ReturnToNetworks, Enter, ReEnter, EnterEmpty, Reads, ReadFails, Shown, screen, bounds
  <1> QED BY <1>1, <1>2

LEMMA ConfigsShown == ConfigsOperator \/ ConfigsProgram => Shown
  <1>1. ConfigsOperator => Shown
    BY DEF ConfigsOperator, ConfigsMove, AskDeleteConfig, EditConfig, UsedByConfig, NewConfig,
        CreateConfigKey, BrowseConfigKey, DismissConfigs, ConfigsAnswer, ConfigsKey, Press, AnswerKey,
        Shown, screen
  <1>2. ConfigsProgram => Shown
    BY DEF ConfigsProgram, RunLoadConfigs, RunConfigOp, RunConfigsOther, ConfigsLoaded,
        ConfigAnswered, ConfigDone, ConfigEdited, ConfigFailed, ConfigsOtherDone, OpenConfigs, ReturnToConfigs,
        Enter, ReEnter, EnterEmpty, Reads, ReadFails, Shown, screen, bounds
  <1> QED BY <1>1, <1>2

LEMMA SecretsShown == SecretsOperator \/ SecretsProgram => Shown
  <1>1. SecretsOperator => Shown
    BY DEF SecretsOperator, SecretsMove, AskDeleteSecret, UsedBySecret, RevealSecret,
        NewSecret, CreateSecretKey, BrowseSecretKey, DismissSecrets, SecretsAnswer, SecretsKey,
        Press, AnswerKey, Shown, screen
  <1>2. SecretsProgram => Shown
    BY DEF SecretsProgram, RunLoadSecrets, RunSecretOp, RunSecretsOther, SecretsLoaded,
        SecretAnswered, SecretDeleted, SecretCreated, SecretFailed, SecretsOtherDone, OpenSecrets,
        ReturnToSecrets, Enter, ReEnter, EnterEmpty, Reads, ReadFails, Shown, screen, bounds
  <1> QED BY <1>1, <1>2

LEMMA ContextsShown == ContextsOperator \/ ContextsProgram => Shown
  <1>1. ContextsOperator => Shown
    BY DEF ContextsOperator, ContextsMove, ClearContextsFilter, SwitchContext, DeleteOrExport,
        OpenContextForm, CreateContextKey, EditContextKey, CertKey, BrowseContextKey,
        DismissContextsError, ContextsAnswer, ContextsEsc, ContextsKey, Press, AnswerKey, Shown, screen
  <1>2. ContextsProgram => Shown
    BY DEF ContextsProgram, RunLoadContexts, RunContextOp, RunContextFiles, ContextsLoaded,
        ContextAnswered, ContextDone, ContextFailed, ExportExists, ContextFilesLoaded, GoElsewhere,
        OpenContexts, ReturnToContexts, Enter, ReEnter, EnterEmpty, Reads, ReadFails, Shown, screen, bounds
  <1> QED BY <1>1, <1>2

LEMMA ChartsShown == ChartsOperator \/ ChartsTick \/ ChartsProgram => Shown
  BY DEF ChartsOperator, ChartsMove, StepRow, ExpandRow, BlockedAction, DismissCharts, ChartsAnswer, AnswerKey,
    ChartsTick, ChartsProgram, RunReadReleases, PollRetry, ChartsAnswered, ReleasesLoaded, ReleasesNotLoaded, OpenCharts, ReturnToCharts, EnterEmpty, Enter,
    ReEnter, Shown, screen

LEMMA TickShown ==
  ASSUME NEW g, NEW checks, Tick(g, checks)
  PROVE  Shown
  BY DEF Tick, Shown, screen

LEMMA TicksShown == Ticks /\ ~ChartsTick => Shown
  BY TickShown DEF Ticks, StacksTick, ServicesTick, NodesTick, TasksTick, VolumesTick, NetworksTick,
    ConfigsTick, SecretsTick, ContextsTick

LEMMA OutsideShown == Outside => visible' \in BOOLEAN \/ visible' = visible
  BY DEF Outside, Leave, Change, Refresh, Dropped, screen

LEMMA NextShown ==
  ASSUME visible \in BOOLEAN, Next
  PROVE  visible' \in BOOLEAN
  BY TicksShown, StacksShown, ServicesShown, NodesShown, TasksShown, VolumesShown, NetworksShown, ConfigsShown,
     SecretsShown, ContextsShown, ChartsShown, OutsideShown DEF Next, Ticks, Outside, Shown

\* The inductive invariant: its parts rest on one another.
Inv ==
  /\ view \in Views /\ visible \in BOOLEAN /\ Clustered
  /\ ListInv /\ Fits /\ Asking /\ OutInv /\ RowedInv /\ PollInv /\ Backs
  /\ view = "charts" => ChildInv

LEMMA InitInv == Init => Inv
  <1> SUFFICES ASSUME Init PROVE Inv
    OBVIOUS
  <1> USE DEF Init
  <1>1. Clustered
    BY DEF Clustered, Worlds
  <1>2. Listing /\ OnARow /\ AsTold
    BY DEF Listing, Seens, OnARow, AsTold, Ordered, Range
  <1>3. ListInv
    BY <1>2 DEF ListInv
  <1>4. Asking
    BY DEF Asking, IsForm, IsDialog, Closed, Quiet, NamesOrNobody, Panels
  <1>5. OutInv
    <2>1. mail \ {Aside} = {} /\ IsFiniteSet({}) /\ Cardinality({}) = 0
      BY FS_EmptySet
    <2> QED
      BY <2>1, ListViewAssumption DEF OutInv, Calls
  <1>6. Owed = 0
    <2>1. {c \in running : c.what \in Making} = {} /\ {m \in mail : m.what \in Made} = {}
      OBVIOUS
    <2> QED
      BY <2>1, FS_EmptySet DEF Owed
  <1>7. Fits
    BY <1>6, FiniteNames DEF Fits
  <1>8. RowedInv /\ Backs
    BY DEF RowedInv, Rowed, Pended, Backs
  <1>9. PollInv
    BY BoundIs DEF PollInv, Gens
  <1>10. ChildInv
    BY DEF ChildInv, OnChild, Closed
  <1> QED
    BY <1>1, <1>3, <1>4, <1>5, <1>7, <1>8, <1>9, <1>10 DEF Inv

LEMMA StepInv ==
  ASSUME Inv, [Next]_vars
  PROVE  Inv'
  <1>1. CASE UNCHANGED vars
    <2>1. UNCHANGED <<view, place, visible, world, snapshot, entries, cursor, ascending, items, query, seen,
                      gen, ticks, dialog, pending, form, running, mail, events>>
      BY <1>1 DEF vars, screen, cluster, list, poll, asking, out, bounds
    <2> QED
      BY <2>1 DEF Inv, Clustered, ListInv, Listing, OnARow, AsTold, Fits, Owed, Making, Made, Asking, OutInv, Calls,
        Aside, RowedInv, Rowed, Pended, PollInv, Reading, Scheduled, Backs, StacksBack, ChildInv, OnChild, Expanded,
        Selected, Listed
  <1>2. CASE Next
    <2>1. view' = view /\ Calls /\ Listing /\ events \in Nat /\ cursor \in Nat
      BY <1>2, NextCounts, BoundIs DEF Inv, Counts, OutInv, ListInv, PollInv
    <2>2. view' \in Views /\ visible' \in BOOLEAN /\ Clustered'
      BY <1>2, <2>1, NextShown, NextClustered DEF Inv
    <2>3. ListInv' /\ Fits'
      BY <1>2, <2>1, NextListing, NextFits DEF Inv
    <2>4. Asking' /\ Backs' /\ RowedInv'
      BY <1>2, <2>1, NextAsking, NextBacks, NextRowed DEF Inv
    <2>5. OutInv'
      BY <1>2, <2>1, NextSends, SendsOut DEF Inv, RowedInv
    <2>6. PollInv'
      BY <1>2, <2>1, NextPolls DEF Inv
    <2>7. view = "charts" => ChildInv'
      <3>1. CASE Outside
        BY <1>2, <3>1, <2>1, OutsideKeeps DEF Inv, list, asking, ChildInv, OnChild, Expanded, Selected, Listed
      <3>2. CASE ~Outside
        BY <1>2, <3>2, <2>1, ChartsChild DEF Inv, Next, Outside
      <3> QED
        BY <3>1, <3>2
    <2> QED
      BY <2>1, <2>2, <2>3, <2>4, <2>5, <2>6, <2>7 DEF Inv
  <1> QED
    BY <1>1, <1>2

\* Inv holds throughout, of every view: each of its parts needs others. A row added is owed to
\* a key (Fits), which needs the commands to be of their shape (OutInv, RowedInv); a beat is of
\* a generation there is (PollInv); and a dialog asks about a name that was listed (Asking).
THEOREM Invariance == Spec => []Inv
  <1>1. Init => Inv
    BY InitInv
  <1>2. Inv /\ [Next]_vars => Inv'
    BY StepInv
  <1> QED
    BY <1>1, <1>2, PTL DEF Spec

\* Every piece of state keeps to its type, whatever the names and the bounds: there are no
\* more rows than there are names and were events, since a row the program adds itself
\* (addConfig, addSecret) is owed to the key that asked for it; and beside the room for
\* commands only the word on which another view takes the screen is on its way.
THEOREM TypesHold == Spec => []TypeOK
  <1>1. Inv => TypeOK
    <2> SUFFICES ASSUME Inv PROVE TypeOK
      OBVIOUS
    <2> USE DEF Inv
    <2>1. /\ view \in Views /\ place \in {"on", "under", "gone", "crashed"} /\ visible \in BOOLEAN
          /\ world \in Worlds /\ snapshot \in Worlds
          /\ events \in Nat /\ events <= MaxEvents /\ gen \in Gens /\ ticks \in [Gens -> Nat]
      BY BoundIs DEF Clustered, PollInv, Gens
    <2>2. /\ entries \in Seq(Names) /\ items \in Seq(Names) /\ ascending \in BOOLEAN /\ query \in SUBSET Names
          /\ seen \in Worlds \cup {Unhashed} /\ cursor \in Nat
      BY DEF ListInv, Listing, Seens
    <2>3. {Len(entries), Len(items)} \subseteq 0..Rows /\ cursor \in 0..Rows \cup {1}
      <3> DEFINE C == Cardinality(Names)
      <3>1. Owed \in Nat /\ C \in Nat /\ MaxEvents \in Nat /\ Len(entries) \in Nat /\ Len(items) \in Nat
        BY <2>2, OwedNat, FiniteNames, BoundIs
      <3>2. Len(entries) + Owed <= C + events /\ Len(items) + Owed <= C + events
            /\ (cursor <= 1 \/ cursor <= C + events)
        BY DEF Fits
      <3> HIDE DEF C
      <3>3. Rows = C + MaxEvents
        BY DEF Rows, C
      <3>4. Len(entries) <= Rows /\ Len(items) <= Rows /\ Rows \in Nat /\ (cursor <= 1 \/ cursor <= Rows)
        BY <2>1, <2>2, <3>1, <3>2, <3>3
      <3> QED
        BY <2>2, <3>1, <3>4
    <2>4. /\ dialog.mode \in {"none", "confirm", "info", "error"} /\ dialog.on \in Names \cup {Nobody}
          /\ dialog.up \in BOOLEAN /\ form.open \subseteq Panels
          /\ {form.on} \cup form.rows \subseteq Names \cup {Nobody}
      BY DEF Asking, IsForm, IsDialog, NamesOrNobody
    <2>5. \A c \in running \cup mail : c.on \in Names \cup {Nobody} /\ c.saw \in Worlds \cup {Unhashed}
      BY DEF OutInv, Calls, IsCall, NamesOrNobody, Seens
    <2>6. Cardinality(running) + Cardinality(mail) <= MaxCalls + 1
      <3>1. /\ IsFiniteSet(mail \ {Aside}) /\ Cardinality(mail \ {Aside}) \in Nat /\ Cardinality(running) \in Nat
            /\ MaxCalls \in Nat /\ Cardinality(running) + Cardinality(mail \ {Aside}) <= MaxCalls
        BY Shrunk, FS_CardinalityType, ListViewAssumption DEF OutInv
      <3>2. /\ IsFiniteSet((mail \ {Aside}) \cup {Aside}) /\ Cardinality((mail \ {Aside}) \cup {Aside}) \in Nat
            /\ Cardinality((mail \ {Aside}) \cup {Aside}) <= Cardinality(mail \ {Aside}) + 1
        BY <3>1, Grown
      <3>3. mail \in SUBSET ((mail \ {Aside}) \cup {Aside})
        OBVIOUS
      <3>4. Cardinality(mail) \in Nat /\ Cardinality(mail) <= Cardinality((mail \ {Aside}) \cup {Aside})
        BY <3>2, <3>3, Shrunk
      <3> QED
        BY <3>1, <3>2, <3>4
    <2> QED
      BY <2>1, <2>2, <2>3, <2>4, <2>5, <2>6 DEF TypeOK
  <1> QED
    BY <1>1, Invariance, PTL

\* OnEnter, TickMsg and PollRetryMsg never end the poll of a view that is on the screen,
\* with navigation and messages lost to other views in between: a generation is used up
\* only with an entry, and the charts view believes a beat scheduled only when one is.
THEOREM PollNeverLost == Spec => []StaysPolled
  <1>1. Inv => StaysPolled
    BY DEF Inv, PollInv, StaysPolled, Reading, ReadWords
  <1> QED
    BY <1>1, Invariance, PTL

\* Where the lists clamp their cursor (ApplyFilter, setStacks, HandleKey) it is on a row, or
\* on the first of none, after whatever loads, searches, sorts and added rows.
THEOREM CursorStaysInList == Spec => []NeverOutOfList
  <1>1. Inv => NeverOutOfList
    BY DEF Inv, ListInv, Six, OnARow, NeverOutOfList
  <1> QED
    BY <1>1, Invariance, PTL

\* The charts view's cursor is on a child only of a release that is expanded, and only
\* releases that are listed are (clampChild, pruneExpanded).
THEOREM ChildStaysShown == Spec => []ChildIsShown
  <1>1. Inv => ChildIsShown
    BY DEF Inv, ChildInv, ChildIsShown
  <1> QED
    BY <1>1, Invariance, PTL

\* The volumes and charts views list in the order their header tells: what is in order
\* already, sorting leaves as it is.
THEOREM OrderStaysAsTold == Spec => []OrderIsAsTold
  <1>1. Inv => OrderIsAsTold
    BY OrderedStays DEF Inv, ListInv, Listing, AsTold, OrderIsAsTold
  <1> QED
    BY <1>1, Invariance, PTL

-----------------------------------------------------------------------------
(***************************************************************************)
(* What a dialog names is what is done                                     *)
(***************************************************************************)

\* The keys go to the dialog only when one is open.
LEMMA DialogKeyIs ==
  ASSUME Asking, NEW T, NEW order \in Seq(T), KeysGoTo(order) = "dialog"
  PROVE  dialog.up
  <1> DEFINE I == {i \in 1..Len(order) : IsOpen(order[i])}
             front == SelectInSeq(order, IsOpen)
  <1>1. CASE I = {}
    BY <1>1 DEF KeysGoTo, SelectInSeq
  <1>2. CASE I # {}
    <2>1. front = Min(I)
      BY <1>2 DEF SelectInSeq
    <2>2. I \in SUBSET Nat /\ \A i \in I : i # 0 /\ IsOpen(order[i])
      OBVIOUS
    <2>3. KeysGoTo(order) = IF front = 0 THEN "list" ELSE order[front]
      BY DEF KeysGoTo
    <2> HIDE DEF I, front
    <2>4. \E i \in I : \A j \in I : i <= j
      BY <1>2, <2>2, LeastIs
    <2>5. Min(I) \in I
      BY <2>4 DEF Min
    <2>6. IsOpen("dialog")
      BY <2>1, <2>2, <2>3, <2>5
    <2> QED
      BY <2>6 DEF IsOpen, Asking, IsForm, Panels
  <1> QED
    BY <1>1, <1>2

\* In each of these views, what the handler of the answer reads is what the dialog asks
\* about: the networks view reads it while the dialog is up, the others later, as long as
\* anything is pending.
NetworksAsked ==
  dialog.up => dialog.act = pending /\ dialog.on = IF pending = "delete" THEN form.on ELSE Nobody

ConfigsAsked == pending # "none" => dialog.act = pending /\ dialog.on = form.on

SecretsAsked == pending = "delete" => dialog.act = "delete" /\ dialog.on = form.on

ContextsAsked == \A n \in form.rows : dialog.act = pending /\ dialog.on = n

\* Nothing that a dialog asks for is begun.
BeginsNothingAsked == \A c \in running' \ running : c.what \notin Asked

LEMMA BeginsOther ==
  ASSUME NEW what, what \notin Asked, NEW n, Begin(Cmd(what, n))
  PROVE  BeginsNothingAsked
  BY DEF Begin, Cmd, BeginsNothingAsked

LEMMA BeginsNone ==
  ASSUME running' \subseteq running
  PROVE  BeginsNothingAsked
  BY DEF BeginsNothingAsked

LEMMA LoadNotAsked == Load.what \notin Asked /\ Check.what \notin Asked
  BY DEF Load, Check, Cmd, Saw, Asked

LEMMA TickBegins ==
  ASSUME NEW g, NEW checks \in {{}, {Check}, {Load}}, Tick(g, checks)
  PROVE  BeginsNothingAsked
  <1>1. running' \subseteq running \cup {Check, Load}
    BY DEF Tick, out
  <1> QED
    BY <1>1, LoadNotAsked DEF BeginsNothingAsked

LEMMA OpensBegins ==
  ASSUME UNCHANGED out \/ Begin(Load) \/ \E m : HeardAndBegun(m, Load)
  PROVE  BeginsNothingAsked
  <1>1. running' \subseteq running \cup {Load}
    BY DEF Begin, HeardAndBegun, out
  <1> QED
    BY <1>1, LoadNotAsked DEF BeginsNothingAsked

LEMMA NetworksName ==
  ASSUME Asking, NetworksAsked, NetworksOperator \/ NetworksTick \/ NetworksProgram
  PROVE  NetworksAsked'
  <1> USE DEF Asking
  <1>1. CASE NetworksMove \/ UsedByNetwork \/ NetworksTick \/ RunLoadNetworks \/ RunNetworkOp
              \/ RunNetworkUsage \/ UsageKnown
    BY <1>1 DEF NetworksMove, UsedByNetwork, NetworksTick, RunLoadNetworks, RunNetworkOp,
      RunNetworkUsage, UsageKnown, Tick, asking, NetworksAsked
  <1>2. CASE AskNetwork
    BY <1>2 DEF AskNetwork, NetworksKey, Asks, With, asking, IsForm, IsDialog, NetworksAsked
  <1>3. CASE NewNetwork
    BY <1>3 DEF NewNetwork, NetworksKey, With, Opened, asking, IsForm, IsDialog, NetworksAsked
  <1>4. CASE CreateNetworkKey
    BY <1>4 DEF CreateNetworkKey, NetworksKey, With, Shut, NetworkBasicKey, NetworkReviewKey,
      asking, IsForm, IsDialog, NetworksAsked
  <1>5. CASE UsedByKey
    BY <1>5 DEF UsedByKey, NetworksKey, Shuts, With, Busy, asking, Shut, IsForm, IsDialog,
      NetworksAsked
  <1>6. CASE DismissNetworksError
    BY <1>6 DEF DismissNetworksError, NetworksKey, Shuts, With, Shut, asking, IsForm, IsDialog,
      NetworksAsked
  <1>7. CASE \E yes \in BOOLEAN : NetworksAnswer(yes)
    BY <1>7 DEF NetworksAnswer, NetworksKey, Quiet, asking, IsForm, IsDialog, NetworksAsked
  <1>8. CASE NetworksLoaded
    BY <1>8 DEF NetworksLoaded, With, Idle, asking, IsForm, IsDialog, NetworksAsked
  <1>9. CASE NetworksNotLoaded
    BY <1>9 DEF NetworksNotLoaded, With, Opened, asking, IsForm, IsDialog, NetworksAsked
  <1>10. CASE NetworkDone
    BY <1>10 DEF NetworkDone, With, Shut, asking, IsForm, IsDialog, NetworksAsked
  <1>11. CASE NetworkFailed
    BY <1>11 DEF NetworkFailed, With, Opened, asking, IsForm, IsDialog, NetworksAsked
  <1>12. CASE UsedByLoaded
    BY <1>12 DEF UsedByLoaded, With, Opened, asking, IsForm, IsDialog, NetworksAsked
  <1>13. CASE OpenNetworks
    BY <1>13 DEF OpenNetworks, Closed, EnterEmpty, Enter, Quiet, asking, IsForm, IsDialog,
      NetworksAsked
  <1>14. CASE ReturnToNetworks
    BY <1>14 DEF ReturnToNetworks, With, Busy, asking, IsForm, IsDialog, NetworksAsked
  <1> QED
    BY <1>1, <1>2, <1>3, <1>4, <1>5, <1>6, <1>7, <1>8, <1>9, <1>10, <1>11, <1>12, <1>13, <1>14
      DEF NetworksOperator, NetworksProgram

LEMMA NetworksBegins ==
  ASSUME Listing, Asking, NetworksAsked, NetworksOperator \/ NetworksTick \/ NetworksProgram
  PROVE  BeginsNothingAsked \/ \E yes \in BOOLEAN : NetworksAnswer(yes)
  <1> USE DEF Asked
  <1>1. CASE NetworksMove \/ AskNetwork \/ NewNetwork \/ UsedByKey \/ DismissNetworksError
    BY <1>1, BeginsNone DEF NetworksMove, AskNetwork, NewNetwork, UsedByKey,
      DismissNetworksError, out
  <1>2. CASE RunLoadNetworks \/ RunNetworkOp \/ RunNetworkUsage \/ NetworksNotLoaded \/
              UsageKnown \/ NetworkFailed \/ UsedByLoaded
    BY <1>2, BeginsNone DEF RunLoadNetworks, RunNetworkOp, RunNetworkUsage, NetworksNotLoaded,
      UsageKnown, NetworkFailed, UsedByLoaded, Answers, Heard, Reads, ReadFails
  <1>3. CASE NetworksTick
    BY <1>3, TickBegins DEF NetworksTick
  <1>4. CASE OpenNetworks \/ ReturnToNetworks
    BY <1>4, OpensBegins DEF OpenNetworks, EnterEmpty, ReturnToNetworks
  <1>5. CASE CreateNetworkKey
    BY <1>5, BeginsOther, OpensBegins DEF CreateNetworkKey, NetworkBasicKey, NetworkReviewKey
  <1>6. CASE UsedByNetwork
    BY <1>6, BeginsOther, OpensBegins DEF UsedByNetwork, asking
  <1>7. CASE NetworksLoaded
    BY <1>7 DEF NetworksLoaded, Heard, HeardAndBegun, Cmd, BeginsNothingAsked
  <1>8. CASE NetworkDone
    BY <1>8, BeginsOther, OpensBegins DEF NetworkDone
  <1> QED
    BY <1>1, <1>2, <1>3, <1>4, <1>5, <1>6, <1>7, <1>8 DEF NetworksOperator, NetworksProgram

LEMMA ConfigsName ==
  ASSUME Asking, ConfigsAsked, ConfigsOperator \/ ConfigsTick \/ ConfigsProgram
  PROVE  ConfigsAsked'
  <1> USE DEF Asking
  <1>1. CASE ConfigsMove \/ UsedByConfig \/ ConfigsTick \/ RunLoadConfigs \/ RunConfigOp \/
              RunConfigsOther \/ ConfigDone \/ ReturnToConfigs
    BY <1>1 DEF ConfigsMove, UsedByConfig, ConfigsTick, RunLoadConfigs, RunConfigOp,
      RunConfigsOther, ConfigDone, ReturnToConfigs, Tick, asking, ConfigsAsked
  <1>2. CASE AskDeleteConfig
    BY <1>2 DEF AskDeleteConfig, ConfigsKey, Asks, OverNotice, With, asking, IsForm, IsDialog, ConfigsAsked
  <1>3. CASE EditConfig
    BY <1>3 DEF EditConfig, ConfigsKey, asking, ConfigsAsked
  <1>4. CASE NewConfig
    BY <1>4 DEF NewConfig, ConfigsKey, With, Opened, asking, IsForm, IsDialog, ConfigsAsked
  <1>5. CASE CreateConfigKey
    BY <1>5 DEF CreateConfigKey, ConfigsKey, With, Shut, ConfigSourceKey, ConfigFileKey,
      ConfigInlineKey, CreatesConfig, asking, IsForm, IsDialog, ConfigsAsked
  <1>6. CASE BrowseConfigKey
    BY <1>6 DEF BrowseConfigKey, ConfigsKey, With, Shut, asking, IsForm, IsDialog, ConfigsAsked
  <1>7. CASE DismissConfigs
    BY <1>7 DEF DismissConfigs, ConfigsKey, With, Shut, asking, IsForm, IsDialog, ConfigsAsked
  <1>8. CASE ConfigsAnswer \/ ConfigAnswered
    BY <1>8 DEF ConfigsAnswer, ConfigAnswered, AnswerKey, Hidden, IsDialog, ConfigsAsked
  <1>9. CASE ConfigsLoaded
    BY <1>9 DEF ConfigsLoaded, With, asking, IsForm, IsDialog, ConfigsAsked
  <1>10. CASE ConfigEdited
    BY <1>10 DEF ConfigEdited, Asks, OverNotice, With, asking, IsForm, IsDialog, ConfigsAsked
  <1>11. CASE ConfigFailed
    BY <1>11 DEF ConfigFailed, With, Opened, asking, IsForm, IsDialog, ConfigsAsked
  <1>12. CASE ConfigsOtherDone
    BY <1>12 DEF ConfigsOtherDone, With, Opened, asking, IsForm, IsDialog, ConfigsAsked
  <1>13. CASE OpenConfigs
    BY <1>13 DEF OpenConfigs, Closed, EnterEmpty, Enter, Quiet, asking, IsForm, IsDialog,
      ConfigsAsked
  <1> QED
    BY <1>1, <1>2, <1>3, <1>4, <1>5, <1>6, <1>7, <1>8, <1>9, <1>10, <1>11, <1>12, <1>13 DEF
      ConfigsOperator, ConfigsProgram

LEMMA ConfigsBegins ==
  ASSUME Listing, Asking, ConfigsAsked, ConfigsOperator \/ ConfigsTick \/ ConfigsProgram
  PROVE  BeginsNothingAsked \/ ConfigAnswered
  <1> USE DEF Asked
  <1>1. CASE ConfigsMove \/ AskDeleteConfig \/ NewConfig \/ DismissConfigs \/ ConfigsAnswer
    BY <1>1, BeginsNone DEF ConfigsMove, AskDeleteConfig, NewConfig, DismissConfigs, ConfigsAnswer,
      AnswerKey, out
  <1>2. CASE RunLoadConfigs \/ RunConfigOp \/ RunConfigsOther \/ ConfigsLoaded \/ ConfigEdited
              \/ ConfigFailed \/ ConfigsOtherDone
    BY <1>2, BeginsNone DEF RunLoadConfigs, RunConfigOp, RunConfigsOther, ConfigsLoaded,
      ConfigEdited, ConfigFailed, ConfigsOtherDone, Answers, Heard, Reads, ReadFails
  <1>3. CASE ConfigsTick
    BY <1>3, TickBegins DEF ConfigsTick
  <1>4. CASE OpenConfigs \/ ReturnToConfigs
    BY <1>4, OpensBegins DEF OpenConfigs, EnterEmpty, ReturnToConfigs
  <1>5. CASE EditConfig
    BY <1>5, BeginsOther, OpensBegins DEF EditConfig, asking
  <1>6. CASE UsedByConfig
    BY <1>6, BeginsOther, OpensBegins DEF UsedByConfig, asking
  <1>7. CASE CreateConfigKey
    BY <1>7, BeginsOther, OpensBegins DEF CreateConfigKey, ConfigSourceKey, ConfigFileKey,
      ConfigInlineKey, CreatesConfig
  <1>8. CASE BrowseConfigKey
    BY <1>8, BeginsOther, OpensBegins DEF BrowseConfigKey
  <1>9. CASE ConfigDone
    BY <1>9, BeginsOther, OpensBegins DEF ConfigDone, asking
  <1> QED
    BY <1>1, <1>2, <1>3, <1>4, <1>5, <1>6, <1>7, <1>8, <1>9 DEF ConfigsOperator, ConfigsProgram

LEMMA SecretsName ==
  ASSUME Asking, SecretsAsked, SecretsOperator \/ SecretsTick \/ SecretsProgram
  PROVE  SecretsAsked'
  <1> USE DEF Asking
  <1>1. CASE SecretsMove \/ UsedBySecret \/ SecretsTick \/ RunLoadSecrets \/ RunSecretOp \/
              RunSecretsOther \/ SecretDeleted \/ ReturnToSecrets
    BY <1>1 DEF SecretsMove, UsedBySecret, SecretsTick, RunLoadSecrets, RunSecretOp,
      RunSecretsOther, SecretDeleted, ReturnToSecrets, Tick, asking, SecretsAsked
  <1>2. CASE AskDeleteSecret
    BY <1>2 DEF AskDeleteSecret, SecretsKey, Asks, With, asking, IsForm, IsDialog, SecretsAsked
  <1>3. CASE RevealSecret
    BY <1>3 DEF RevealSecret, SecretsKey, Opens, With, Opened, asking, IsForm, IsDialog,
      SecretsAsked
  <1>4. CASE NewSecret
    BY <1>4 DEF NewSecret, SecretsKey, With, Opened, asking, IsForm, IsDialog, SecretsAsked
  <1>5. CASE CreateSecretKey
    BY <1>5 DEF CreateSecretKey, SecretsKey, With, Shut, SecretSourceKey, SecretFileKey,
      SecretInlineKey, CreatesSecret, asking, IsForm, IsDialog, SecretsAsked
  <1>6. CASE BrowseSecretKey
    BY <1>6 DEF BrowseSecretKey, SecretsKey, With, asking, IsForm, IsDialog, SecretsAsked
  <1>7. CASE DismissSecrets
    BY <1>7 DEF DismissSecrets, SecretsKey, With, Shut, asking, IsForm, IsDialog, SecretsAsked
  <1>8. CASE SecretsAnswer \/ SecretAnswered
    BY <1>8 DEF SecretsAnswer, SecretAnswered, AnswerKey, Hidden, IsDialog, SecretsAsked
  <1>9. CASE SecretsLoaded
    BY <1>9 DEF SecretsLoaded, With, asking, IsForm, IsDialog, SecretsAsked
  <1>10. CASE SecretCreated
    BY <1>10 DEF SecretCreated, With, Shut, asking, IsForm, IsDialog, SecretsAsked
  <1>11. CASE SecretFailed
    BY <1>11 DEF SecretFailed, With, asking, IsForm, IsDialog, SecretsAsked
  <1>12. CASE SecretsOtherDone
    BY <1>12 DEF SecretsOtherDone, With, Opened, asking, IsForm, IsDialog, SecretsAsked
  <1>13. CASE OpenSecrets
    BY <1>13 DEF OpenSecrets, Closed, EnterEmpty, Enter, Quiet, asking, IsForm, IsDialog,
      SecretsAsked
  <1> QED
    BY <1>1, <1>2, <1>3, <1>4, <1>5, <1>6, <1>7, <1>8, <1>9, <1>10, <1>11, <1>12, <1>13 DEF
      SecretsOperator, SecretsProgram

LEMMA SecretsBegins ==
  ASSUME Listing, Asking, SecretsAsked, SecretsOperator \/ SecretsTick \/ SecretsProgram
  PROVE  BeginsNothingAsked \/ SecretAnswered
  <1> USE DEF Asked
  <1>1. CASE SecretsMove \/ AskDeleteSecret \/ RevealSecret \/ NewSecret \/ DismissSecrets \/
              SecretsAnswer
    BY <1>1, BeginsNone DEF SecretsMove, AskDeleteSecret, RevealSecret, NewSecret,
      DismissSecrets, SecretsAnswer, AnswerKey, out
  <1>2. CASE RunLoadSecrets \/ RunSecretOp \/ RunSecretsOther \/ SecretsLoaded \/ SecretCreated
              \/ SecretFailed \/ SecretsOtherDone
    BY <1>2, BeginsNone DEF RunLoadSecrets, RunSecretOp, RunSecretsOther, SecretsLoaded,
      SecretCreated, SecretFailed, SecretsOtherDone, Answers, Heard, Reads, ReadFails
  <1>3. CASE SecretsTick
    BY <1>3, TickBegins DEF SecretsTick, SecretsChecks
  <1>4. CASE OpenSecrets \/ ReturnToSecrets
    BY <1>4, OpensBegins DEF OpenSecrets, EnterEmpty, ReturnToSecrets
  <1>5. CASE UsedBySecret
    BY <1>5, BeginsOther, OpensBegins DEF UsedBySecret, asking
  <1>6. CASE CreateSecretKey
    BY <1>6, BeginsOther, OpensBegins DEF CreateSecretKey, SecretSourceKey, SecretFileKey,
      SecretInlineKey, CreatesSecret
  <1>7. CASE BrowseSecretKey
    BY <1>7, BeginsOther, OpensBegins DEF BrowseSecretKey
  <1>8. CASE SecretDeleted
    BY <1>8, BeginsOther, OpensBegins DEF SecretDeleted, asking
  <1> QED
    BY <1>1, <1>2, <1>3, <1>4, <1>5, <1>6, <1>7, <1>8 DEF SecretsOperator, SecretsProgram

LEMMA ContextsName ==
  ASSUME Asking, ContextsAsked, ContextsOperator \/ ContextsTick \/ ContextsProgram
  PROVE  ContextsAsked'
  <1> USE DEF Asking
  <1>1. CASE ContextsMove \/ ClearContextsFilter \/ ContextsTick \/ RunLoadContexts \/
              RunContextOp \/ RunContextFiles \/ GoElsewhere
    BY <1>1 DEF ContextsMove, ClearContextsFilter, ContextsTick, RunLoadContexts, RunContextOp,
      RunContextFiles, GoElsewhere, Tick, asking, ContextsAsked
  <1>2. CASE SwitchContext
    BY <1>2 DEF SwitchContext, ContextsKey, With, Busy, asking, IsForm, IsDialog, ContextsAsked
  <1>3. CASE DeleteOrExport
    BY <1>3 DEF DeleteOrExport, ContextsKey, Asks, With, asking, IsForm, IsDialog, ContextsAsked
  <1>4. CASE OpenContextForm
    BY <1>4 DEF OpenContextForm, ContextsKey, Opened, With, EnterEmpty, Enter, Quiet, Closed,
      asking, IsForm, IsDialog, ContextsAsked
  <1>5. CASE CreateContextKey
    BY <1>5 DEF CreateContextKey, ContextsEsc, With, Shut, ContextsKey, Opened, asking, IsForm,
      IsDialog, ContextsAsked
  <1>6. CASE EditContextKey
    BY <1>6 DEF EditContextKey, ContextsEsc, ContextsKey, With, Shut, asking, IsForm, IsDialog,
      ContextsAsked
  <1>7. CASE CertKey
    BY <1>7 DEF CertKey, ContextsEsc, ContextsKey, With, Shut, Busy, asking, IsForm, IsDialog,
      ContextsAsked
  <1>8. CASE BrowseContextKey
    BY <1>8 DEF BrowseContextKey, ContextsEsc, With, NoFiles, ContextsKey, Busy, asking,
      IsForm, IsDialog, ContextsAsked
  <1>9. CASE DismissContextsError
    BY <1>9 DEF DismissContextsError, ContextsKey, Shuts, With, Shut, asking, IsForm, IsDialog,
      ContextsAsked
  <1>10. CASE ContextsAnswer \/ ContextAnswered
    BY <1>10 DEF ContextsAnswer, ContextAnswered, AnswerKey, Hidden, ForgetsAsked, With, IsForm,
      IsDialog, ContextsAsked
  <1>11. CASE ContextsLoaded
    BY <1>11 DEF ContextsLoaded, With, Idle, asking, IsForm, IsDialog, ContextsAsked
  <1>12. CASE ContextDone
    BY <1>12 DEF ContextDone, With, asking, IsForm, IsDialog, ContextsAsked
  <1>13. CASE ContextFailed
    BY <1>13 DEF ContextFailed, With, Idle, Shut, asking, IsForm, IsDialog, ContextsAsked
  <1>14. CASE ExportExists
    BY <1>14 DEF ExportExists, Asks, With, asking, IsForm, IsDialog, ContextsAsked
  <1>15. CASE ContextFilesLoaded
    BY <1>15 DEF ContextFilesLoaded, With, Shut, asking, IsForm, IsDialog, ContextsAsked
  <1>16. CASE OpenContexts
    BY <1>16 DEF OpenContexts, Closed, EnterEmpty, Enter, Quiet, asking, IsForm, IsDialog,
      ContextsAsked
  <1>17. CASE ReturnToContexts
    BY <1>17 DEF ReturnToContexts, With, Busy, asking, IsForm, IsDialog, ContextsAsked
  <1> QED
    BY <1>1, <1>2, <1>3, <1>4, <1>5, <1>6, <1>7, <1>8, <1>9, <1>10, <1>11, <1>12, <1>13, <1>14,
      <1>15, <1>16, <1>17 DEF ContextsOperator, ContextsProgram

LEMMA ContextsBegins ==
  ASSUME Listing, Asking, ContextsAsked, ContextsOperator \/ ContextsTick \/ ContextsProgram
  PROVE  BeginsNothingAsked \/ ContextAnswered
  <1> USE DEF Asked
  <1>1. CASE ContextsMove \/ ClearContextsFilter \/ DismissContextsError \/ ContextsAnswer
    BY <1>1, BeginsNone DEF ContextsMove, ClearContextsFilter, DismissContextsError, ContextsAnswer,
      AnswerKey, out
  <1>2. CASE RunLoadContexts \/ RunContextOp \/ RunContextFiles \/ ContextsLoaded \/
              ContextFailed \/ ExportExists \/ ContextFilesLoaded \/ GoElsewhere
    BY <1>2, BeginsNone DEF RunLoadContexts, RunContextOp, RunContextFiles, ContextsLoaded,
      ContextFailed, ExportExists, ContextFilesLoaded, GoElsewhere, Answers, Heard, Reads,
      ReadFails
  <1>3. CASE ContextsTick
    BY <1>3, TickBegins DEF ContextsTick
  <1>4. CASE OpenContexts \/ ReturnToContexts
    BY <1>4, OpensBegins DEF OpenContexts, EnterEmpty, ReturnToContexts
  <1>5. CASE SwitchContext
    BY <1>5, BeginsOther, OpensBegins DEF SwitchContext
  <1>6. CASE DeleteOrExport
    BY <1>6, BeginsOther, OpensBegins DEF DeleteOrExport
  <1>7. CASE OpenContextForm
    BY <1>7, BeginsOther, OpensBegins DEF OpenContextForm
  <1>8. CASE CreateContextKey
    BY <1>8, BeginsOther, OpensBegins DEF CreateContextKey
  <1>9. CASE EditContextKey
    BY <1>9, BeginsOther, OpensBegins DEF EditContextKey
  <1>10. CASE CertKey
    BY <1>10, BeginsOther, OpensBegins DEF CertKey
  <1>11. CASE BrowseContextKey
    BY <1>11, BeginsOther, OpensBegins DEF BrowseContextKey
  <1>12. CASE ContextDone
    BY <1>12, LoadNotAsked DEF ContextDone, BeginsNothingAsked
  <1> QED
    BY <1>1, <1>2, <1>3, <1>4, <1>5, <1>6, <1>7, <1>8, <1>9, <1>10, <1>11, <1>12 DEF
      ContextsOperator, ContextsProgram


\* What an answer begins is what the dialog shown last named.
BeginsWhatItSays == \A c \in running' \ running : c.what \in Asked => AsTheDialogSays(c)

LEMMA BeginsWhat ==
  ASSUME NEW what, NEW n, running' \subseteq running \cup {Cmd(what, n)},
         dialog.act = what, dialog.on = n, view = "networks" => dialog.up
  PROVE  BeginsWhatItSays
  BY DEF Cmd, BeginsWhatItSays, AsTheDialogSays

LEMMA NetworksAnswers ==
  ASSUME Asking, NetworksAsked, NEW yes, NetworksAnswer(yes)
  PROVE  BeginsWhatItSays
  <1>1. NetworksOrder \in Seq({"create", "usedby", "error", "dialog"})
    BY DEF NetworksOrder
  <1>2. dialog.up
    BY <1>1, DialogKeyIs DEF NetworksAnswer, NetworksKey
  <1> DEFINE n == IF pending = "delete" THEN form.on ELSE Nobody
  <1>3. running' \subseteq running \cup {Cmd(pending, n)}
    BY DEF NetworksAnswer, Begin, out
  <1>4. dialog.act = pending /\ dialog.on = n
    BY <1>2 DEF NetworksAsked
  <1> HIDE DEF n
  <1> QED
    BY <1>2, <1>3, <1>4, BeginsWhat

\* A yes that is heard begins what is pending, whichever dialog it was the answer of.
LEMMA ConfigsAnswers ==
  ASSUME ConfigsAsked, ConfigAnswered
  PROVE  BeginsWhatItSays
  <1>1. view = "configs"
    BY DEF ConfigAnswered
  <1>2. CASE pending # "none"
    <2>1. running' \subseteq running \cup {Cmd(pending, form.on)}
      BY DEF ConfigAnswered, Heard, HeardAndBegun
    <2> QED
      BY <1>1, <1>2, <2>1, BeginsWhat DEF ConfigsAsked
  <1>3. CASE pending = "none"
    BY <1>3 DEF ConfigAnswered, Heard, BeginsWhatItSays
  <1> QED
    BY <1>2, <1>3

LEMMA SecretsAnswers ==
  ASSUME SecretsAsked, SecretAnswered
  PROVE  BeginsWhatItSays
  <1>1. view = "secrets"
    BY DEF SecretAnswered
  <1>2. CASE pending = "delete"
    <2>1. running' \subseteq running \cup {Cmd("delete", form.on)}
      BY DEF SecretAnswered, Heard, HeardAndBegun
    <2> QED
      BY <1>1, <1>2, <2>1, BeginsWhat DEF SecretsAsked
  <1>3. CASE pending # "delete"
    BY <1>3 DEF SecretAnswered, Heard, BeginsWhatItSays
  <1> QED
    BY <1>2, <1>3

LEMMA ContextsAnswers ==
  ASSUME ContextsAsked, ContextAnswered
  PROVE  BeginsWhatItSays
  <1>1. view = "contexts"
    BY DEF ContextAnswered
  <1>2. PICK m \in mail : (\E n \in form.rows : HeardAndBegun(m, Cmd(pending, n))) \/ Heard(m)
    BY DEF ContextAnswered
  <1>3. CASE Heard(m)
    BY <1>3 DEF Heard, BeginsWhatItSays
  <1>4. ASSUME NEW n \in form.rows, HeardAndBegun(m, Cmd(pending, n))
        PROVE  BeginsWhatItSays
    <2>1. running' \subseteq running \cup {Cmd(pending, n)}
      BY <1>4 DEF HeardAndBegun
    <2> QED
      BY <1>1, <2>1, BeginsWhat DEF ContextsAsked
  <1> QED
    BY <1>2, <1>3, <1>4

\* What the dialogs of these views hold, whichever view is followed.
AskedInv ==
  /\ view = "networks" => NetworksAsked
  /\ view = "configs" => ConfigsAsked
  /\ view = "secrets" => SecretsAsked
  /\ view = "contexts" => ContextsAsked

LEMMA OutsideBegins == Outside => UNCHANGED <<view, asking>> /\ running' = running
  BY DEF Outside, Leave, Change, Refresh, Dropped, Heard, screen, out

\* DoesWhatItNamed, of one step.
BeginsWhatItNamed ==
  view \in {"networks", "configs", "secrets", "contexts"} => BeginsWhatItSays

LEMMA NothingIsSaid == BeginsNothingAsked => BeginsWhatItSays
  BY DEF BeginsNothingAsked, BeginsWhatItSays

LEMMA StepAsked ==
  ASSUME Inv, AskedInv, [Next]_vars
  PROVE  AskedInv' /\ BeginsWhatItNamed
  <1> USE DEF Inv, ListInv
  <1>1. CASE UNCHANGED vars
    BY <1>1 DEF vars, screen, asking, out, AskedInv, NetworksAsked, ConfigsAsked, SecretsAsked, ContextsAsked,
      BeginsWhatItNamed, BeginsWhatItSays
  <1>2. CASE Outside
    BY <1>2, OutsideBegins DEF asking, AskedInv, NetworksAsked, ConfigsAsked, SecretsAsked, ContextsAsked,
      BeginsWhatItNamed, BeginsWhatItSays
  <1>3. CASE Next /\ ~Outside
    <2>1. view' = view
      BY <1>3, NextCounts, BoundIs DEF Counts, OutInv, PollInv
    <2>2. CASE view = "networks"
      <3>1. NetworksOperator \/ NetworksTick \/ NetworksProgram
        BY <1>3, <2>2 DEF Next, Outside
      <3> QED
        BY <2>1, <2>2, <3>1, NetworksName, NetworksBegins, NetworksAnswers, NothingIsSaid
          DEF AskedInv, BeginsWhatItNamed
    <2>3. CASE view = "configs"
      <3>1. ConfigsOperator \/ ConfigsTick \/ ConfigsProgram
        BY <1>3, <2>3 DEF Next, Outside
      <3> QED
        BY <2>1, <2>3, <3>1, ConfigsName, ConfigsBegins, ConfigsAnswers, NothingIsSaid
          DEF AskedInv, BeginsWhatItNamed
    <2>4. CASE view = "secrets"
      <3>1. SecretsOperator \/ SecretsTick \/ SecretsProgram
        BY <1>3, <2>4 DEF Next, Outside
      <3> QED
        BY <2>1, <2>4, <3>1, SecretsName, SecretsBegins, SecretsAnswers, NothingIsSaid
          DEF AskedInv, BeginsWhatItNamed
    <2>5. CASE view = "contexts"
      <3>1. ContextsOperator \/ ContextsTick \/ ContextsProgram
        BY <1>3, <2>5 DEF Next, Outside
      <3> QED
        BY <2>1, <2>5, <3>1, ContextsName, ContextsBegins, ContextsAnswers, NothingIsSaid
          DEF AskedInv, BeginsWhatItNamed
    <2>6. CASE view \notin {"networks", "configs", "secrets", "contexts"}
      BY <2>1, <2>6 DEF AskedInv, BeginsWhatItNamed
    <2> QED
      BY <2>2, <2>3, <2>4, <2>5, <2>6
  <1> QED
    BY <1>1, <1>2, <1>3

\* What the networks, configs, secrets and contexts views begin on a yes is what the dialog
\* they showed last named, and in the networks view one that is on the screen: what
\* pendingAction and the name kept beside it tell the handler, however late it hears the
\* answer, is kept together with the dialog through every load, key and other dialog.
THEOREM DialogNamesWhatIsDone == Spec => DoesWhatItNamed
  <1>1. Init => Inv /\ AskedInv
    BY InitInv DEF Init, Quiet, Closed, AskedInv, NetworksAsked, ConfigsAsked, SecretsAsked, ContextsAsked
  <1>2. (Inv /\ AskedInv) /\ [Next]_vars => (Inv /\ AskedInv)'
    BY StepInv, StepAsked
  <1>3. Inv /\ AskedInv /\ [Next]_vars =>
          [\A c \in running' \ running :
             view \in {"networks", "configs", "secrets", "contexts"} /\ c.what \in Asked => AsTheDialogSays(c)]_vars
    BY StepAsked DEF BeginsWhatItNamed, BeginsWhatItSays
  <1> QED
    BY <1>1, <1>2, <1>3, PTL DEF Spec, DoesWhatItNamed

-----------------------------------------------------------------------------
(***************************************************************************)
(* A view that shows only its list looks at the swarm                      *)
(***************************************************************************)

\* A load is under way, or its answer is on its way.
Loading ==
  \/ \E c \in running : c.what = "load"
  \/ \E m \in mail : m.what \in {"secrets", "failed", "releases", "no-releases"}

\* Where the state stops the refresh, something else is open or to come: in the secrets
\* view an error is told of as long as the state is one, and in both views a load that is
\* waited for is under way.
Settled == form.step \in {"ready", "loading"} \/ (form.step = "error" /\ "error" \in form.open)

Awaited == form.step = "loading" => Loading

LiveInv ==
  /\ view = "secrets" /\ place \in {"on", "under"} => Settled
  /\ view \in {"secrets", "charts"} /\ place = "on" => Awaited

LEMMA LoadIsAwaited == Begin(Load) => Awaited'
  BY LoadIs DEF Begin, Awaited, Loading

LEMMA BeginsAwaits ==
  ASSUME NEW c, Begin(c) \/ UNCHANGED out, Awaited, form'.step = form.step
  PROVE  Awaited'
  BY DEF Begin, out, Awaited, Loading

LEMMA HeardAwaits ==
  ASSUME NEW m, m.what \notin {"secrets", "failed", "releases", "no-releases"}, Heard(m), Awaited,
         form'.step = form.step
  PROVE  Awaited'
  BY DEF Heard, Awaited, Loading

\* What ends is no load, or its answer is one that is waited for.
LEMMA AnswerAwaits ==
  ASSUME NEW c, NEW m, c.what # "load" \/ m.what \in {"secrets", "failed", "releases", "no-releases"},
         Answers(c, {m}) \/ (c.what # "load" /\ Answers(c, {})), Awaited, form'.step = form.step
  PROVE  Awaited'
  BY DEF Answers, Awaited, Loading

LEMMA AnswerKeyAwaits ==
  ASSUME NEW order, AnswerKey(order), Awaited
  PROVE  Awaited'
  BY DEF AnswerKey, Awaited, Loading

LEMMA TickAwaits ==
  ASSUME NEW g, NEW checks, Tick(g, checks), Awaited
  PROVE  Awaited'
  BY DEF Tick, asking, out, Awaited, Loading

\* Of the secrets view, what its keys leave of the state.
LEMMA SecretsKeysLive ==
  ASSUME Asking, Settled, Awaited, SecretsOperator
  PROVE  Settled' /\ Awaited'
  <1> USE DEF Asking
  <1>1. CASE SecretsMove
    BY <1>1 DEF SecretsMove, asking, out, Settled, Awaited, Loading
  <1>2. CASE AskDeleteSecret
    BY <1>2 DEF AskDeleteSecret, With, IsForm, out, Settled, Awaited, Loading
  <1>3. CASE UsedBySecret
    BY <1>3, BeginsAwaits DEF UsedBySecret, asking, Settled
  <1>4. CASE RevealSecret \/ NewSecret
    BY <1>4 DEF RevealSecret, NewSecret, Opens, Opened, With, IsForm, out, Settled, Awaited, Loading
  <1>5. CASE CreateSecretKey
    <2>1. form'.step = form.step /\ ("error" \in form.open => "error" \in form'.open)
      BY <1>5 DEF CreateSecretKey, SecretSourceKey, SecretFileKey, SecretInlineKey, CreatesSecret, With, Shut, IsForm
    <2>2. UNCHANGED out \/ \E c : Begin(c)
      BY <1>5 DEF CreateSecretKey, SecretSourceKey, SecretFileKey, SecretInlineKey, CreatesSecret
    <2> QED
      BY <2>1, <2>2, BeginsAwaits DEF Settled
  <1>6. CASE BrowseSecretKey
    <2>1. form'.step = form.step /\ ("error" \in form.open => "error" \in form'.open)
      BY <1>6 DEF BrowseSecretKey, With, IsForm
    <2>2. UNCHANGED out \/ \E c : Begin(c)
      BY <1>6 DEF BrowseSecretKey
    <2> QED
      BY <2>1, <2>2, BeginsAwaits DEF Settled
  <1>7. CASE DismissSecrets
    BY <1>7 DEF DismissSecrets, With, Shut, IsForm, out, Settled, Awaited, Loading
  <1>8. CASE SecretsAnswer
    BY <1>8, AnswerKeyAwaits DEF SecretsAnswer, AnswerKey, Settled
  <1> QED
    BY <1>1, <1>2, <1>3, <1>4, <1>5, <1>6, <1>7, <1>8 DEF SecretsOperator

\* The commands of the secrets view end, wherever the view is.
LEMMA SecretsRunLive ==
  ASSUME Awaited, RunLoadSecrets \/ RunSecretOp \/ RunSecretsOther
  PROVE  Awaited' /\ UNCHANGED <<view, place, form>>
  <1>1. UNCHANGED <<view, place, form>>
    BY DEF RunLoadSecrets, RunSecretOp, RunSecretsOther, screen, asking
  <1>2. CASE RunLoadSecrets
    <2>1. PICK c \in running :
            \/ Reads(c, world, "secrets")
            \/ c.what = "load" /\ ReadFails(c, "failed")
            \/ Runs(c, {"check"}) /\ Answers(c, {})
      BY <1>2 DEF RunLoadSecrets
    <2>2. CASE Reads(c, world, "secrets")
      <3>1. Answers(c, {Saw("secrets", world)}) \/ (c.what # "load" /\ Answers(c, {}))
        BY <2>2 DEF Reads
      <3>2. Saw("secrets", world).what = "secrets"
        BY DEF Saw
      <3> QED
        BY <1>1, <3>1, <3>2, AnswerAwaits
    <2>3. CASE c.what = "load" /\ ReadFails(c, "failed")
      <3>1. Answers(c, {Cmd("failed", Nobody)}) /\ Cmd("failed", Nobody).what = "failed"
        BY <2>3 DEF ReadFails, Cmd
      <3> QED
        BY <1>1, <3>1, AnswerAwaits
    <2>4. CASE Runs(c, {"check"}) /\ Answers(c, {})
      <3>1. c.what # "load"
        BY <2>4 DEF Runs
      <3> QED
        BY <1>1, <2>4, <3>1, AnswerAwaits
    <2> QED
      BY <2>1, <2>2, <2>3, <2>4
  <1>3. CASE RunSecretOp
    <2>1. PICK c \in running : c.what # "load" /\ \E m : Answers(c, {m})
      BY <1>3 DEF RunSecretOp
    <2> QED
      BY <1>1, <2>1, AnswerAwaits
  <1>4. CASE RunSecretsOther
    <2>1. PICK c \in running : c.what # "load" /\ \E m : Answers(c, {m})
      BY <1>4 DEF RunSecretsOther
    <2> QED
      BY <1>1, <2>1, AnswerAwaits
  <1> QED
    BY <1>1, <1>2, <1>3, <1>4

\* Its messages are heard on the screen: what ends a load sets the state, to an error only
\* as it opens the dialog that tells of it.
LEMMA SecretsHearLive ==
  ASSUME Asking, Settled, Awaited,
         SecretsLoaded \/ SecretAnswered \/ SecretDeleted \/ SecretCreated \/ SecretFailed \/ SecretsOtherDone
  PROVE  Settled' /\ Awaited'
  <1> USE DEF Asking
  <1>1. CASE SecretsLoaded
    <2>1. form'.step = "ready"
      BY <1>1 DEF SecretsLoaded, With, IsForm
    <2> QED
      BY <2>1 DEF Settled, Awaited
  <1>2. CASE SecretDeleted
    BY <1>2, LoadIs DEF SecretDeleted, HeardAndBegun, asking, Settled, Awaited, Loading
  <1>3. CASE SecretCreated
    <2>1. form'.step = form.step /\ ("error" \in form.open => "error" \in form'.open)
      BY <1>3 DEF SecretCreated, With, Shut, IsForm
    <2>2. PICK m \in mail : m.what = "created" /\ Heard(m)
      BY <1>3 DEF SecretCreated, Hears
    <2> QED
      BY <2>1, <2>2, HeardAwaits DEF Settled
  <1>4. CASE SecretFailed
    <2> DEFINE f == [form EXCEPT !.open = (@ \ {"create"}) \cup {"error"}]
    <2>1. form' = [f EXCEPT !.step = "error"]
      BY <1>4 DEF SecretFailed, With
    <2>2. IsForm(f) /\ "error" \in f.open
      BY DEF IsForm, Panels
    <2> HIDE DEF f
    <2>3. form'.step = "error" /\ "error" \in form'.open
      BY <2>1, <2>2 DEF IsForm
    <2> QED
      BY <2>3 DEF Settled, Awaited
  <1>5. CASE SecretsOtherDone
    <2>1. form'.step = form.step /\ ("error" \in form.open => "error" \in form'.open)
      BY <1>5 DEF SecretsOtherDone, With, Opened, IsForm
    <2>2. PICK m \in mail : m.what \in {"files", "write", "usedby"} /\ Heard(m)
      BY <1>5 DEF SecretsOtherDone, Hears
    <2> QED
      BY <2>1, <2>2, HeardAwaits DEF Settled
  <1>6. CASE SecretAnswered
    <2>1. form'.step = form.step /\ form'.open = form.open
      BY <1>6 DEF SecretAnswered, With, IsForm
    <2>2. PICK m \in mail : /\ m.what \in {"yes", "no"}
                            /\ Heard(m) \/ HeardAndBegun(m, Cmd("delete", form.on))
      BY <1>6 DEF SecretAnswered, HearsAnswer, Hears
    <2> QED
      BY <2>1, <2>2 DEF Heard, HeardAndBegun, Settled, Awaited, Loading
  <1> QED
    BY <1>1, <1>2, <1>3, <1>4, <1>5, <1>6

LEMMA SecretsLive ==
  ASSUME Asking, LiveInv, view = "secrets", view' = view, SecretsOperator \/ SecretsTick \/ SecretsProgram
  PROVE  LiveInv'
  <1>1. CASE SecretsOperator
    <2>1. place = "on" /\ place' = place
      BY <1>1 DEF SecretsOperator, SecretsMove, AskDeleteSecret, UsedBySecret, RevealSecret, NewSecret, CreateSecretKey,
        BrowseSecretKey, DismissSecrets, SecretsAnswer, AnswerKey, SecretsKey, Press, screen
    <2> QED
      BY <1>1, <2>1, SecretsKeysLive DEF LiveInv
  <1>2. CASE SecretsTick
    <2>1. UNCHANGED <<place, form>> /\ (Awaited => Awaited')
      BY <1>2, TickAwaits DEF SecretsTick, Tick, screen, asking
    <2> QED
      BY <2>1 DEF LiveInv, Settled
  <1>3. CASE RunLoadSecrets \/ RunSecretOp \/ RunSecretsOther
    <2>1. UNCHANGED <<place, form>>
      BY <1>3 DEF RunLoadSecrets, RunSecretOp, RunSecretsOther, screen, asking
    <2> QED
      BY <1>3, <2>1, SecretsRunLive DEF LiveInv, Settled
  <1>4. CASE SecretsLoaded \/ SecretAnswered \/ SecretDeleted \/ SecretCreated \/ SecretFailed \/ SecretsOtherDone
    <2>1. place = "on" /\ place' = place
      BY <1>4 DEF SecretsLoaded, SecretAnswered, SecretDeleted, SecretCreated, SecretFailed, SecretsOtherDone,
        HearsAnswer, Hears, screen
    <2> QED
      BY <1>4, <2>1, SecretsHearLive DEF LiveInv
  <1>5. CASE OpenSecrets
    <2>1. form'.step = "loading"
      BY <1>5 DEF OpenSecrets, Closed
    <2> QED
      BY <1>5, <2>1, LoadIsAwaited DEF LiveInv, Settled, OpenSecrets, EnterEmpty
  <1>6. CASE ReturnToSecrets
    <2>1. place = "under" /\ form' = form
      BY <1>6 DEF ReturnToSecrets, ReEnter, asking
    <2> QED
      BY <1>6, <2>1, LoadIsAwaited DEF LiveInv, Settled, ReturnToSecrets
  <1> QED
    BY <1>1, <1>2, <1>3, <1>4, <1>5, <1>6 DEF SecretsProgram

\* ArmsIn changes only the flags.
LEMMA ArmsKeepsStep == \A f : IsForm(f) /\ ArmsIn(f) => form'.step = f.step
  BY DEF ArmsIn, IsForm

LEMMA ReleasesLoadedReady ==
  ASSUME Listing, Asking, Calls, ReleasesLoaded
  PROVE  form'.step = "ready"
  <1>1. PICK f : IsForm(f) /\ ArmsIn(f) /\ f.step = "ready"
    BY ReleasesLoadedIs
  <1> QED
    BY <1>1, ArmsKeepsStep

\* The releases view waits for its load only while one is under way: one that fails leaves
\* it in an error, or ready as it was.
LEMMA ChartsLive ==
  ASSUME Listing, Asking, Calls, LiveInv, view = "charts", view' = view, ChartsOperator \/ ChartsTick \/ ChartsProgram
  PROVE  LiveInv'
  <1> USE DEF Asking
  <1>1. CASE ChartsOperator /\ ~ChartsAnswer
    <2>1. place = "on" /\ place' = place /\ UNCHANGED out
      BY <1>1 DEF ChartsOperator, ChartsMove, StepRow, ExpandRow, BlockedAction, DismissCharts, ChartsKey, Press, screen
    <2>2. form'.step = form.step
      BY <1>1 DEF ChartsOperator, ChartsMove, StepRow, ExpandRow, BlockedAction, DismissCharts, With, Shuts, Shut,
        KeepsChild, IsForm
    <2> QED
      BY <2>1, <2>2, BeginsAwaits DEF LiveInv
  <1>2. CASE ChartsTick
    <2>1. place' = place /\ form'.step = form.step /\ (UNCHANGED out \/ Begin(Check))
      BY <1>2 DEF ChartsTick, With, Idle, IsForm, screen
    <2> QED
      BY <2>1, BeginsAwaits DEF LiveInv
  <1>3. CASE RunReadReleases
    <2>1. UNCHANGED <<place, form>>
      BY <1>3 DEF RunReadReleases, screen, asking
    <2>2. PICK c \in running :
            \/ Answers(c, {IF c.what = "check" /\ world = c.saw THEN Cmd("same", Nobody) ELSE Saw("releases", world)})
            \/ Answers(c, {Cmd("no-releases", Nobody)})
      BY <1>3 DEF RunReadReleases, ReadFails
    <2>3. \E m : (c.what # "load" \/ m.what \in {"secrets", "failed", "releases", "no-releases"}) /\ Answers(c, {m})
      <3>1. Saw("releases", world).what = "releases" /\ Cmd("no-releases", Nobody).what = "no-releases"
        BY DEF Saw, Cmd
      <3> QED
        BY <2>2, <3>1
    <2> QED
      BY <2>1, <2>3, AnswerAwaits DEF LiveInv
  <1>4. CASE PollRetry
    <2>1. place' = place /\ form'.step = form.step
      BY <1>4, ArmsKeepsStep DEF PollRetry, screen
    <2>2. PICK m \in mail : m.what = "same" /\ Heard(m)
      BY <1>4 DEF PollRetry, Hears
    <2> QED
      BY <2>1, <2>2, HeardAwaits DEF LiveInv
  <1>5. CASE ReleasesLoaded
    BY <1>5, ReleasesLoadedReady DEF LiveInv, Awaited
  <1>6. CASE ReleasesNotLoaded
    <2> DEFINE f == [form EXCEPT !.busy = @ \ {"first"}]
               g == [f EXCEPT !.step = "error"]
               h == [g EXCEPT !.open = {"error"}]
    <2>1. (form.step = "ready" /\ ArmsIn(f)) \/ ArmsIn(h)
      BY <1>6 DEF ReleasesNotLoaded
    <2>2. IsForm(f) /\ f.step = form.step
      BY SMTT(30) DEF IsForm
    <2> HIDE DEF f
    <2>3. IsForm(g) /\ g.step = "error"
      BY <2>2 DEF IsForm
    <2> HIDE DEF g
    <2>4. IsForm(h) /\ h.step = "error"
      BY <2>3 DEF IsForm, Panels
    <2> HIDE DEF h
    <2>5. form'.step # "loading"
      BY <2>1, <2>2, <2>4, ArmsKeepsStep
    <2> QED
      BY <2>5 DEF LiveInv, Awaited
  <1>7. CASE OpenCharts \/ ReturnToCharts
    <2>1. OpenCharts => Begin(Load)
      BY DEF OpenCharts, EnterEmpty
    <2>2. ReturnToCharts => Begin(Load)
      BY DEF ReturnToCharts
    <2> QED
      BY <1>7, <2>1, <2>2, LoadIsAwaited DEF LiveInv
  <1>8. CASE ChartsAnswer
    BY <1>8, AnswerKeyAwaits DEF ChartsAnswer, AnswerKey, screen, LiveInv
  <1>9. CASE ChartsAnswered
    <2>1. place' = place /\ form' = form
      BY <1>9 DEF ChartsAnswered, screen
    <2>2. PICK m \in mail : m.what \in {"yes", "no"} /\ Heard(m)
      BY <1>9 DEF ChartsAnswered, HearsAnswer, Hears
    <2> QED
      BY <2>1, <2>2, HeardAwaits DEF LiveInv
  <1> QED
    BY <1>1, <1>2, <1>3, <1>4, <1>5, <1>6, <1>7, <1>8, <1>9 DEF ChartsProgram

\* What covers a view, changes the swarm or loses a message to another view.
LEMMA OutsideLive ==
  ASSUME LiveInv, Outside
  PROVE  LiveInv'
  <1>1. view' = view /\ form' = form
    BY OutsideBegins DEF asking
  <1>2. CASE Leave(view \in {"stacks", "services", "nodes"})
    BY <1>1, <1>2 DEF Leave, LiveInv, Settled
  <1>3. CASE Change \/ Refresh
    BY <1>1, <1>3 DEF Change, Refresh, screen, out, LiveInv, Settled, Awaited, Loading
  <1>4. CASE \E m \in mail : Dropped(m)
    <2>1. PICK m \in mail : Dropped(m)
      BY <1>4
    <2>2. place' = place
      BY <2>1 DEF Dropped, screen
    <2>3. CASE place = "on"
      <3>1. m.what \in {"yes", "no"} /\ Heard(m)
        BY <2>1, <2>3 DEF Dropped, HearsAnswer, Hears
      <3> QED
        BY <1>1, <2>2, <3>1, HeardAwaits DEF LiveInv, Settled
    <2> QED
      BY <1>1, <2>2, <2>3 DEF LiveInv, Settled
  <1> QED
    BY <1>2, <1>3, <1>4 DEF Outside

LEMMA StepLive ==
  ASSUME Inv, LiveInv, [Next]_vars
  PROVE  LiveInv'
  <1> USE DEF Inv, ListInv
  <1>1. CASE UNCHANGED vars
    BY <1>1 DEF vars, screen, asking, out, LiveInv, Settled, Awaited, Loading
  <1>2. CASE Outside
    BY <1>2, OutsideLive
  <1>3. CASE Next /\ ~Outside
    <2>1. view' = view
      BY <1>3, NextCounts DEF Counts
    <2>2. CASE view = "secrets"
      <3>1. SecretsOperator \/ SecretsTick \/ SecretsProgram
        BY <1>3, <2>2 DEF Next, Outside
      <3> QED
        BY <2>1, <2>2, <3>1, SecretsLive
    <2>3. CASE view = "charts"
      <3>1. ChartsOperator \/ ChartsTick \/ ChartsProgram
        BY <1>3, <2>3 DEF Next, Outside
      <3> QED
        BY <2>1, <2>3, <3>1, ChartsLive DEF OutInv
    <2>4. CASE view \notin {"secrets", "charts"}
      BY <2>1, <2>4 DEF LiveInv
    <2> QED
      BY <2>2, <2>3, <2>4
  <1> QED
    BY <1>1, <1>2, <1>3

\* With only the list on the screen and nothing under way there is a beat of this entry to
\* come, and it will look at the swarm: the error of the secrets view is told of as long as
\* its state is one (DismissSecrets gives the state back), a view that waits for a load has
\* one under way, begun again on every return, and the charts view has a beat to come
\* whenever it reads nothing.
THEOREM NeverLeftFrozen == Spec => []NeverFrozen
  <1>1. Init => Inv /\ LiveInv
    BY InitInv DEF Init, LiveInv
  <1>2. (Inv /\ LiveInv) /\ [Next]_vars => (Inv /\ LiveInv)'
    BY StepInv, StepLive
  <1>3. Inv /\ LiveInv => NeverFrozen
    <2> SUFFICES ASSUME Inv, LiveInv, view \in {"stacks", "services", "nodes", "tasks", "secrets", "charts"},
                        OnlyTheList, running = {}, mail = {}
                 PROVE  ticks[gen] > 0 /\ NextChecks # {}
      BY DEF NeverFrozen
    <2>1. ~Reading /\ ~Loading
      BY DEF Reading, Loading
    <2>2. place = "on" /\ visible /\ form.open = {} /\ ~dialog.up
      BY DEF OnlyTheList
    <2>3. ticks[gen] > 0
      BY <2>1, <2>2 DEF Inv, PollInv
    <2>4. CASE view = "services"
      BY <2>2, <2>3, <2>4 DEF NextChecks, ServicesChecks
    <2>5. CASE view = "secrets"
      <3>1. form.step = "ready"
        BY <2>1, <2>2, <2>5 DEF LiveInv, Settled, Awaited
      <3>2. SecretsChecks = {Check}
        BY <2>2, <3>1 DEF SecretsChecks
      <3> QED
        BY <2>3, <2>5, <3>2 DEF NextChecks
    <2>6. CASE view = "charts"
      <3>1. ChartsChecks = {Check}
        BY <2>1, <2>2, <2>6 DEF LiveInv, Awaited, ChartsChecks
      <3> QED
        BY <2>3, <2>6, <3>1 DEF NextChecks
    <2>7. CASE view \in {"stacks", "nodes", "tasks"}
      BY <2>3, <2>7 DEF NextChecks
    <2> QED
      BY <2>3, <2>4, <2>5, <2>6, <2>7
  <1> QED
    BY <1>1, <1>2, <1>3, PTL DEF Spec
=============================================================================
