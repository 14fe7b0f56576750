--------------------------- MODULE LogScreenProofs ---------------------------
(***************************************************************************)
(* What is proved of the screen of the log view, for any number of lines   *)
(* kept, any heights, and any number of arrivals and keys: the reader      *)
(* stays on their row, or with the newest, or comes to their match.        *)
(***************************************************************************)
EXTENDS MCConsole, FiniteSetTheorems, SequenceTheorems, TLAPS

-----------------------------------------------------------------------------
(***************************************************************************)
(* A finite set's members by their keys                                    *)
(***************************************************************************)
Ranked(S, key) ==
  /\ IsFiniteSet(S) /\ key \in [S -> Int]
  /\ \A x, y \in S : key[x] = key[y] => x = y

Below(S, key, x) == {y \in S : key[y] < key[x]}

LEMMA Counts ==
  ASSUME NEW S
  PROVE  Logs!Cardinality(S) = Cardinality(S)
  BY DEF Cardinality, Logs!Cardinality

\* Each member has a rank of its own, and each rank a member.
LEMMA RankIs ==
  ASSUME NEW S, NEW key, Ranked(S, key)
  PROVE  /\ Cardinality(S) \in Nat
         /\ \A x \in S : IsFiniteSet(Below(S, key, x)) /\ Cardinality(Below(S, key, x)) \in 0..(Cardinality(S) - 1)
         /\ \A x, y \in S : Cardinality(Below(S, key, x)) = Cardinality(Below(S, key, y)) => x = y
         /\ \A i \in 0..(Cardinality(S) - 1) : \E x \in S : Cardinality(Below(S, key, x)) = i
  <1> DEFINE n == Cardinality(S)
             rank == [x \in S |-> Cardinality(Below(S, key, x)) + 1]
  <1>1. n \in Nat
    BY FS_CardinalityType DEF Ranked
  <1>2. ASSUME NEW x \in S
        PROVE  IsFiniteSet(Below(S, key, x)) /\ Cardinality(Below(S, key, x)) \in 0..(n - 1)
    <2>1. Below(S, key, x) \subseteq S /\ x \notin Below(S, key, x)
      BY DEF Below, Ranked
    <2>2. IsFiniteSet(S \ {x}) /\ Cardinality(S \ {x}) = n - 1
      BY FS_RemoveElement DEF Ranked
    <2>3. Below(S, key, x) \subseteq S \ {x}
      BY <2>1
    <2>4. IsFiniteSet(Below(S, key, x)) /\ Cardinality(Below(S, key, x)) <= n - 1
      BY <2>2, <2>3, FS_Subset
    <2> QED
      BY <2>4, <1>1, FS_CardinalityType
  <1>3. ASSUME NEW x \in S, NEW y \in S, key[x] < key[y]
        PROVE  Cardinality(Below(S, key, x)) < Cardinality(Below(S, key, y))
    <2>1. Below(S, key, x) \subseteq Below(S, key, y) /\ x \in Below(S, key, y) /\ x \notin Below(S, key, x)
      BY <1>3 DEF Below, Ranked
    <2>2. Below(S, key, x) # Below(S, key, y)
      BY <2>1
    <2>3. Cardinality(Below(S, key, x)) <= Cardinality(Below(S, key, y))
          /\ Cardinality(Below(S, key, x)) # Cardinality(Below(S, key, y))
      BY <1>2, <2>1, <2>2, FS_Subset
    <2> QED
      BY <1>1, <1>2, <2>3
  <1>4. \A x, y \in S : Cardinality(Below(S, key, x)) = Cardinality(Below(S, key, y)) => x = y
    <2> SUFFICES ASSUME NEW x \in S, NEW y \in S, x # y
                 PROVE  Cardinality(Below(S, key, x)) # Cardinality(Below(S, key, y))
      OBVIOUS
    <2>1. key[x] < key[y] \/ key[y] < key[x]
      BY DEF Ranked
    <2> QED
      BY <2>1, <1>1, <1>2, <1>3
  <1>5. rank \in Injection(S, 1..n)
    <2>1. \A x \in S : rank[x] \in 1..n
      BY <1>1, <1>2
    <2>2. \A x, y \in S : rank[x] = rank[y] => x = y
      BY <1>1, <1>2, <1>4
    <2> QED
      BY <2>1, <2>2 DEF Injection, IsInjective
  <1>6. IsFiniteSet(1..n) /\ Cardinality(1..n) = n
    BY <1>1, FS_Interval
  <1>7. rank \in Surjection(S, 1..n)
    BY <1>5, <1>6, FS_Injection DEF Ranked
  <1>8. ASSUME NEW i \in 0..(n - 1)
        PROVE  \E x \in S : Cardinality(Below(S, key, x)) = i
    <2>1. i + 1 \in 1..n
      BY <1>1
    <2>2. PICK x \in S : rank[x] = i + 1
      BY <1>7, <2>1 DEF Surjection
    <2> QED
      BY <2>2, <1>1, <1>2
  <1> QED
    BY <1>1, <1>2, <1>4, <1>8

LEMMA ByKeyIs ==
  ASSUME NEW S, NEW key, Ranked(S, key)
  PROVE  /\ Cardinality(S) \in Nat
         /\ Logs!ByKey(S, key) \in [1..Cardinality(S) -> S]
         /\ Logs!ByKey(S, key) \in Seq(S) /\ Len(Logs!ByKey(S, key)) = Cardinality(S)
         /\ \A k \in 1..Cardinality(S) : Cardinality(Below(S, key, Logs!ByKey(S, key)[k])) = k - 1
         /\ \A x \in S : \E k \in 1..Cardinality(S) : Logs!ByKey(S, key)[k] = x
         /\ \A k \in 1..Cardinality(S) : \A x \in S :
              Cardinality(Below(S, key, x)) = k - 1 => Logs!ByKey(S, key)[k] = x
  <1> DEFINE n == Cardinality(S)
             q == [k \in 1..Logs!Cardinality(S) |->
                     CHOOSE x \in S : Logs!Cardinality({y \in S : key[y] < key[x]}) = k - 1]
  <1>1. Logs!ByKey(S, key) = q /\ Logs!Cardinality(S) = n
    BY Counts DEF Logs!ByKey
  <1>2. n \in Nat
    BY RankIs
  <1>3. \A k \in 1..n : q[k] \in S /\ Cardinality(Below(S, key, q[k])) = k - 1
    <2>1. \A k \in 1..n : k - 1 \in 0..(n - 1)
      BY <1>2
    <2>2. \A x \in S : Logs!Cardinality({y \in S : key[y] < key[x]}) = Cardinality(Below(S, key, x))
      BY Counts DEF Below
    <2>3. \A k \in 1..n : \E x \in S : Logs!Cardinality({y \in S : key[y] < key[x]}) = k - 1
      BY <2>1, <2>2, RankIs
    <2>4. \A k \in 1..n : q[k] \in S /\ Logs!Cardinality({y \in S : key[y] < key[q[k]]}) = k - 1
      BY <1>1, <2>3
    <2> QED
      BY <2>2, <2>4
  <1>4. q \in [1..n -> S]
    BY <1>1, <1>3
  <1>5. q \in Seq(S) /\ Len(q) = n
    <2> HIDE DEF n, q
    <2> QED BY <1>2, <1>4
  <1>6. \A k \in 1..n : \A x \in S : Cardinality(Below(S, key, x)) = k - 1 => q[k] = x
    <2> HIDE DEF q, n
    <2> QED BY <1>3, RankIs
  <1>7. ASSUME NEW x \in S
        PROVE  \E k \in 1..n : q[k] = x
    <2>1. PICK k \in 1..n : Cardinality(Below(S, key, x)) = k - 1
      <3>1. Cardinality(Below(S, key, x)) + 1 \in 1..n
        BY <1>2, RankIs
      <3>2. Cardinality(Below(S, key, x)) = (Cardinality(Below(S, key, x)) + 1) - 1
        BY <1>2, RankIs
      <3> QED
        BY <3>1, <3>2
    <2> QED
      BY <2>1, <1>6
  <1> HIDE DEF q
  <1> QED
    BY <1>1, <1>2, <1>3, <1>4, <1>5, <1>6, <1>7

-----------------------------------------------------------------------------
(***************************************************************************)
(* The rows of a set of lines                                              *)
(***************************************************************************)
Line == [kind : Logs!Kinds, id : Int]
Row == [of : Int, row : {1, 2}]
Numbers(S) == [x \in S |-> 2 * x.of + x.row]
RowSet(lines, wrapped) == UNION {Logs!RowsOf(line, wrapped) : line \in lines}

LEMMA RowsOfIs ==
  ASSUME NEW line \in Line, NEW wrapped
  PROVE  /\ Logs!RowsOf(line, wrapped) \subseteq Row /\ IsFiniteSet(Logs!RowsOf(line, wrapped))
         /\ [of |-> line.id, row |-> 1] \in Logs!RowsOf(line, wrapped)
         /\ \A x \in Logs!RowsOf(line, wrapped) : x.of = line.id
         /\ line.kind # "long" => Logs!RowsOf(line, wrapped) = Logs!RowsOf(line, FALSE)
  <1> DEFINE n == IF line.kind = "mark" \/ (line.kind = "long" /\ wrapped) THEN 2 ELSE 1
  <1>1. Logs!RowsOf(line, wrapped) = {[of |-> line.id, row |-> i] : i \in 1..n}
    BY DEF Logs!RowsOf
  <1>2. n \in {1, 2} /\ 1..n \subseteq {1, 2} /\ 1 \in 1..n
    OBVIOUS
  <1>3. line.kind # "long" => n = IF line.kind = "mark" \/ (line.kind = "long" /\ FALSE) THEN 2 ELSE 1
    OBVIOUS
  <1>4. line.kind # "long" => Logs!RowsOf(line, wrapped) = Logs!RowsOf(line, FALSE)
    BY <1>1, <1>3 DEF Logs!RowsOf
  <1> HIDE DEF n
  <1>5. IsFiniteSet({[of |-> line.id, row |-> i] : i \in {1, 2}})
    <2>1. {[of |-> line.id, row |-> i] : i \in {1, 2}}
            = {[of |-> line.id, row |-> 1], [of |-> line.id, row |-> 2]}
      OBVIOUS
    <2>2. IsFiniteSet({[of |-> line.id, row |-> 1]} \cup {[of |-> line.id, row |-> 2]})
      BY FS_Singleton, FS_Union
    <2>3. {[of |-> line.id, row |-> 1], [of |-> line.id, row |-> 2]}
            = {[of |-> line.id, row |-> 1]} \cup {[of |-> line.id, row |-> 2]}
      OBVIOUS
    <2> QED BY <2>1, <2>2, <2>3
  <1>6. Logs!RowsOf(line, wrapped) \subseteq {[of |-> line.id, row |-> i] : i \in {1, 2}}
    BY <1>1, <1>2
  <1>7. IsFiniteSet(Logs!RowsOf(line, wrapped))
    BY <1>5, <1>6, FS_Subset
  <1>8. Logs!RowsOf(line, wrapped) \subseteq Row
    BY <1>6 DEF Row, Line
  <1>9. \A x \in Logs!RowsOf(line, wrapped) : x.of = line.id
    BY <1>1
  <1> QED
    BY <1>1, <1>2, <1>4, <1>7, <1>8, <1>9

LEMMA RowsAreRanked ==
  ASSUME NEW S, S \subseteq Row, IsFiniteSet(S)
  PROVE  Ranked(S, Numbers(S))
  <1>1. Numbers(S) \in [S -> Int]
    BY DEF Numbers, Row
  <1>2. ASSUME NEW x \in S, NEW y \in S, Numbers(S)[x] = Numbers(S)[y]
        PROVE  x = y
    <2>1. 2 * x.of + x.row = 2 * y.of + y.row
      BY <1>2 DEF Numbers
    <2>2. x.of \in Int /\ y.of \in Int /\ x.row \in {1, 2} /\ y.row \in {1, 2}
      BY DEF Row
    <2>3. x.of = y.of /\ x.row = y.row
      BY <2>1, <2>2
    <2> QED
      BY <2>3 DEF Row
  <1> QED
    BY <1>1, <1>2 DEF Ranked

LEMMA RowSetIs ==
  ASSUME NEW lines, lines \subseteq Line, IsFiniteSet(lines), NEW wrapped
  PROVE  /\ RowSet(lines, wrapped) \subseteq Row /\ IsFiniteSet(RowSet(lines, wrapped))
         /\ \A line \in lines : [of |-> line.id, row |-> 1] \in RowSet(lines, wrapped)
         /\ \A x \in RowSet(lines, wrapped) : \E line \in lines : x.of = line.id /\ x \in Logs!RowsOf(line, wrapped)
         /\ Logs!Rows(lines, wrapped) = Logs!ByKey(RowSet(lines, wrapped), Numbers(RowSet(lines, wrapped)))
  <1> DEFINE all == {Logs!RowsOf(line, wrapped) : line \in lines}
  <1>1. IsFiniteSet(all)
    <2> DEFINE f == [line \in lines |-> Logs!RowsOf(line, wrapped)]
    <2>1. f \in Surjection(lines, all)
      BY DEF Surjection
    <2> QED
      BY <2>1, FS_Surjection
  <1>2. \A T \in all : IsFiniteSet(T)
    BY RowsOfIs
  <1>3. IsFiniteSet(UNION all)
    BY <1>1, <1>2, FS_UNION
  <1>4. Logs!Rows(lines, wrapped) = Logs!ByKey(RowSet(lines, wrapped), Numbers(RowSet(lines, wrapped)))
    BY DEF Logs!Rows, RowSet, Numbers
  <1>5. \A x \in RowSet(lines, wrapped) : \E line \in lines : x \in Logs!RowsOf(line, wrapped)
    BY DEF RowSet
  <1>6. \A line \in lines : Logs!RowsOf(line, wrapped) \subseteq RowSet(lines, wrapped)
    BY DEF RowSet
  <1> QED
    BY <1>3, <1>4, <1>5, <1>6, RowsOfIs DEF RowSet

\* When the oldest row goes and newer ones come, each row that stays is one place higher.
LEMMA OneHigher ==
  ASSUME NEW S, S \subseteq Row, IsFiniteSet(S), NEW T, T \subseteq Row, IsFiniteSet(T),
         NEW h \in S, h \notin T, S \ {h} \subseteq T,
         \A x \in S \ {h} : x.of > h.of,
         \A x \in T \ S : \A y \in S : x.of > y.of,
         NEW i \in 1..(Cardinality(S) - 1)
  PROVE  /\ Cardinality(S) - 1 <= Cardinality(T)
         /\ Logs!ByKey(T, Numbers(T))[i] = Logs!ByKey(S, Numbers(S))[i + 1]
  <1>1. Ranked(S, Numbers(S)) /\ Ranked(T, Numbers(T))
    BY RowsAreRanked
  <1>2. Cardinality(S) \in Nat /\ Cardinality(T) \in Nat
    BY <1>1, RankIs
  <1>3. IsFiniteSet(S \ {h}) /\ Cardinality(S \ {h}) = Cardinality(S) - 1
    BY FS_RemoveElement
  <1>4. Cardinality(S) - 1 <= Cardinality(T)
    BY <1>3, FS_Subset
  <1>5. i + 1 \in 1..Cardinality(S) /\ i \in 1..Cardinality(T)
    BY <1>2, <1>4
  <1>6. PICK x \in S : x = Logs!ByKey(S, Numbers(S))[i + 1] /\ Cardinality(Below(S, Numbers(S), x)) = i
    <2>1. Logs!ByKey(S, Numbers(S))[i + 1] \in S
      BY <1>1, <1>5, ByKeyIs
    <2>2. Cardinality(Below(S, Numbers(S), Logs!ByKey(S, Numbers(S))[i + 1])) = (i + 1) - 1
      BY <1>1, <1>5, ByKeyIs
    <2> QED
      BY <2>1, <2>2
  <1>7. \A y \in S : Numbers(S)[y] = 2 * y.of + y.row /\ y.of \in Int /\ y.row \in {1, 2}
    BY DEF Numbers, Row
  <1>8. \A y \in T : Numbers(T)[y] = 2 * y.of + y.row /\ y.of \in Int /\ y.row \in {1, 2}
    BY DEF Numbers, Row
  <1>9. \A y \in S \ {h} : Numbers(S)[h] < Numbers(S)[y]
    BY <1>7
  <1>10. x # h
    <2> SUFFICES ASSUME x = h PROVE FALSE
      OBVIOUS
    <2>1. \A y \in S : ~(Numbers(S)[y] < Numbers(S)[h])
      BY <1>7, <1>9
    <2>2. Below(S, Numbers(S), x) = {}
      BY <2>1 DEF Below
    <2> QED
      BY <1>6, <2>2, FS_EmptySet
  <1>11. x \in T
    BY <1>10
  <1>12. Below(T, Numbers(T), x) = Below(S, Numbers(S), x) \ {h}
    <2>1. ASSUME NEW y \in Below(T, Numbers(T), x)
          PROVE  y \in Below(S, Numbers(S), x) \ {h}
      <3>1. y \in T /\ Numbers(T)[y] < Numbers(T)[x]
        BY DEF Below
      <3>2. y \in S
        <4> SUFFICES ASSUME y \notin S PROVE FALSE
          OBVIOUS
        <4>1. y.of > x.of
          BY <3>1
        <4> QED
          BY <3>1, <4>1, <1>8, <1>11
      <3> QED
        BY <3>1, <3>2, <1>7, <1>8, <1>11 DEF Below
    <2>2. ASSUME NEW y \in Below(S, Numbers(S), x) \ {h}
          PROVE  y \in Below(T, Numbers(T), x)
      <3>1. y \in S /\ Numbers(S)[y] < Numbers(S)[x] /\ y \in T
        BY DEF Below
      <3> QED
        BY <3>1, <1>7, <1>8, <1>11 DEF Below
    <2> QED
      BY <2>1, <2>2
  <1>13. h \in Below(S, Numbers(S), x)
    BY <1>9, <1>10 DEF Below
  <1>14. Cardinality(Below(T, Numbers(T), x)) = i - 1
    <2>1. IsFiniteSet(Below(S, Numbers(S), x))
      BY <1>1, RankIs
    <2>2. Cardinality(Below(S, Numbers(S), x) \ {h}) = Cardinality(Below(S, Numbers(S), x)) - 1
      BY <2>1, <1>13, FS_RemoveElement
    <2> QED
      BY <2>2, <1>12, <1>6
  <1>15. Logs!ByKey(T, Numbers(T))[i] = x
    BY <1>1, <1>5, <1>11, <1>14, ByKeyIs
  <1> QED
    BY <1>4, <1>6, <1>15

-----------------------------------------------------------------------------
(***************************************************************************)
(* What is drawn of the lines kept, and which of it is found               *)
(***************************************************************************)
LinedUp(lines) ==
  /\ lines \in Seq(Line) /\ Len(lines) = MaxLines
  /\ \A i \in 1..MaxLines : lines[i].id = lines[1].id + (i - 1)

\* The numbers of the lines that are one row wherever they are wrapped.
Short(lines) == {lines[i].id : i \in {j \in 1..MaxLines : lines[j].kind # "long"}}

LEMMA LinesAre ==
  ASSUME NEW lines, LinedUp(lines), NEW r
  PROVE  /\ 1 \in 1..MaxLines /\ MaxLines \in 1..MaxLines /\ MaxLines \in Nat
         /\ \A i \in 1..MaxLines : lines[i] \in Line /\ lines[i].id \in Int /\ lines[i].id <= lines[MaxLines].id
         /\ \A i, j \in 1..MaxLines : lines[i].id = lines[j].id => i = j
         /\ \A i, j \in 1..MaxLines : i < j => lines[i].id < lines[j].id
         /\ Logs!Range(lines) = {lines[i] : i \in 1..MaxLines}
         /\ Logs!Visible(lines, r) \subseteq {lines[i] : i \in 1..MaxLines}
         /\ Logs!Visible(lines, r) \subseteq Line /\ IsFiniteSet(Logs!Visible(lines, r))
         /\ Logs!Visible(lines, r) = {line \in Logs!Range(lines) : Logs!lineVisible(line, r)}
  <1>1. 1 \in 1..MaxLines /\ MaxLines \in 1..MaxLines /\ MaxLines \in Nat
    BY LogScreenAssumption
  <1>2. DOMAIN lines = 1..MaxLines
    BY DEF LinedUp
  <1>3. \A i \in 1..MaxLines : lines[i] \in Line /\ lines[i].id \in Int
    <2>1. \A i \in 1..MaxLines : lines[i] \in Line
      BY <1>2 DEF LinedUp
    <2> QED
      BY <2>1 DEF Line
  <1>4. \A i \in 1..MaxLines : lines[i].id = lines[1].id + (i - 1)
    BY DEF LinedUp
  <1>5. \A i, j \in 1..MaxLines : i < j => lines[i].id < lines[j].id
    BY <1>1, <1>3, <1>4
  <1>6. Logs!Range(lines) = {lines[i] : i \in 1..MaxLines}
    BY <1>2 DEF Logs!Range
  <1>7. Logs!Visible(lines, r) = {line \in Logs!Range(lines) : Logs!lineVisible(line, r)}
    BY DEF Logs!Visible
  <1>8. IsFiniteSet(Logs!Range(lines))
    <2> DEFINE f == [i \in 1..MaxLines |-> lines[i]]
    <2>1. f \in Surjection(1..MaxLines, {lines[i] : i \in 1..MaxLines})
      BY DEF Surjection
    <2>2. IsFiniteSet(1..MaxLines)
      BY <1>1, FS_Interval
    <2> QED
      BY <2>1, <2>2, <1>6, FS_Surjection
  <1>9. Logs!Visible(lines, r) \subseteq Logs!Range(lines)
    BY <1>7
  <1>10. IsFiniteSet(Logs!Visible(lines, r))
    BY <1>8, <1>9, FS_Subset
  <1>11. Logs!Visible(lines, r) \subseteq Line
    BY <1>3, <1>6, <1>9
  <1>12. \A i, j \in 1..MaxLines : lines[i].id = lines[j].id => i = j
    BY <1>1, <1>3, <1>4
  <1>13. \A i \in 1..MaxLines : lines[i].id <= lines[MaxLines].id
    <2> TAKE i \in 1..MaxLines
    <2>1. lines[i].id = lines[1].id + (i - 1) /\ lines[MaxLines].id = lines[1].id + (MaxLines - 1)
      BY <1>1, <1>4
    <2>2. lines[1].id \in Int
      BY <1>1, <1>3
    <2> QED
      BY <1>1, <2>1, <2>2
  <1> QED
    BY <1>1, <1>3, <1>5, <1>6, <1>7, <1>9, <1>10, <1>11, <1>12, <1>13

LEMMA RowsAre ==
  ASSUME NEW lines, LinedUp(lines), NEW r, NEW wrapped
  PROVE  /\ Logs!Rows(Logs!Visible(lines, r), wrapped) \in Seq(Row)
         /\ Len(Logs!Rows(Logs!Visible(lines, r), wrapped)) = Cardinality(RowSet(Logs!Visible(lines, r), wrapped))
         /\ \A k \in DOMAIN Logs!Rows(Logs!Visible(lines, r), wrapped) :
              \E i \in 1..MaxLines : Logs!Rows(Logs!Visible(lines, r), wrapped)[k].of = lines[i].id
         /\ \A line \in Logs!Visible(lines, r) :
              \E k \in DOMAIN Logs!Rows(Logs!Visible(lines, r), wrapped) :
                Logs!Rows(Logs!Visible(lines, r), wrapped)[k].of = line.id
  <1> DEFINE V == Logs!Visible(lines, r)
             S == RowSet(V, wrapped)
             q == Logs!Rows(V, wrapped)
  <1>1. V \subseteq Line /\ IsFiniteSet(V) /\ V \subseteq {lines[i] : i \in 1..MaxLines}
    BY LinesAre
  <1> HIDE DEF V
  <1>2. /\ S \subseteq Row /\ IsFiniteSet(S)
        /\ \A line \in V : [of |-> line.id, row |-> 1] \in S
        /\ \A x \in S : \E line \in V : x.of = line.id
        /\ q = Logs!ByKey(S, Numbers(S))
    BY <1>1, RowSetIs
  <1> HIDE DEF S, q
  <1>3. Ranked(S, Numbers(S))
    BY <1>2, RowsAreRanked
  <1>4. q \in Seq(S) /\ Len(q) = Cardinality(S) /\ q \in [1..Cardinality(S) -> S]
        /\ \A x \in S : \E k \in 1..Cardinality(S) : q[k] = x
    <2> DEFINE b == Logs!ByKey(S, Numbers(S))
    <2>1. b \in Seq(S) /\ Len(b) = Cardinality(S) /\ b \in [1..Cardinality(S) -> S]
      BY <1>3, ByKeyIs
    <2>2. \A x \in S : \E k \in 1..Cardinality(S) : b[k] = x
      BY <1>3, ByKeyIs
    <2>3. q = b
      BY <1>2
    <2> HIDE DEF b
    <2> QED
      BY <2>1, <2>2, <2>3
  <1>5. q \in Seq(Row)
    BY <1>2, <1>4
  <1>6. ASSUME NEW k \in DOMAIN q
        PROVE  \E i \in 1..MaxLines : q[k].of = lines[i].id
    <2>1. q[k] \in S
      BY <1>4
    <2>2. PICK line \in V : q[k].of = line.id
      BY <1>2, <2>1
    <2> QED
      BY <2>2, <1>1
  <1>7. ASSUME NEW line \in V
        PROVE  \E k \in DOMAIN q : q[k].of = line.id
    <2>1. PICK k \in 1..Cardinality(S) : q[k] = [of |-> line.id, row |-> 1]
      BY <1>2, <1>4
    <2> QED
      BY <2>1, <1>4
  <1> QED
    BY <1>4, <1>5, <1>6, <1>7 DEF V, S, q

LEMMA SeqWithin ==
  ASSUME NEW S, NEW T, S \subseteq T, NEW q \in Seq(S)
  PROVE  q \in Seq(T) /\ \A k \in 1..Len(q) : q[k] \in S
  OBVIOUS

LEMMA FoundIs ==
  ASSUME NEW rows \in Seq(Row), NEW words
  PROVE  /\ Logs!Found(rows, words) \in Seq(Nat)
         /\ \A k \in 1..Len(Logs!Found(rows, words)) : Logs!Found(rows, words)[k] \in 0..(Len(rows) - 1)
  <1> DEFINE found == {p \in 0..(Len(rows) - 1) : rows[p + 1].of \in words}
             key == [p \in found |-> p]
  <1>1. Len(rows) \in Nat
    OBVIOUS
  <1>2. Logs!Found(rows, words) = Logs!ByKey(found, key)
    BY DEF Logs!Found
  <1>3. IsFiniteSet(0..(Len(rows) - 1))
    BY <1>1, FS_Interval
  <1>4. found \subseteq 0..(Len(rows) - 1)
    OBVIOUS
  <1>5. IsFiniteSet(found)
    BY <1>3, <1>4, FS_Subset
  <1>6. Ranked(found, key)
    BY <1>4, <1>5 DEF Ranked
  <1>7. found \subseteq Nat
    BY <1>4
  <1> HIDE DEF found, key
  <1>8. Logs!ByKey(found, key) \in Seq(found)
    BY <1>6, ByKeyIs
  <1> DEFINE b == Logs!ByKey(found, key)
  <1> HIDE DEF b
  <1>9. b \in Seq(found) /\ b = Logs!Found(rows, words)
    BY <1>2, <1>8 DEF b
  <1>10. b \in Seq(Nat)
    BY <1>7, <1>9, SeqWithin
  <1>11. \A k \in 1..Len(b) : b[k] \in 0..(Len(rows) - 1)
    BY <1>4, <1>9, SeqWithin
  <1> QED
    BY <1>9, <1>10, <1>11

LEMMA MatchesAre ==
  ASSUME NEW lines, LinedUp(lines), NEW r
  PROVE  Logs!Matches(lines, r) \in Seq(Nat)
  <1>1. Logs!Rows(Logs!Visible(lines, r), FALSE) \in Seq(Row)
    BY RowsAre
  <1>2. Logs!Found(Logs!Rows(Logs!Visible(lines, r), FALSE), Logs!Words(lines)) \in Seq(Nat)
    BY <1>1, FoundIs
  <1>3. <<>> \in Seq(Nat)
    OBVIOUS
  <1> QED
    BY <1>2, <1>3 DEF Logs!Matches

\* Matches are positions before wrapping: those of what is drawn, where no line drawn is long.
LEMMA MatchesOfShort ==
  ASSUME NEW lines, LinedUp(lines), NEW r, Logs!Matches(lines, r) # <<>>,
         \A k \in DOMAIN Logs!Content(lines, r) : Logs!Content(lines, r)[k].of \in Short(lines)
  PROVE  Logs!Matches(lines, r) = Logs!Found(Logs!Content(lines, r), Logs!Words(lines))
  <1> DEFINE V == Logs!Visible(lines, r)
             w == r.wrap /\ ~r.dialog
  <1>1. Logs!Content(lines, r) = Logs!Rows(V, w)
    BY DEF Logs!Content
  <1>2. \A line \in V : line.kind # "long"
    <2> TAKE line \in V
    <2>1. PICK k \in DOMAIN Logs!Content(lines, r) : Logs!Content(lines, r)[k].of = line.id
      BY <1>1, RowsAre
    <2>2. PICK i \in 1..MaxLines : lines[i].kind # "long" /\ line.id = lines[i].id
      BY <2>1 DEF Short
    <2>3. PICK j \in 1..MaxLines : line = lines[j]
      BY LinesAre
    <2> QED
      BY <2>2, <2>3, LinesAre
  <1>3. V \subseteq Line
    BY LinesAre
  <1> HIDE DEF V, w
  <1>4. \A line \in V : Logs!RowsOf(line, w) = Logs!RowsOf(line, FALSE)
    BY <1>2, <1>3, RowsOfIs
  <1>5. {Logs!RowsOf(line, w) : line \in V} = {Logs!RowsOf(line, FALSE) : line \in V}
    BY <1>4
  <1>6. Logs!Rows(V, w) = Logs!Rows(V, FALSE)
    BY <1>5 DEF Logs!Rows
  <1> QED
    BY <1>1, <1>6 DEF Logs!Matches, V

-----------------------------------------------------------------------------
(***************************************************************************)
(* What holds of the screen throughout                                     *)
(***************************************************************************)
LogTypes ==
  /\ offset \in Nat /\ match \in Nat /\ height \in Heights /\ ready \in BOOLEAN
  /\ told \subseteq {"wrap", "node", "stopped", "mark", "fade"}
  /\ arrivals \in 0..MaxArrivals /\ keys \in 0..MaxKeys

\* What is drawn came no later than the newest line kept, though its own line may be gone.
Rowed ==
  /\ drawn \in Seq(Row) /\ matches \in Seq(Nat)
  /\ \A i \in DOMAIN drawn : drawn[i].of <= buffer[MaxLines].id

\* The matches are those of what is drawn for as long as its lines are all kept and none of
\* them is long: a mark takes the oldest line out of the buffer before anything is drawn again,
\* and a term typed anew, or none, leaves the matches of the last one.
UpToDate ==
  ready /\ matches # <<>> /\ (\A i \in DOMAIN drawn : drawn[i].of \in Short(buffer))
    => matches = Logs!Found(drawn, Logs!Words(buffer))

LogInv == LinedUp(buffer) /\ LogTypes /\ Rowed /\ UpToDate

\* How a step leaves the buffer, and how it leaves the rows and the matches.
Keeps == buffer' = buffer \/ \E kind \in Logs!Kinds : Logs!Append1(kind)
Redraws ==
  \/ Logs!Build
  \/ UNCHANGED <<drawn, matches, ready>>
  \/ ~ready' /\ drawn' = drawn /\ matches' = Logs!Matches(buffer', reading')

LEMMA DrawsRedraws ==
  ASSUME NEW at, ready' = ready, Logs!Draws(at)
  PROVE  Redraws
  BY DEF Redraws, Logs!Draws

LEMMA HighlightRedraws ==
  ASSUME NEW at, ready' = ready, Logs!Highlight(at)
  PROVE  Redraws
  BY DEF Redraws, Logs!Highlight, Logs!Build

LEMMA SyncRedraws ==
  ASSUME NEW dropped, ready' = ready, Logs!SyncViewport(dropped)
  PROVE  Redraws
  BY DEF Redraws, Logs!SyncViewport

\* A message of the view's own leaves the buffer, and a key the size of the window.
LEMMA ReceivesIs ==
  ASSUME NEW message, Logs!Receives(message)
  PROVE  Keeps /\ ready' = ready
  BY DEF Logs!Receives, Keeps

LEMMA StepKeeps ==
  ASSUME Logs!Next
  PROVE  Keeps
  <1>1. ASSUME NEW kind \in Logs!Logged \cup {"notice"}, Logs!Arrives(kind)
        PROVE  Keeps
    <2>1. kind \in Logs!Kinds
      BY DEF Logs!Kinds
    <2> QED
      BY <1>1, <2>1 DEF Logs!Arrives, Keeps
  <1>2. Logs!Mark => Keeps
    <2>1. "mark" \in Logs!Kinds
      BY DEF Logs!Kinds
    <2> QED
      BY <2>1 DEF Logs!Mark, Keeps
  <1>3. Logs!WrapToggled \/ Logs!NodeFilterToggled \/ Logs!HideStoppedToggled \/ Logs!MarkInserted \/ Logs!FadeTick => Keeps
    BY ReceivesIs DEF Logs!WrapToggled, Logs!NodeFilterToggled, Logs!HideStoppedToggled, Logs!MarkInserted, Logs!FadeTick
  <1>4. Logs!Resize \/ Logs!TaskStops \/ Logs!Scroll \/ Logs!Filter \/ Logs!OpenSearch \/ Logs!TypeTerm
        \/ Logs!SearchEnter \/ Logs!NextMatch => Keeps
    BY DEF Logs!Resize, Logs!TaskStops, Logs!Scroll, Logs!Filter, Logs!OpenSearch, Logs!TypeTerm,
           Logs!SearchEnter, Logs!NextMatch, Keeps
  <1>5. Logs!ToggleFollow \/ Logs!ToggleWrap \/ Logs!ScrollSideways \/ Logs!ToggleStopped \/ Logs!OpenNodes
        \/ Logs!NodesKey \/ Logs!CancelSearch => Keeps
    BY DEF Logs!ToggleFollow, Logs!ToggleWrap, Logs!ScrollSideways, Logs!ToggleStopped, Logs!OpenNodes,
           Logs!NodesKey, Logs!CancelSearch, Logs!Set, Keeps
  <1> QED
    BY <1>1, <1>2, <1>3, <1>4, <1>5 DEF Logs!Next

LEMMA StepRedraws ==
  ASSUME Logs!Next
  PROVE  Redraws
  <1>1. ASSUME NEW kind, Logs!Arrives(kind)
        PROVE  Redraws
    BY <1>1, SyncRedraws DEF Logs!Arrives
  <1>2. Logs!WrapToggled \/ Logs!NodeFilterToggled \/ Logs!FadeTick => Redraws
    BY ReceivesIs, DrawsRedraws DEF Logs!WrapToggled, Logs!NodeFilterToggled, Logs!FadeTick
  <1>3. Logs!HideStoppedToggled => Redraws
    BY ReceivesIs, HighlightRedraws DEF Logs!HideStoppedToggled, Redraws
  <1>4. Logs!MarkInserted => Redraws
    BY ReceivesIs, SyncRedraws DEF Logs!MarkInserted
  <1>5. Logs!Resize => Redraws
    BY DEF Logs!Resize, Redraws
  <1>6. Logs!TaskStops => Redraws
    BY DEF Logs!TaskStops, Logs!viewport, Redraws
  <1>7. Logs!Filter \/ Logs!TypeTerm \/ Logs!SearchEnter => Redraws
    BY HighlightRedraws DEF Logs!Filter, Logs!TypeTerm, Logs!SearchEnter, Logs!Press
  <1>8. Logs!Scroll \/ Logs!OpenSearch \/ Logs!Mark => Redraws
    BY DEF Logs!Scroll, Logs!OpenSearch, Logs!Mark, Logs!Press, Redraws
  <1>9. Logs!ToggleFollow \/ Logs!ToggleWrap \/ Logs!ScrollSideways \/ Logs!ToggleStopped \/ Logs!OpenNodes
        \/ Logs!NodesKey \/ Logs!CancelSearch => Redraws
    BY DEF Logs!ToggleFollow, Logs!ToggleWrap, Logs!ScrollSideways, Logs!ToggleStopped, Logs!OpenNodes,
           Logs!NodesKey, Logs!CancelSearch, Logs!Set, Logs!Press, Redraws
  <1>10. Logs!NextMatch => Redraws
    BY DEF Logs!NextMatch, Logs!Press, Redraws
  <1> QED
    BY <1>1, <1>2, <1>3, <1>4, <1>5, <1>6, <1>7, <1>8, <1>9, <1>10 DEF Logs!Next

\* The oldest line goes and each of the others moves up by one.
LEMMA AppendIs ==
  ASSUME LinedUp(buffer), NEW kind \in Logs!Kinds, Logs!Append1(kind)
  PROVE  /\ LinedUp(buffer') /\ Logs!Dropped = 1
         /\ \A i \in 1..(MaxLines - 1) : buffer'[i] = buffer[i + 1]
         /\ buffer'[MaxLines] = [kind |-> kind, id |-> buffer[MaxLines].id + 1]
  <1>1. /\ 1 \in 1..MaxLines /\ MaxLines \in 1..MaxLines /\ MaxLines \in Nat
        /\ \A i \in 1..MaxLines : buffer[i] \in Line /\ buffer[i].id \in Int
    BY LinesAre
  <1>2. Logs!Dropped = 1
    BY DEF Logs!Dropped, LinedUp
  <1> DEFINE new == [kind |-> kind, id |-> buffer[MaxLines].id + 1]
  <1>3. Logs!Last(buffer) = buffer[MaxLines]
    BY DEF LinedUp, Logs!Last
  <1>4. new \in Line
    BY <1>1 DEF Line
  <1>5. buffer' = SubSeq(Append(buffer, new), 2, MaxLines + 1)
    BY <1>2, <1>3 DEF Logs!Append1, LinedUp
  <1> HIDE DEF new
  <1>6. /\ Append(buffer, new) \in Seq(Line) /\ Len(Append(buffer, new)) = MaxLines + 1
        /\ \A i \in 1..MaxLines : Append(buffer, new)[i] = buffer[i]
        /\ Append(buffer, new)[MaxLines + 1] = new
    BY <1>1, <1>4 DEF LinedUp
  <1> DEFINE q == Append(buffer, new)
  <1> HIDE DEF q
  <1>7. buffer' \in Seq(Line) /\ Len(buffer') = MaxLines /\ \A i \in 1..MaxLines : buffer'[i] = q[i + 1]
    <2>1. q \in Seq(Line) /\ Len(q) = MaxLines + 1 /\ buffer' = SubSeq(q, 2, MaxLines + 1)
      BY <1>5, <1>6 DEF q
    <2> QED
      BY <1>1, <2>1
  <1>8. \A i \in 1..(MaxLines - 1) : buffer'[i] = buffer[i + 1]
    BY <1>1, <1>6, <1>7 DEF q
  <1>9. buffer'[MaxLines] = new
    BY <1>1, <1>6, <1>7 DEF q
  <1>10. \A i \in 1..MaxLines : buffer'[i].id = buffer[1].id + i
    <2> TAKE i \in 1..MaxLines
    <2>1. \A j \in 1..MaxLines : buffer[j].id = buffer[1].id + (j - 1)
      BY DEF LinedUp
    <2>2. CASE i = MaxLines
      BY <1>1, <1>9, <2>1, <2>2 DEF new
    <2>3. CASE i # MaxLines
      <3>1. i \in 1..(MaxLines - 1) /\ i + 1 \in 1..MaxLines
        BY <1>1, <2>3
      <3> QED
        BY <1>1, <1>8, <2>1, <3>1
    <2> QED
      BY <2>2, <2>3
  <1>11. \A i \in 1..MaxLines : buffer'[i].id = buffer'[1].id + (i - 1)
    BY <1>1, <1>10
  <1> QED
    BY <1>2, <1>7, <1>8, <1>9, <1>11 DEF LinedUp, new

\* Of the lines that were kept, those still kept are the lines they were.
LEMMA KeptAsTheyWere ==
  ASSUME LinedUp(buffer), Keeps, NEW n \in Int, n <= buffer[MaxLines].id
  PROVE  /\ n \in Short(buffer') => n \in Short(buffer)
         /\ n \in Short(buffer') => (n \in Logs!Words(buffer') <=> n \in Logs!Words(buffer))
  <1>1. CASE buffer' = buffer
    <2>1. Short(buffer') = Short(buffer) /\ Logs!Words(buffer') = Logs!Words(buffer)
      BY <1>1
    <2> QED
      BY <2>1
  <1>2. ASSUME NEW kind \in Logs!Kinds, Logs!Append1(kind)
        PROVE  /\ n \in Short(buffer') => n \in Short(buffer)
               /\ n \in Short(buffer') => (n \in Logs!Words(buffer') <=> n \in Logs!Words(buffer))
    <2>1. /\ LinedUp(buffer')
          /\ \A i \in 1..(MaxLines - 1) : buffer'[i] = buffer[i + 1]
          /\ buffer'[MaxLines] = [kind |-> kind, id |-> buffer[MaxLines].id + 1]
      BY <1>2, AppendIs
    <2>2. /\ MaxLines \in Nat /\ MaxLines \in 1..MaxLines
          /\ \A i \in 1..MaxLines : buffer[i].id \in Int
          /\ \A i, j \in 1..MaxLines : buffer[i].id = buffer[j].id => i = j
          /\ Logs!Range(buffer) = {buffer[i] : i \in 1..MaxLines}
      BY LinesAre
    <2>3. /\ \A i, j \in 1..MaxLines : buffer'[i].id = buffer'[j].id => i = j
          /\ Logs!Range(buffer') = {buffer'[i] : i \in 1..MaxLines}
      BY <2>1, LinesAre
    <2>4. ASSUME NEW i \in 1..MaxLines, buffer'[i].id = n
          PROVE  i \in 1..(MaxLines - 1) /\ i + 1 \in 1..MaxLines /\ buffer'[i] = buffer[i + 1]
      <3>1. i # MaxLines
        BY <2>1, <2>2, <2>4
      <3> QED
        BY <2>1, <2>2, <3>1
    <2>5. ASSUME n \in Short(buffer')
          PROVE  n \in Short(buffer) /\ (n \in Logs!Words(buffer') <=> n \in Logs!Words(buffer))
      <3>1. PICK i \in 1..MaxLines : buffer'[i].kind # "long" /\ buffer'[i].id = n
        BY <2>5 DEF Short
      <3>2. i + 1 \in 1..MaxLines /\ buffer'[i] = buffer[i + 1]
        BY <2>4, <3>1
      <3>3. n \in Short(buffer)
        BY <3>1, <3>2 DEF Short
      <3>4. n \in Logs!Words(buffer') <=> buffer'[i].kind = "word"
        <4>1. ASSUME n \in Logs!Words(buffer')
              PROVE  buffer'[i].kind = "word"
          <5>1. PICK line \in Logs!Range(buffer') : line.kind = "word" /\ line.id = n
            BY <4>1 DEF Logs!Words
          <5>2. PICK j \in 1..MaxLines : line = buffer'[j]
            BY <2>3
          <5> QED
            BY <5>1, <5>2, <3>1, <2>3
        <4>2. ASSUME buffer'[i].kind = "word"
              PROVE  n \in Logs!Words(buffer')
          BY <4>2, <2>3, <3>1 DEF Logs!Words
        <4> QED
          BY <4>1, <4>2
      <3>5. n \in Logs!Words(buffer) <=> buffer[i + 1].kind = "word"
        <4>1. ASSUME n \in Logs!Words(buffer)
              PROVE  buffer[i + 1].kind = "word"
          <5>1. PICK line \in Logs!Range(buffer) : line.kind = "word" /\ line.id = n
            BY <4>1 DEF Logs!Words
          <5>2. PICK j \in 1..MaxLines : line = buffer[j]
            BY <2>2
          <5> QED
            BY <5>1, <5>2, <3>1, <3>2, <2>2
        <4>2. ASSUME buffer[i + 1].kind = "word"
              PROVE  n \in Logs!Words(buffer)
          BY <4>2, <2>2, <3>1, <3>2 DEF Logs!Words
        <4> QED
          BY <4>1, <4>2
      <3> QED
        BY <3>2, <3>3, <3>4, <3>5
    <2> QED
      BY <2>5
  <1> QED
    BY <1>1, <1>2 DEF Keeps

LEMMA RedrawingKeeps ==
  ASSUME LogInv, Keeps, Redraws
  PROVE  LinedUp(buffer') /\ Rowed' /\ UpToDate'
  <1>1. LinedUp(buffer)
    BY DEF LogInv
  <1>2. LinedUp(buffer')
    BY <1>1, AppendIs DEF Keeps
  <1>3. /\ MaxLines \in 1..MaxLines
        /\ \A i \in 1..MaxLines : buffer'[i].id \in Int /\ buffer'[i].id <= buffer'[MaxLines].id
    BY <1>2, LinesAre
  <1>4. buffer[MaxLines].id \in Int /\ buffer[MaxLines].id <= buffer'[MaxLines].id
    <2>1. buffer[MaxLines].id \in Int
      BY <1>1, <1>3, LinesAre
    <2>2. ASSUME NEW kind \in Logs!Kinds, Logs!Append1(kind)
          PROVE  buffer'[MaxLines].id = buffer[MaxLines].id + 1
      <3>1. buffer'[MaxLines] = [kind |-> kind, id |-> buffer[MaxLines].id + 1]
        BY <1>1, <2>2, AppendIs
      <3> QED
        BY <3>1
    <2> QED
      BY <2>1, <2>2 DEF Keeps
  <1>5. CASE Logs!Build
    <2>1. drawn' = Logs!Content(buffer', reading') /\ matches' = Logs!Matches(buffer', reading')
      BY <1>5 DEF Logs!Build
    <2>2. /\ drawn' \in Seq(Row)
          /\ \A k \in DOMAIN drawn' : \E i \in 1..MaxLines : drawn'[k].of = buffer'[i].id
      BY <1>2, <2>1, RowsAre DEF Logs!Content
    <2>3. matches' \in Seq(Nat)
      BY <1>2, <2>1, MatchesAre
    <2>4. Rowed'
      BY <1>3, <2>2, <2>3 DEF Rowed
    <2>5. UpToDate'
      BY <1>2, <2>1, MatchesOfShort DEF UpToDate
    <2> QED
      BY <1>2, <2>4, <2>5
  <1>6. CASE UNCHANGED <<drawn, matches, ready>>
    <2>1. drawn \in Seq(Row) /\ \A i \in DOMAIN drawn : drawn[i].of \in Int /\ drawn[i].of <= buffer[MaxLines].id
      <3>1. drawn \in Seq(Row) /\ \A i \in DOMAIN drawn : drawn[i].of <= buffer[MaxLines].id
        BY DEF LogInv, Rowed
      <3>2. \A i \in DOMAIN drawn : drawn[i] \in Row
        BY <3>1
      <3> QED
        BY <3>1, <3>2 DEF Row
    <2>2. Rowed'
      BY <1>4, <1>3, <1>6, <2>1 DEF LogInv, Rowed
    <2>3. ASSUME ready, matches # <<>>, \A i \in DOMAIN drawn : drawn[i].of \in Short(buffer')
          PROVE  matches = Logs!Found(drawn, Logs!Words(buffer'))
      <3>1. \A i \in DOMAIN drawn : drawn[i].of \in Short(buffer)
                                    /\ (drawn[i].of \in Logs!Words(buffer') <=> drawn[i].of \in Logs!Words(buffer))
        BY <1>1, <2>1, <2>3, KeptAsTheyWere
      <3>2. matches = Logs!Found(drawn, Logs!Words(buffer))
        BY <2>3, <3>1 DEF LogInv, UpToDate
      <3>3. \A p \in 0..(Len(drawn) - 1) : p + 1 \in DOMAIN drawn
        BY <2>1
      <3>4. {p \in 0..(Len(drawn) - 1) : drawn[p + 1].of \in Logs!Words(buffer')}
              = {p \in 0..(Len(drawn) - 1) : drawn[p + 1].of \in Logs!Words(buffer)}
        BY <3>1, <3>3
      <3> QED
        BY <3>2, <3>4 DEF Logs!Found
    <2>4. UpToDate'
      BY <1>6, <2>3 DEF UpToDate
    <2> QED
      BY <1>2, <2>2, <2>4
  <1>7. CASE ~ready' /\ drawn' = drawn /\ matches' = Logs!Matches(buffer', reading')
    <2>1. drawn \in Seq(Row) /\ \A i \in DOMAIN drawn : drawn[i].of \in Int /\ drawn[i].of <= buffer[MaxLines].id
      <3>1. drawn \in Seq(Row) /\ \A i \in DOMAIN drawn : drawn[i].of <= buffer[MaxLines].id
        BY DEF LogInv, Rowed
      <3>2. \A i \in DOMAIN drawn : drawn[i] \in Row
        BY <3>1
      <3> QED
        BY <3>1, <3>2 DEF Row
    <2>2. matches' \in Seq(Nat)
      BY <1>2, <1>7, MatchesAre
    <2>3. Rowed'
      BY <1>3, <1>4, <1>7, <2>1, <2>2 DEF Rowed
    <2>4. UpToDate'
      BY <1>7 DEF UpToDate
    <2> QED
      BY <1>2, <2>3, <2>4
  <1> QED
    BY <1>5, <1>6, <1>7 DEF Redraws

-----------------------------------------------------------------------------
(***************************************************************************)
(* Where the window is                                                     *)
(***************************************************************************)
LEMMA HeightsAre == Heights \subseteq Nat /\ \A h \in Heights : h >= 1 /\ h \div 2 \in Nat /\ h \div 2 <= h - 1
  <1>1. \A h \in Heights : h \in Nat /\ h >= 1
    BY LogScreenAssumption
  <1>2. \A h \in Nat : h >= 1 => h \div 2 \in Nat /\ h \div 2 <= h - 1
    OBVIOUS
  <1> QED
    BY <1>1, <1>2

LEMMA PageIs ==
  ASSUME NEW content \in Seq(Row), NEW h \in Nat
  PROVE  /\ Len(content) \in Nat
         /\ Logs!LastPage(content, h) = IF Len(content) - h >= 0 THEN Len(content) - h ELSE 0
         /\ Logs!LastPage(content, h) \in Nat
  BY DEF Logs!LastPage, Logs!Greater

LEMMA BottomIs ==
  ASSUME NEW content \in Seq(Row), height' \in Nat
  PROVE  /\ Logs!Bottom(content) = Logs!LastPage(content, height')
         /\ Logs!Bottom(content) \in Nat /\ Logs!Bottom(content) + height' >= Len(content)
  BY PageIs DEF Logs!Bottom

LEMMA KeptIs ==
  ASSUME NEW content \in Seq(Row), height' \in Nat, NEW at \in Nat
  PROVE  /\ Logs!Kept(content, at) \in Nat
         /\ at <= Len(content) - 1 => Logs!Kept(content, at) = at
         /\ Logs!Lesser(at, Logs!Bottom(content)) \in Nat
  BY BottomIs DEF Logs!Kept, Logs!Lesser

LEMMA ScrollToMatchIs ==
  ASSUME drawn' \in Seq(Row), height \in Heights, height' \in Nat,
         NEW content \in Seq(Row), NEW position \in Nat
  PROVE  /\ Logs!ScrollToMatch(position, content) \in Nat
         /\ position <= Len(content) - 1 /\ Len(drawn') = Len(content)
              => position \in Logs!ScrollToMatch(position, content)..(Logs!ScrollToMatch(position, content) + height - 1)
  <1> DEFINE half == height \div 2
             up == Logs!Greater(0, position - half)
             at == Logs!Lesser(up, Logs!LastPage(content, height))
  <1>1. half \in Nat /\ half <= height - 1 /\ height \in Nat /\ height >= 1
    BY HeightsAre
  <1> HIDE DEF half
  <1>2. up \in Nat /\ (up = 0 \/ up = position - half) /\ up >= position - half
    BY <1>1 DEF Logs!Greater
  <1>3. Logs!LastPage(content, height) \in Nat
        /\ Logs!LastPage(content, height) = IF Len(content) - height >= 0 THEN Len(content) - height ELSE 0
    BY <1>1, PageIs
  <1> HIDE DEF up
  <1>4. at \in Nat /\ (at = up \/ at = Logs!LastPage(content, height)) /\ at <= up /\ at <= Logs!LastPage(content, height)
    BY <1>2, <1>3 DEF Logs!Lesser
  <1>5. Logs!ScrollToMatch(position, content) = Logs!Kept(drawn', at)
    BY DEF Logs!ScrollToMatch, at, up, half
  <1> HIDE DEF at
  <1>6. Logs!Kept(drawn', at) \in Nat /\ (at <= Len(drawn') - 1 => Logs!Kept(drawn', at) = at)
    BY <1>4, KeptIs
  <1>7. ASSUME position <= Len(content) - 1, Len(drawn') = Len(content)
        PROVE  at <= Len(drawn') - 1 /\ position \in at..(at + height - 1)
    <2>1. Len(content) \in Nat /\ Len(content) >= 1
      BY <1>7
    <2>2. at <= Len(content) - 1
      BY <1>1, <1>3, <1>4, <2>1
    <2>3. at <= position
      BY <1>1, <1>2, <1>4
    <2>4. position <= at + height - 1
      BY <1>1, <1>2, <1>3, <1>4, <1>7, <2>1
    <2> QED
      BY <1>7, <2>2, <2>3, <2>4, <1>1, <1>4
  <1> QED
    BY <1>5, <1>6, <1>7

\* The window stays where rows can be.
Windows == drawn' \in Seq(Row) /\ drawn \in Seq(Row) /\ matches' \in Seq(Nat) /\ matches \in Seq(Nat)

LEMMA DrawsAt ==
  ASSUME LogTypes, NEW at, Logs!Draws(at), at \in Nat
  PROVE  offset' \in Nat
  BY DEF Logs!Draws, LogTypes

LEMMA HighlightAt ==
  ASSUME LogTypes, NEW at, Logs!Highlight(at), ready => at \in Nat
  PROVE  offset' \in Nat
  BY DEF Logs!Highlight, LogTypes

LEMMA SyncAt ==
  ASSUME LogTypes, Windows, height' \in Nat, NEW dropped \in {0, 1}, Logs!SyncViewport(dropped)
  PROVE  offset' \in Nat
  <1>1. Logs!Greater(0, offset - dropped) \in Nat
    BY DEF Logs!Greater, LogTypes
  <1>2. Logs!Bottom(drawn') \in Nat /\ Logs!Lesser(Logs!Greater(0, offset - dropped), Logs!Bottom(drawn')) \in Nat
    BY <1>1, BottomIs, KeptIs DEF Windows
  <1>3. CASE ready
    BY <1>2, <1>3 DEF Logs!SyncViewport
  <1>4. CASE ~ready
    BY <1>4 DEF Logs!SyncViewport, LogTypes
  <1> QED
    BY <1>3, <1>4

LEMMA OffsetIs ==
  ASSUME LogTypes, Windows, Logs!Next
  PROVE  offset' \in Nat
  <1> USE DEF LogTypes
  <1>1. height \in Nat /\ Heights \subseteq Nat
    BY HeightsAre
  <1>2. ASSUME height' \in Nat
        PROVE  /\ Logs!Bottom(drawn') \in Nat /\ Logs!Lesser(offset, Logs!Bottom(drawn')) \in Nat
               /\ Logs!Kept(drawn', offset) \in Nat /\ Logs!Reanchored \in Nat
    <2>1. Logs!Bottom(drawn') \in Nat /\ Logs!Lesser(offset, Logs!Bottom(drawn')) \in Nat /\ Logs!Kept(drawn', offset) \in Nat
      BY <1>2, BottomIs, KeptIs DEF Windows
    <2> QED
      BY <2>1 DEF Logs!Reanchored
  <1>3. ASSUME NEW kind, Logs!Arrives(kind)
        PROVE  offset' \in Nat
    <2>1. height' \in Nat /\ Logs!Dropped \in {0, 1} /\ Logs!SyncViewport(Logs!Dropped)
      BY <1>1, <1>3 DEF Logs!Arrives, Logs!Dropped
    <2> QED
      BY <2>1, SyncAt
  <1>4. ASSUME NEW message, Logs!Receives(message)
        PROVE  height' \in Nat
    BY <1>1, <1>4 DEF Logs!Receives
  <1>5. CASE Logs!WrapToggled
    <2>1. height' \in Nat
      BY <1>4, <1>5 DEF Logs!WrapToggled
    <2>2. (IF reading.follow THEN Logs!Bottom(drawn') ELSE Logs!Lesser(offset, Logs!Bottom(drawn'))) \in Nat
      BY <1>2, <2>1
    <2> QED
      BY <1>5, <2>2, DrawsAt DEF Logs!WrapToggled
  <1>6. CASE Logs!NodeFilterToggled
    <2>1. height' \in Nat
      BY <1>4, <1>6 DEF Logs!NodeFilterToggled
    <2> QED
      BY <1>6, <1>2, <2>1, DrawsAt DEF Logs!NodeFilterToggled
  <1>7. CASE Logs!HideStoppedToggled
    <2>1. height' \in Nat
      BY <1>4, <1>7 DEF Logs!HideStoppedToggled
    <2> QED
      BY <1>7, <1>2, <2>1, HighlightAt DEF Logs!HideStoppedToggled
  <1>8. CASE Logs!MarkInserted
    <2>1. height' \in Nat
      BY <1>4, <1>8 DEF Logs!MarkInserted
    <2> QED
      BY <1>8, <2>1, SyncAt DEF Logs!MarkInserted
  <1>9. CASE Logs!FadeTick
    <2>1. height' \in Nat
      BY <1>4, <1>9 DEF Logs!FadeTick
    <2> QED
      BY <1>9, <1>2, <2>1, DrawsAt DEF Logs!FadeTick
  <1>10. CASE Logs!Resize
    <2>1. height' \in Nat
      BY <1>1, <1>10 DEF Logs!Resize
    <2> QED
      BY <1>10, <1>2, <2>1 DEF Logs!Resize
  <1>11. CASE Logs!Scroll
    <2>1. PICK by \in {-height, -1, 1, height} :
            offset' = Logs!Greater(0, Logs!Lesser(offset + by, Logs!LastPage(drawn, height)))
      BY <1>11 DEF Logs!Scroll
    <2>2. Logs!LastPage(drawn, height) \in Nat /\ offset + by \in Int
      BY <1>1, PageIs DEF Windows
    <2> QED
      BY <2>1, <2>2 DEF Logs!Greater, Logs!Lesser
  <1>12. CASE Logs!Filter
    <2>1. height' \in Nat
      BY <1>1, <1>12 DEF Logs!Filter, Logs!Press
    <2> QED
      BY <1>12, <1>2, <2>1, HighlightAt DEF Logs!Filter
  <1>13. CASE Logs!TypeTerm
    <2>1. height' \in Nat
      BY <1>1, <1>13 DEF Logs!TypeTerm, Logs!Press
    <2> QED
      BY <1>13, <1>2, <2>1, HighlightAt DEF Logs!TypeTerm
  <1>14. CASE Logs!SearchEnter
    <2>1. height' \in Nat
      BY <1>1, <1>14 DEF Logs!SearchEnter, Logs!Press
    <2>2. matches' # <<>> => Head(matches') \in Nat
      BY DEF Windows
    <2>3. matches' # <<>> => Logs!ScrollToMatch(Head(matches'), drawn') \in Nat
      BY <2>1, <2>2, ScrollToMatchIs DEF Windows
    <2>4. (IF matches' # <<>> THEN Logs!ScrollToMatch(Head(matches'), drawn') ELSE Logs!Kept(drawn', offset)) \in Nat
      BY <1>2, <2>1, <2>3
    <2>5. Logs!Highlight(IF matches' # <<>> THEN Logs!ScrollToMatch(Head(matches'), drawn') ELSE Logs!Kept(drawn', offset))
      BY <1>14 DEF Logs!SearchEnter
    <2> QED
      BY <2>4, <2>5, HighlightAt
  <1>15. CASE Logs!NextMatch
    <2>1. height' \in Nat
      BY <1>1, <1>15 DEF Logs!NextMatch, Logs!Press
    <2>2. PICK by \in {1, -1} : match' = (match + by + Len(matches)) % Len(matches)
      BY <1>15 DEF Logs!NextMatch
    <2>3. Len(matches) \in Nat /\ Len(matches) >= 1
      BY <1>15 DEF Logs!NextMatch, Windows
    <2>4. match + by + Len(matches) \in Int
      BY <2>3
    <2>5. match' \in 0..(Len(matches) - 1)
      BY <2>2, <2>3, <2>4
    <2>6. matches[match' + 1] \in Nat
      BY <2>3, <2>5 DEF Windows
    <2>7. Logs!ScrollToMatch(matches[match' + 1], drawn) \in Nat
      BY <2>1, <2>6, ScrollToMatchIs DEF Windows
    <2>8. ready => offset' = Logs!ScrollToMatch(matches[match' + 1], drawn)
      BY <1>15 DEF Logs!NextMatch
    <2>9. ~ready => offset' = offset
      BY <1>15 DEF Logs!NextMatch
    <2> QED
      BY <2>7, <2>8, <2>9
  <1>16. CASE Logs!TaskStops \/ Logs!OpenSearch \/ Logs!Mark
    BY <1>16 DEF Logs!TaskStops, Logs!viewport, Logs!OpenSearch, Logs!Mark
  <1>17. CASE Logs!ToggleFollow \/ Logs!ToggleWrap \/ Logs!ScrollSideways \/ Logs!ToggleStopped \/ Logs!OpenNodes
              \/ Logs!NodesKey \/ Logs!CancelSearch
    BY <1>17 DEF Logs!ToggleFollow, Logs!ToggleWrap, Logs!ScrollSideways, Logs!ToggleStopped, Logs!OpenNodes,
                 Logs!NodesKey, Logs!CancelSearch, Logs!Set
  <1> QED
    BY <1>3, <1>5, <1>6, <1>7, <1>8, <1>9, <1>10, <1>11, <1>12, <1>13, <1>14, <1>15, <1>16, <1>17 DEF Logs!Next

LEMMA MatchIs ==
  ASSUME LogTypes, Windows, Logs!Next
  PROVE  match' \in Nat
  <1> USE DEF LogTypes
  <1>1. Logs!InRange => match' \in Nat
    BY DEF Logs!InRange
  <1>2. ASSUME NEW kind, Logs!Arrives(kind)
        PROVE  match' \in Nat
    BY <1>2 DEF Logs!Arrives
  <1>3. CASE Logs!HideStoppedToggled \/ Logs!Filter \/ Logs!TypeTerm
    BY <1>1, <1>3 DEF Logs!HideStoppedToggled, Logs!Filter, Logs!TypeTerm
  <1>4. CASE Logs!WrapToggled \/ Logs!NodeFilterToggled \/ Logs!MarkInserted \/ Logs!FadeTick \/ Logs!Resize
             \/ Logs!TaskStops \/ Logs!Scroll \/ Logs!Mark
    BY <1>4 DEF Logs!WrapToggled, Logs!NodeFilterToggled, Logs!MarkInserted, Logs!FadeTick, Logs!Resize,
                Logs!TaskStops, Logs!Scroll, Logs!Mark
  <1>5. CASE Logs!OpenSearch \/ Logs!SearchEnter
    BY <1>5 DEF Logs!OpenSearch, Logs!SearchEnter
  <1>6. CASE Logs!NextMatch
    <2>1. PICK by \in {1, -1} : match' = (match + by + Len(matches)) % Len(matches)
      BY <1>6 DEF Logs!NextMatch
    <2>2. Len(matches) \in Nat /\ Len(matches) >= 1
      BY <1>6 DEF Logs!NextMatch, Windows
    <2>3. match + by + Len(matches) \in Int
      BY <2>2
    <2> QED
      BY <2>1, <2>2, <2>3
  <1>7. CASE Logs!ToggleFollow \/ Logs!ToggleWrap \/ Logs!ScrollSideways \/ Logs!ToggleStopped \/ Logs!OpenNodes
             \/ Logs!NodesKey \/ Logs!CancelSearch
    BY <1>7 DEF Logs!ToggleFollow, Logs!ToggleWrap, Logs!ScrollSideways, Logs!ToggleStopped, Logs!OpenNodes,
                Logs!NodesKey, Logs!CancelSearch, Logs!Set
  <1> QED
    BY <1>2, <1>3, <1>4, <1>5, <1>6, <1>7 DEF Logs!Next

\* Of the messages on their way, the numbers of arrivals and keys, and the size of the window.
Counted ==
  /\ told \subseteq {"wrap", "node", "stopped", "mark", "fade"} /\ arrivals \in 0..MaxArrivals /\ keys \in 0..MaxKeys
  /\ height \in Heights /\ ready \in BOOLEAN

LEMMA BoundsAre == MaxArrivals \in Nat /\ MaxKeys \in Nat
  BY LogScreenAssumption

LEMMA ReceivesCounts ==
  ASSUME Counted, NEW message, Logs!Receives(message)
  PROVE  Counted'
  BY DEF Counted, Logs!Receives

LEMMA PressCounts ==
  ASSUME Counted, NEW mode, Logs!Press(mode), told' \subseteq {"wrap", "node", "stopped", "mark", "fade"}
  PROVE  Counted'
  BY BoundsAre DEF Counted, Logs!Press

LEMMA StepCounts ==
  ASSUME Counted, Logs!Next
  PROVE  Counted'
  <1>1. ASSUME NEW kind, Logs!Arrives(kind)
        PROVE  Counted'
    BY <1>1, BoundsAre DEF Logs!Arrives, Counted
  <1>2. CASE Logs!WrapToggled \/ Logs!NodeFilterToggled \/ Logs!HideStoppedToggled \/ Logs!MarkInserted \/ Logs!FadeTick
    BY <1>2, ReceivesCounts DEF Logs!WrapToggled, Logs!NodeFilterToggled, Logs!HideStoppedToggled,
                                Logs!MarkInserted, Logs!FadeTick
  <1>3. CASE Logs!Resize
    BY <1>3, BoundsAre DEF Logs!Resize, Counted
  <1>4. CASE Logs!TaskStops
    BY <1>4 DEF Logs!TaskStops, Logs!viewport, Counted
  <1>5. CASE Logs!Scroll \/ Logs!Filter \/ Logs!OpenSearch \/ Logs!NextMatch \/ Logs!TypeTerm \/ Logs!SearchEnter
    <2>1. told' = told
      BY <1>5 DEF Logs!Scroll, Logs!Filter, Logs!OpenSearch, Logs!NextMatch, Logs!TypeTerm, Logs!SearchEnter
    <2>2. \E mode : Logs!Press(mode)
      BY <1>5 DEF Logs!Scroll, Logs!Filter, Logs!OpenSearch, Logs!NextMatch, Logs!TypeTerm, Logs!SearchEnter
    <2> QED
      BY <2>1, <2>2, PressCounts DEF Counted
  <1>6. CASE Logs!Mark
    BY <1>6, PressCounts DEF Logs!Mark, Counted
  <1>7. CASE Logs!ToggleFollow \/ Logs!ToggleWrap \/ Logs!ScrollSideways \/ Logs!ToggleStopped \/ Logs!OpenNodes \/ Logs!CancelSearch
    <2>1. told' = told \/ told' = told \cup {} \/ told' = told \cup {"wrap"} \/ told' = told \cup {"stopped"}
      BY <1>7 DEF Logs!ToggleFollow, Logs!ToggleWrap, Logs!ScrollSideways, Logs!ToggleStopped, Logs!OpenNodes,
                  Logs!CancelSearch, Logs!Set
    <2>2. \E mode : Logs!Press(mode)
      BY <1>7 DEF Logs!ToggleFollow, Logs!ToggleWrap, Logs!ScrollSideways, Logs!ToggleStopped, Logs!OpenNodes,
                  Logs!CancelSearch
    <2>3. told' \subseteq {"wrap", "node", "stopped", "mark", "fade"}
      BY <2>1 DEF Counted
    <2> QED
      BY <2>2, <2>3, PressCounts
  <1>8. CASE Logs!NodesKey
    <2>1. told' = told \cup {} \/ told' = told \cup {"node"}
      BY <1>8 DEF Logs!NodesKey, Logs!Set
    <2> QED
      BY <1>8, <2>1 DEF Logs!NodesKey, Counted
  <1> QED
    BY <1>1, <1>2, <1>3, <1>4, <1>5, <1>6, <1>7, <1>8 DEF Logs!Next

LEMMA LogInvStep ==
  ASSUME LogInv, Logs!Next
  PROVE  LogInv'
  <1>1. LinedUp(buffer') /\ Rowed' /\ UpToDate'
    BY StepKeeps, StepRedraws, RedrawingKeeps
  <1>2. LogTypes /\ Windows
    BY <1>1 DEF LogInv, Rowed, Windows
  <1>3. Counted
    BY <1>2 DEF LogTypes, Counted
  <1>4. offset' \in Nat /\ match' \in Nat /\ Counted'
    BY <1>2, <1>3, OffsetIs, MatchIs, StepCounts
  <1>5. LogTypes'
    BY <1>4 DEF LogTypes, Counted
  <1> QED
    BY <1>1, <1>5 DEF LogInv

LEMMA LogInvInit ==
  ASSUME Logs!Init
  PROVE  LogInv
  <1>1. MaxLines \in Nat /\ MaxLines >= 1 /\ MaxLines \in 1..MaxLines /\ MaxArrivals \in Nat /\ MaxKeys \in Nat
    BY LogScreenAssumption, BoundsAre
  <1>2. PICK kinds \in [1..MaxLines -> Logs!Logged] :
          buffer = [i \in 1..MaxLines |-> [kind |-> kinds[i], id |-> i - MaxLines]]
    BY DEF Logs!Init
  <1>3. \A i \in 1..MaxLines : buffer[i] = [kind |-> kinds[i], id |-> i - MaxLines] /\ buffer[i] \in Line
    BY <1>1, <1>2 DEF Line, Logs!Kinds
  <1>4. buffer \in Seq(Line) /\ Len(buffer) = MaxLines
    <2>1. buffer \in [1..MaxLines -> Line]
      BY <1>2, <1>3
    <2> QED
      BY <1>1, <2>1
  <1>5. LinedUp(buffer)
    BY <1>1, <1>3, <1>4 DEF LinedUp
  <1>6. height \in Heights /\ height \in Nat
    BY HeightsAre DEF Logs!Init
  <1>7. drawn \in Seq(Row) /\ \A k \in DOMAIN drawn : \E i \in 1..MaxLines : drawn[k].of = buffer[i].id
    <2>1. CASE ready
      <3>1. drawn = Logs!Content(buffer, Logs!Begun)
        BY <2>1 DEF Logs!Init
      <3> QED
        BY <1>5, <3>1, RowsAre DEF Logs!Content
    <2>2. CASE ~ready
      <3>1. drawn = <<>>
        BY <2>2 DEF Logs!Init
      <3> QED
        BY <3>1
    <2> QED
      BY <2>1, <2>2
  <1>8. offset \in Nat
    BY <1>6, <1>7, PageIs DEF Logs!Init
  <1>9. LogTypes
    BY <1>1, <1>6, <1>8 DEF LogTypes, Logs!Init
  <1>10. matches = <<>>
    BY DEF Logs!Init
  <1>11. Rowed
    <2>1. \A i \in 1..MaxLines : buffer[i].id <= buffer[MaxLines].id
      BY <1>5, LinesAre
    <2>2. \A k \in DOMAIN drawn : drawn[k].of <= buffer[MaxLines].id
      BY <1>7, <2>1
    <2>3. matches \in Seq(Nat)
      BY <1>10
    <2> QED
      BY <1>7, <2>2, <2>3 DEF Rowed
  <1> QED
    BY <1>5, <1>9, <1>10, <1>11 DEF LogInv, UpToDate

-----------------------------------------------------------------------------
(***************************************************************************)
(* The reader who scrolled up                                              *)
(***************************************************************************)
\* A row is drawn of a line that was kept and still is exactly if it is drawn of it then.
LEMMA RowsThatStay ==
  ASSUME LinedUp(buffer), NEW kind \in Logs!Kinds, Logs!Append1(kind), NEW r, NEW wrapped
  PROVE  LET S == RowSet(Logs!Visible(buffer, r), wrapped)
             T == RowSet(Logs!Visible(buffer', r), wrapped)
         IN /\ \A x \in S : x.of = buffer[1].id \/ x.of > buffer[1].id
            /\ \A x \in S : x.of # buffer[1].id => x \in T
            /\ \A x \in T : x.of > buffer[1].id
            /\ \A x \in T \ S : \A y \in S : x.of > y.of
  <1> DEFINE V == Logs!Visible(buffer, r)
             W == Logs!Visible(buffer', r)
             S == RowSet(V, wrapped)
             T == RowSet(W, wrapped)
  <1>1. /\ LinedUp(buffer')
        /\ \A i \in 1..(MaxLines - 1) : buffer'[i] = buffer[i + 1]
        /\ buffer'[MaxLines].id = buffer[MaxLines].id + 1
    <2>1. buffer'[MaxLines] = [kind |-> kind, id |-> buffer[MaxLines].id + 1]
      BY AppendIs
    <2>2. LinedUp(buffer') /\ \A i \in 1..(MaxLines - 1) : buffer'[i] = buffer[i + 1]
      BY AppendIs
    <2> QED
      BY <2>1, <2>2
  <1>2. /\ MaxLines \in Nat /\ 1 \in 1..MaxLines /\ MaxLines \in 1..MaxLines
        /\ \A i \in 1..MaxLines : buffer[i].id \in Int /\ buffer[i].id <= buffer[MaxLines].id
        /\ \A i, j \in 1..MaxLines : i < j => buffer[i].id < buffer[j].id
    BY LinesAre
  <1>3. /\ V \subseteq Line /\ IsFiniteSet(V)
        /\ V = {line \in {buffer[i] : i \in 1..MaxLines} : Logs!lineVisible(line, r)}
    BY LinesAre
  <1>4. /\ W \subseteq Line /\ IsFiniteSet(W)
        /\ W = {line \in {buffer'[i] : i \in 1..MaxLines} : Logs!lineVisible(line, r)}
    BY <1>1, LinesAre
  <1> HIDE DEF V, W
  <1>5. \A x \in S : \E line \in V : x.of = line.id /\ x \in Logs!RowsOf(line, wrapped)
    BY <1>3, RowSetIs
  <1>6. \A x \in T : \E line \in W : x.of = line.id /\ x \in Logs!RowsOf(line, wrapped)
    BY <1>4, RowSetIs
  <1>7. /\ \A line \in V : Logs!RowsOf(line, wrapped) \subseteq S
        /\ \A line \in W : Logs!RowsOf(line, wrapped) \subseteq T
    BY DEF RowSet
  <1> HIDE DEF S, T
  <1>8. ASSUME NEW x \in S
        PROVE  \E i \in 1..MaxLines : /\ buffer[i] \in V /\ x \in Logs!RowsOf(buffer[i], wrapped)
                                      /\ x.of = buffer[i].id /\ Logs!lineVisible(buffer[i], r)
    BY <1>3, <1>5
  <1>9. ASSUME NEW x \in T
        PROVE  \E i \in 1..MaxLines : /\ buffer'[i] \in W /\ x \in Logs!RowsOf(buffer'[i], wrapped)
                                      /\ x.of = buffer'[i].id /\ Logs!lineVisible(buffer'[i], r)
    BY <1>4, <1>6
  <1>10. ASSUME NEW i \in 1..MaxLines, i # MaxLines
         PROVE  i + 1 \in 1..MaxLines /\ buffer'[i] = buffer[i + 1] /\ i + 1 > 1
    BY <1>1, <1>2, <1>10
  <1>11. ASSUME NEW x \in S
         PROVE  x.of = buffer[1].id \/ x.of > buffer[1].id
    BY <1>2, <1>8
  <1>12. ASSUME NEW x \in S, x.of # buffer[1].id
         PROVE  x \in T
    <2>1. PICK i \in 1..MaxLines : /\ x \in Logs!RowsOf(buffer[i], wrapped)
                                   /\ x.of = buffer[i].id /\ Logs!lineVisible(buffer[i], r)
      BY <1>8
    <2>2. i # 1
      BY <1>12, <2>1
    <2>3. i - 1 \in 1..MaxLines /\ buffer'[i - 1] = buffer[i]
      BY <1>1, <1>2, <2>2
    <2>4. buffer[i] \in W
      BY <1>4, <2>1, <2>3
    <2> QED
      BY <1>7, <2>1, <2>4
  <1>13. ASSUME NEW x \in T
         PROVE  x.of > buffer[1].id
    <2>1. PICK i \in 1..MaxLines : x.of = buffer'[i].id
      BY <1>9
    <2>2. CASE i = MaxLines
      BY <1>1, <1>2, <2>1, <2>2
    <2>3. CASE i # MaxLines
      BY <1>2, <1>10, <2>1, <2>3
    <2> QED
      BY <2>2, <2>3
  <1>14. ASSUME NEW x \in T \ S, NEW y \in S
         PROVE  x.of > y.of
    <2>1. PICK i \in 1..MaxLines : /\ x \in Logs!RowsOf(buffer'[i], wrapped)
                                   /\ x.of = buffer'[i].id /\ Logs!lineVisible(buffer'[i], r)
      BY <1>9
    <2>2. i = MaxLines
      <3> SUFFICES ASSUME i # MaxLines PROVE FALSE
        OBVIOUS
      <3>1. i + 1 \in 1..MaxLines /\ buffer'[i] = buffer[i + 1]
        BY <1>10
      <3>2. buffer'[i] \in V
        BY <1>3, <2>1, <3>1
      <3> QED
        BY <1>7, <2>1, <3>2
    <2>3. PICK j \in 1..MaxLines : y.of = buffer[j].id
      BY <1>8
    <2> QED
      BY <1>1, <1>2, <2>1, <2>2, <2>3
  <1> QED
    BY <1>11, <1>12, <1>13, <1>14 DEF S, T, V, W

\* Only a line that arrives counts as one.
LEMMA ArrivalIs ==
  ASSUME Logs!Next, Logs!Arrived
  PROVE  \E kind \in Logs!Kinds : Logs!Arrives(kind)
  <1> USE DEF Logs!Arrived
  <1>1. ASSUME NEW message, Logs!Receives(message)
        PROVE  FALSE
    BY <1>1 DEF Logs!Receives
  <1>2. ASSUME NEW mode, Logs!Press(mode)
        PROVE  FALSE
    BY <1>2 DEF Logs!Press
  <1>3. ~(Logs!WrapToggled \/ Logs!NodeFilterToggled \/ Logs!HideStoppedToggled \/ Logs!MarkInserted \/ Logs!FadeTick)
    BY <1>1 DEF Logs!WrapToggled, Logs!NodeFilterToggled, Logs!HideStoppedToggled, Logs!MarkInserted, Logs!FadeTick
  <1>4. ~(Logs!Resize \/ Logs!TaskStops \/ Logs!NodesKey)
    BY DEF Logs!Resize, Logs!TaskStops, Logs!NodesKey
  <1>5. ~(Logs!Scroll \/ Logs!ToggleFollow \/ Logs!ToggleWrap \/ Logs!ScrollSideways \/ Logs!ToggleStopped \/ Logs!OpenNodes
          \/ Logs!Mark \/ Logs!Filter \/ Logs!OpenSearch \/ Logs!TypeTerm \/ Logs!CancelSearch \/ Logs!SearchEnter
          \/ Logs!NextMatch)
    BY <1>2 DEF Logs!Scroll, Logs!ToggleFollow, Logs!ToggleWrap, Logs!ScrollSideways, Logs!ToggleStopped,
                Logs!OpenNodes, Logs!Mark, Logs!Filter, Logs!OpenSearch, Logs!TypeTerm, Logs!CancelSearch,
                Logs!SearchEnter, Logs!NextMatch
  <1>6. PICK kind \in Logs!Logged \cup {"notice"} : Logs!Arrives(kind)
    BY <1>3, <1>4, <1>5 DEF Logs!Next
  <1>7. kind \in Logs!Kinds
    BY DEF Logs!Kinds
  <1> QED
    BY <1>6, <1>7

LEMMA StaysOnTheRow ==
  ASSUME LogInv, Logs!Next, Logs!Arrived, ready, ~reading.follow, Logs!InStep, drawn # <<>>,
         Logs!Dropped = 1 => Logs!HeadDrawn /\ Logs!OneRow /\ offset > 0
  PROVE  drawn'[offset' + 1] = drawn[offset + 1]
  <1> DEFINE w == reading.wrap /\ ~reading.dialog
             S == RowSet(Logs!Visible(buffer, reading), w)
             T == RowSet(Logs!Visible(buffer', reading), w)
  <1>1. PICK kind \in Logs!Kinds : Logs!Arrives(kind)
    BY ArrivalIs
  <1>2. /\ reading' = reading /\ height' = height /\ Logs!Append1(kind) /\ Logs!SyncViewport(Logs!Dropped)
    BY <1>1 DEF Logs!Arrives
  <1>3. LinedUp(buffer) /\ LinedUp(buffer') /\ Logs!Dropped = 1
    BY <1>2, AppendIs DEF LogInv
  <1>4. /\ drawn = Logs!Rows(Logs!Visible(buffer, reading), w)
        /\ drawn' = Logs!Rows(Logs!Visible(buffer', reading), w)
    BY <1>2 DEF Logs!InStep, Logs!SyncViewport, Logs!Build, Logs!Content
  <1>5. /\ \A x \in S : x.of = buffer[1].id \/ x.of > buffer[1].id
        /\ \A x \in S : x.of # buffer[1].id => x \in T
        /\ \A x \in T : x.of > buffer[1].id
        /\ \A x \in T \ S : \A y \in S : x.of > y.of
    BY <1>2, <1>3, RowsThatStay
  <1>6. S \subseteq Row /\ IsFiniteSet(S) /\ drawn = Logs!ByKey(S, Numbers(S))
    <2>1. Logs!Visible(buffer, reading) \subseteq Line /\ IsFiniteSet(Logs!Visible(buffer, reading))
      BY <1>3, LinesAre
    <2> QED
      BY <1>4, <2>1, RowSetIs
  <1>7. T \subseteq Row /\ IsFiniteSet(T) /\ drawn' = Logs!ByKey(T, Numbers(T))
    <2>1. Logs!Visible(buffer', reading) \subseteq Line /\ IsFiniteSet(Logs!Visible(buffer', reading))
      BY <1>3, LinesAre
    <2> QED
      BY <1>4, <2>1, RowSetIs
  <1> HIDE DEF w, S, T
  <1>8. /\ drawn \in Seq(S) /\ Len(drawn) = Cardinality(S) /\ Cardinality(S) \in Nat
        /\ \A x \in S : \E k \in 1..Cardinality(S) : drawn[k] = x
    <2> DEFINE q == Logs!ByKey(S, Numbers(S))
    <2>1. Ranked(S, Numbers(S))
      BY <1>6, RowsAreRanked
    <2>2. q \in Seq(S) /\ Len(q) = Cardinality(S) /\ Cardinality(S) \in Nat
      BY <2>1, ByKeyIs
    <2>3. \A x \in S : \E k \in 1..Cardinality(S) : q[k] = x
      BY <2>1, ByKeyIs
    <2>4. drawn = q
      BY <1>6
    <2> HIDE DEF q
    <2> QED
      BY <2>2, <2>3, <2>4
  <1>9. Len(drawn') = Cardinality(T) /\ Cardinality(T) \in Nat
    <2>1. Ranked(T, Numbers(T))
      BY <1>7, RowsAreRanked
    <2> QED
      BY <1>7, <2>1, ByKeyIs
  <1>10. PICK h \in S : h.of = buffer[1].id /\ \A x \in S : x.of = buffer[1].id => x = h
    <2>1. buffer # <<>> /\ Head(buffer) = buffer[1]
      BY <1>3, LinesAre DEF LinedUp
    <2>2. PICK m \in DOMAIN drawn : drawn[m].of = buffer[1].id
      BY <1>3, <2>1 DEF Logs!HeadDrawn
    <2>3. PICK n \in DOMAIN drawn : \A j \in DOMAIN drawn : drawn[j].of = buffer[1].id => j = n
      BY <1>3, <2>1 DEF Logs!OneRow
    <2>4. drawn[m] \in S /\ \A x \in S : \E k \in DOMAIN drawn : drawn[k] = x
      BY <1>8
    <2>5. \A x \in S : x.of = buffer[1].id => x = drawn[m]
      BY <2>2, <2>3, <2>4
    <2> QED
      BY <2>2, <2>4, <2>5
  <1>11. h \notin T /\ S \ {h} \subseteq T /\ \A x \in S \ {h} : x.of > h.of
    <2>1. buffer[1].id \in Int
      BY <1>3, LinesAre
    <2> QED
      BY <1>5, <1>10, <2>1
  <1>12. offset \in Nat /\ offset > 0 /\ height \in Nat /\ height >= 1
    BY <1>3, HeightsAre DEF LogInv, LogTypes
  <1>13. offset + height <= Len(drawn)
    <2>1. offset <= Logs!LastPage(drawn, height)
      BY DEF Logs!InStep
    <2>2. drawn \in Seq(Row)
      BY DEF LogInv, Rowed
    <2>3. offset <= IF Len(drawn) - height >= 0 THEN Len(drawn) - height ELSE 0
      BY <1>12, <2>1, <2>2, PageIs
    <2> QED
      BY <1>8, <1>12, <2>3
  <1>14. offset \in 1..(Cardinality(S) - 1)
    BY <1>8, <1>12, <1>13
  <1>15. Cardinality(S) - 1 <= Cardinality(T) /\ drawn'[offset] = drawn[offset + 1]
    BY <1>5, <1>6, <1>7, <1>11, <1>14, OneHigher
  <1>16. offset' = offset - 1
    <2>1. offset' = Logs!Lesser(Logs!Greater(0, offset - 1), Logs!Bottom(drawn'))
      BY <1>2, <1>3 DEF Logs!SyncViewport
    <2>2. Logs!Greater(0, offset - 1) = offset - 1
      BY <1>12 DEF Logs!Greater
    <2>3. Logs!Bottom(drawn') = IF Len(drawn') - height >= 0 THEN Len(drawn') - height ELSE 0
      BY <1>2, <1>9, <1>12 DEF Logs!Bottom, Logs!LastPage, Logs!Greater
    <2>4. offset - 1 <= Logs!Bottom(drawn')
      BY <1>8, <1>9, <1>12, <1>13, <1>15, <2>3
    <2>5. Logs!Bottom(drawn') \in Int
      BY <1>9, <1>12, <2>3
    <2> QED
      BY <1>12, <2>1, <2>2, <2>4, <2>5 DEF Logs!Lesser
  <1> QED
    BY <1>12, <1>15, <1>16

-----------------------------------------------------------------------------
(***************************************************************************)
(* The reader who follows                                                  *)
(***************************************************************************)
LEMMA NotRebuilt ==
  ASSUME UNCHANGED <<arrivals, height>>, told \subseteq told'
  PROVE  ~Logs!Rebuilt
  BY DEF Logs!Rebuilt, Logs!Arrived

LEMMA StaysWithTheNewest ==
  ASSUME LogInv, LogInv', Logs!Next, Logs!Rebuilt, ready', reading'.follow
  PROVE  offset' + height' >= Len(drawn')
  <1>1. drawn' \in Seq(Row) /\ height' \in Nat
    BY HeightsAre DEF LogInv, LogTypes, Rowed
  <1>2. SUFFICES offset' = Logs!Bottom(drawn')
    BY <1>1, BottomIs
  <1>3. ASSUME NEW kind, Logs!Arrives(kind)
        PROVE  offset' = Logs!Bottom(drawn')
    BY <1>3 DEF Logs!Arrives, Logs!SyncViewport
  <1>4. ASSUME NEW message, Logs!Receives(message)
        PROVE  reading' = reading /\ ready' = ready
    BY <1>4 DEF Logs!Receives
  <1>5. CASE Logs!WrapToggled
    BY <1>4, <1>5 DEF Logs!WrapToggled, Logs!Draws
  <1>6. CASE Logs!NodeFilterToggled
    BY <1>6 DEF Logs!NodeFilterToggled, Logs!Draws, Logs!Reanchored
  <1>7. CASE Logs!HideStoppedToggled
    BY <1>4, <1>7 DEF Logs!HideStoppedToggled, Logs!Highlight, Logs!Reanchored
  <1>8. CASE Logs!MarkInserted
    BY <1>4, <1>8 DEF Logs!MarkInserted, Logs!SyncViewport
  <1>9. ~Logs!FadeTick
    BY DEF Logs!FadeTick, Logs!Receives, Logs!Rebuilt, Logs!Arrived
  <1>10. CASE Logs!Resize
    BY <1>10 DEF Logs!Resize
  <1>11. ~(Logs!Scroll \/ Logs!Filter \/ Logs!OpenSearch \/ Logs!NextMatch \/ Logs!TypeTerm \/ Logs!SearchEnter \/ Logs!Mark)
    BY NotRebuilt DEF Logs!Scroll, Logs!Filter, Logs!OpenSearch, Logs!NextMatch, Logs!TypeTerm, Logs!SearchEnter,
                      Logs!Mark, Logs!Press
  <1>12. ~(Logs!ToggleFollow \/ Logs!ToggleWrap \/ Logs!ScrollSideways \/ Logs!ToggleStopped \/ Logs!OpenNodes
           \/ Logs!NodesKey \/ Logs!CancelSearch)
    BY NotRebuilt DEF Logs!ToggleFollow, Logs!ToggleWrap, Logs!ScrollSideways, Logs!ToggleStopped, Logs!OpenNodes,
                      Logs!NodesKey, Logs!CancelSearch, Logs!Set, Logs!Press
  <1>13. ~Logs!TaskStops
    BY NotRebuilt DEF Logs!TaskStops, Logs!viewport
  <1> QED
    BY <1>3, <1>5, <1>6, <1>7, <1>8, <1>9, <1>10, <1>11, <1>12, <1>13 DEF Logs!Next

-----------------------------------------------------------------------------
(***************************************************************************)
(* The reader who goes to a match                                          *)
(***************************************************************************)
LEMMA NoLongRow ==
  ASSUME NEW lines, LinedUp(lines), \A i \in DOMAIN lines : lines[i].kind # "long", NEW r
  PROVE  /\ Logs!Content(lines, r) \in Seq(Row)
         /\ \A k \in DOMAIN Logs!Content(lines, r) : Logs!Content(lines, r)[k].of \in Short(lines)
  <1>1. \A i \in 1..MaxLines : lines[i].id \in Short(lines)
    BY DEF LinedUp, Short
  <1>2. /\ Logs!Content(lines, r) \in Seq(Row)
        /\ \A k \in DOMAIN Logs!Content(lines, r) : \E i \in 1..MaxLines : Logs!Content(lines, r)[k].of = lines[i].id
    BY RowsAre DEF Logs!Content
  <1> QED
    BY <1>1, <1>2

LEMMA ComesToTheMatch ==
  ASSUME LogInv, LogInv', Logs!NextMatch \/ Logs!SearchEnter, ready, Logs!InStep, matches' # <<>>,
         \A i \in DOMAIN buffer : buffer[i].kind # "long"
  PROVE  matches'[match' + 1] \in offset'..(offset' + height - 1)
  <1>1. LinedUp(buffer) /\ height \in Heights /\ match \in Nat
        /\ drawn' \in Seq(Row) /\ drawn \in Seq(Row) /\ matches' \in Seq(Nat) /\ matches \in Seq(Nat)
    BY DEF LogInv, LogTypes, Rowed
  <1>2. height' \in Nat
    BY HeightsAre DEF LogInv, LogTypes
  <1>3. CASE Logs!NextMatch
    <2>1. PICK by \in {1, -1} : match' = (match + by + Len(matches)) % Len(matches)
      BY <1>3 DEF Logs!NextMatch
    <2>2. /\ matches # <<>> /\ buffer' = buffer /\ reading' = reading
          /\ drawn' = Logs!Content(buffer, reading) /\ matches' = Logs!Matches(buffer, reading)
          /\ offset' = Logs!ScrollToMatch(matches[match' + 1], drawn)
      BY <1>3 DEF Logs!NextMatch, Logs!Build
    <2>3. drawn' = drawn /\ drawn = Logs!Content(buffer, reading)
      BY <2>2 DEF Logs!InStep
    <2>4. \A k \in DOMAIN drawn : drawn[k].of \in Short(buffer)
      BY <1>1, <2>3, NoLongRow
    <2>5. matches = Logs!Found(drawn, Logs!Words(buffer))
      BY <2>2, <2>4 DEF LogInv, UpToDate
    <2>6. matches' = Logs!Found(drawn, Logs!Words(buffer))
      BY <1>1, <2>2, <2>3, <2>4, MatchesOfShort
    <2>7. Len(matches) \in Nat /\ Len(matches) >= 1
      BY <1>1, <2>2
    <2>8. match + by + Len(matches) \in Int
      BY <1>1, <2>7
    <2>9. match' \in 0..(Len(matches) - 1)
      BY <2>1, <2>7, <2>8
    <2>10. match' + 1 \in 1..Len(matches)
      <3> DEFINE n == Len(matches)
      <3>1. n \in Nat /\ match' \in 0..(n - 1)
        BY <2>7, <2>9
      <3> HIDE DEF n
      <3>2. \A k \in 0..(n - 1) : k + 1 \in 1..n
        BY <3>1
      <3>3. match' + 1 \in 1..n
        BY <3>1, <3>2
      <3> QED
        BY <3>3 DEF n
    <2>11. \A k \in 1..Len(matches) : matches[k] \in 0..(Len(drawn) - 1)
      BY <1>1, <2>5, FoundIs
    <2>12. matches[match' + 1] \in Nat /\ matches[match' + 1] <= Len(drawn) - 1
      BY <1>1, <2>10, <2>11
    <2>13. matches[match' + 1] \in offset'..(offset' + height - 1)
      BY <1>1, <1>2, <2>2, <2>3, <2>12, ScrollToMatchIs
    <2> QED
      BY <2>5, <2>6, <2>13
  <1>4. CASE Logs!SearchEnter
    <2>1. buffer' = buffer /\ match' = 0 /\ drawn' = Logs!Content(buffer, reading') /\ matches' = Logs!Matches(buffer, reading')
          /\ offset' = Logs!ScrollToMatch(Head(matches'), drawn')
      BY <1>4 DEF Logs!SearchEnter, Logs!Highlight
    <2>2. \A k \in DOMAIN drawn' : drawn'[k].of \in Short(buffer)
      BY <1>1, <2>1, NoLongRow
    <2>3. matches' = Logs!Found(drawn', Logs!Words(buffer))
      BY <1>1, <2>1, <2>2, MatchesOfShort
    <2>4. 1 \in 1..Len(matches') /\ Head(matches') = matches'[1]
      BY <1>1
    <2>5. \A k \in 1..Len(matches') : matches'[k] \in 0..(Len(drawn') - 1)
      BY <1>1, <2>3, FoundIs
    <2>6. Head(matches') \in Nat /\ Head(matches') <= Len(drawn') - 1
      BY <1>1, <2>4, <2>5
    <2>7. Head(matches') \in offset'..(offset' + height - 1)
      BY <1>1, <1>2, <2>1, <2>6, ScrollToMatchIs
    <2> QED
      BY <2>1, <2>4, <2>7
  <1> QED
    BY <1>3, <1>4

-----------------------------------------------------------------------------
(***************************************************************************)
(* The theorems                                                            *)
(***************************************************************************)
\* A step of the resource views leaves the log, and one of the log is one of LogScreen.
LEMMA LogSteps ==
  ASSUME [MCNext]_<<part, vars, log>>
  PROVE  Logs!Next \/ (UNCHANGED log /\ UNCHANGED Logs!vars)
  BY DEF MCNext, log, Logs!vars, Logs!viewport

LEMMA LogInvKept ==
  ASSUME LogInv, [MCNext]_<<part, vars, log>>
  PROVE  LogInv'
  <1>1. CASE Logs!Next
    BY <1>1, LogInvStep
  <1>2. CASE UNCHANGED log
    BY <1>2 DEF log, LogInv, LogTypes, Rowed, UpToDate
  <1> QED
    BY <1>1, <1>2, LogSteps

\* What is drawn, its matches and the lines kept belong together as LogInv says, in every state.
THEOREM LogInvariance == MCSpec => []LogInv
  <1>1. MCInit => LogInv
    BY LogInvInit DEF MCInit
  <1>2. LogInv /\ [MCNext]_<<part, vars, log>> => LogInv'
    BY LogInvKept
  <1> QED
    BY <1>1, <1>2, PTL DEF MCSpec

LEMMA LogTypesHold ==
  ASSUME LogInv
  PROVE  Logs!TypeOK
  <1>1. LinedUp(buffer) /\ LogTypes
    BY DEF LogInv
  <1>2. \A i \in DOMAIN buffer : buffer[i] \in Line
    BY <1>1 DEF LinedUp
  <1>3. \A i \in DOMAIN buffer : buffer[i].kind \in Logs!Kinds
    BY <1>2 DEF Line
  <1>4. Len(buffer) <= MaxLines
    BY <1>1, LinesAre DEF LinedUp
  <1> QED
    BY <1>1, <1>3, <1>4 DEF LogTypes, Logs!TypeOK

OnTheRow ==
  Logs!Arrived /\ ready /\ ~reading.follow /\ Logs!InStep /\ drawn # <<>>
       /\ (Logs!Dropped = 1 => Logs!HeadDrawn /\ Logs!OneRow /\ offset > 0)
     => drawn'[offset' + 1] = drawn[offset + 1]
WithTheNewest == Logs!Rebuilt /\ ready' /\ reading'.follow => offset' + height' >= Len(drawn')
ToTheMatch ==
  (Logs!NextMatch \/ Logs!SearchEnter) /\ ready /\ Logs!InStep /\ matches' # <<>>
       /\ (\A i \in DOMAIN buffer : buffer[i].kind # "long")
     => matches'[match' + 1] \in offset'..(offset' + height - 1)

\* syncViewport, scrollToMatch: whoever scrolled up stays on the row they read when a line
\* arrives, also when the oldest goes for it; whoever follows has the newest row on the screen
\* after every line, resize and message of the view's own; and the match that n, N and enter
\* select is on the screen, of whatever size the screen is and however many lines are kept.
THEOREM ReaderKeepsThePlace == MCSpec => KeepsThePlace
  <1>1. LogInv => Logs!TypeOK
    BY LogTypesHold
  <1>2. LogInv /\ [MCNext]_<<part, vars, log>> => [OnTheRow]_Logs!vars
    <2> SUFFICES ASSUME LogInv, Logs!Next
                 PROVE  OnTheRow
      BY LogSteps
    <2> QED
      BY StaysOnTheRow DEF OnTheRow
  <1>3. LogInv /\ LogInv' /\ [MCNext]_<<part, vars, log>> => [WithTheNewest]_Logs!vars
    <2> SUFFICES ASSUME LogInv, LogInv', Logs!Next
                 PROVE  WithTheNewest
      BY LogSteps
    <2> QED
      BY StaysWithTheNewest DEF WithTheNewest
  <1>4. LogInv /\ LogInv' /\ [MCNext]_<<part, vars, log>> => [ToTheMatch]_Logs!vars
    <2> SUFFICES ASSUME LogInv, LogInv', Logs!Next
                 PROVE  ToTheMatch
      BY LogSteps
    <2> QED
      BY ComesToTheMatch DEF ToTheMatch
  <1> QED
    BY <1>1, <1>2, <1>3, <1>4, LogInvariance, PTL
       DEF MCSpec, KeepsThePlace, Logs!KeepsThePlace, OnTheRow, WithTheNewest, ToTheMatch

=============================================================================
