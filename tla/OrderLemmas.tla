---------------------------- MODULE OrderLemmas ----------------------------
(***************************************************************************)
(* Lemmas about numbers, finite orders and sequences that the proofs of    *)
(* several modules rest on.                                                *)
(***************************************************************************)
EXTENDS ListPlaces, FiniteSetTheorems, SequenceTheorems,
        WellFoundedInduction, TLAPS

\* Numbers have a least one: what else induction would do.
LEMMA LeastNumber ==
    ASSUME NEW T, T \subseteq Nat, T # {}
    PROVE  \E n \in T : \A m \in T : n <= m
<1>1. PICK n \in T : \A m \in T : ~(<<m, n>> \in OpToRel(<, Nat))
    BY NatLessThanWellFounded, WFMin
<1>2. \A m \in T : ~(m < n)
    BY <1>1 DEF OpToRel
<1>3. \A m \in T : n <= m
    BY <1>2
<1> QED BY <1>3

\* Sorting a finite set: where `below` says what comes before each element, every
\* place of the order is some element's, and a later element's place is later.
LEMMA RanksAreDense ==
    ASSUME NEW S, IsFiniteSet(S), NEW below \in [S -> SUBSET S],
           \A c \in S : c \notin below[c],
           \A c, d \in S : d \in below[c] => below[d] \subseteq below[c],
           \A c, d \in S : c = d \/ c \in below[d] \/ d \in below[c]
    PROVE  /\ Cardinality(S) \in Nat
           /\ \A c, d \in S : d \in below[c] => Cardinality(below[d]) < Cardinality(below[c])
           /\ \A c, d \in S : Cardinality(below[c]) = Cardinality(below[d]) => c = d
           /\ \A i \in 1..Cardinality(S) : \E c \in S : Cardinality(below[c]) = i - 1
<1> DEFINE n == Cardinality(S)
           rank == [c \in S |-> Cardinality(below[c])]
<1>1. n \in Nat
    BY FS_CardinalityType
<1>2. ASSUME NEW c \in S
      PROVE  IsFiniteSet(below[c]) /\ rank[c] \in 0..(n - 1)
    <2>1. IsFiniteSet(below[c]) /\ Cardinality(below[c]) <= n /\ Cardinality(below[c]) # n
        BY <1>2, FS_Subset
    <2>2. Cardinality(below[c]) \in Nat
        BY <2>1, FS_CardinalityType
    <2> QED BY <1>1, <2>1, <2>2
<1>3. ASSUME NEW c \in S, NEW d \in below[c]
      PROVE  rank[d] < rank[c]
    <2>1. d \in S /\ below[d] \subseteq below[c] /\ below[d] # below[c]
        BY <1>3
    <2>2. /\ Cardinality(below[d]) <= Cardinality(below[c])
          /\ Cardinality(below[c]) # Cardinality(below[d])
        BY <1>2, <2>1, FS_Subset
    <2>3. rank[c] \in Nat /\ rank[d] \in Nat
        BY <1>2, <2>1
    <2> QED BY <2>1, <2>2, <2>3
<1>4. ASSUME NEW c \in S, NEW d \in S, rank[c] = rank[d] PROVE c = d
    <2>1. rank[c] \in 0..(n - 1)
        BY <1>2
    <2>2. c = d \/ rank[c] < rank[d] \/ rank[d] < rank[c]
        BY <1>3
    <2> HIDE DEF rank, n
    <2> QED BY <1>1, <1>4, <2>1, <2>2
<1>5. /\ IsFiniteSet(0..(n - 1)) /\ Cardinality(0..(n - 1)) = n
    <2> HIDE DEF n
    <2> QED BY <1>1, FS_Interval
<1>6. rank \in Injection(S, 0..(n - 1))
    <2>1. rank \in [S -> 0..(n - 1)]
        BY <1>2
    <2> QED BY <1>4, <2>1 DEF Injection, IsInjective
<1>7. rank \in Surjection(S, 0..(n - 1))
    BY <1>5, <1>6, FS_Injection
<1>8. ASSUME NEW i \in 1..n PROVE \E c \in S : rank[c] = i - 1
    <2>1. i - 1 \in 0..(n - 1)
        BY <1>1
    <2> HIDE DEF rank, n
    <2> QED BY <1>7, <2>1 DEF Surjection
<1> QED BY <1>1, <1>3, <1>4, <1>8

\* The elements of a finite set of numbers are numbered by how many are below each.
LEMMA NumbersAreRanked ==
    ASSUME NEW S, S \subseteq Nat, IsFiniteSet(S),
           NEW below \in [S -> SUBSET S],
           \A c, d \in S : d \in below[c] <=> d < c
    PROVE  /\ \A c \in S : Cardinality(below[c]) + 1 \in 1..Cardinality(S)
           /\ \A c, d \in S : d < c => Cardinality(below[d]) < Cardinality(below[c])
           /\ \A c, d \in S : Cardinality(below[c]) = Cardinality(below[d]) => c = d
           /\ \A i \in 1..Cardinality(S) : \E c \in S : Cardinality(below[c]) = i - 1
<1>1. /\ \A c \in S : c \notin below[c]
      /\ \A c, d \in S : c = d \/ c \in below[d] \/ d \in below[c]
    OBVIOUS
<1>2. ASSUME NEW c \in S, NEW d \in S, d \in below[c]
      PROVE  below[d] \subseteq below[c]
    <2>1. d < c /\ c \in Nat /\ d \in Nat
        BY <1>2
    <2>2. ASSUME NEW e \in below[d] PROVE e \in below[c]
        <3>1. e \in S /\ e < d /\ e \in Nat
            BY <2>2
        <3>2. e < c
            BY <2>1, <3>1
        <3> QED BY <3>1, <3>2
    <2> QED BY <2>2
<1>3. /\ Cardinality(S) \in Nat
      /\ \A c, d \in S : d \in below[c] => Cardinality(below[d]) < Cardinality(below[c])
      /\ \A c, d \in S : Cardinality(below[c]) = Cardinality(below[d]) => c = d
      /\ \A i \in 1..Cardinality(S) : \E c \in S : Cardinality(below[c]) = i - 1
    <2>1. \A c, d \in S : d \in below[c] => below[d] \subseteq below[c]
        BY <1>2
    <2> QED BY ONLY IsFiniteSet(S), below \in [S -> SUBSET S], <1>1, <2>1, RanksAreDense
<1>4. ASSUME NEW c \in S PROVE Cardinality(below[c]) + 1 \in 1..Cardinality(S)
    <2>1. below[c] \in SUBSET S /\ below[c] # S
        BY <1>1
    <2>2. IsFiniteSet(below[c])
        BY <2>1, FS_Subset
    <2>3. /\ Cardinality(below[c]) <= Cardinality(S)
          /\ Cardinality(S) = Cardinality(below[c]) => S = below[c]
        BY <2>1, FS_Subset
    <2>4. Cardinality(below[c]) \in Nat
        BY <2>2, FS_CardinalityType
    <2> QED BY <1>3, <2>1, <2>3, <2>4
<1> QED BY <1>3, <1>4

\* A function from 1..n is a sequence of length n.
LEMMA FunctionIsSeq ==
    ASSUME NEW S, NEW n \in Nat, NEW s \in [1..n -> S]
    PROVE  s \in Seq(S) /\ Len(s) = n
<1>1. s \in Seq(S)
    BY SeqDef
<1>2. Len(s) \in Nat /\ DOMAIN s = 1..Len(s) /\ DOMAIN s = 1..n
    BY <1>1, LenProperties
<1>3. ASSUME NEW k \in Nat, NEW m \in Nat, k < m PROVE 1..k # 1..m
    <2>1. m \in 1..m /\ m \notin 1..k
        BY <1>3
    <2> QED BY <2>1
<1>4. Len(s) = n \/ Len(s) < n \/ n < Len(s)
    BY <1>2
<1> QED BY <1>1, <1>2, <1>3, <1>4

\* A transitive relation between the neighbours of a list is one between all its places.
LEMMA NeighboursOrderAll ==
    ASSUME NEW n \in Nat, NEW R,
           \A i \in 1..(n - 1) : <<i, i + 1>> \in R,
           \A i, j, k \in 1..n : <<i, j>> \in R /\ <<j, k>> \in R => <<i, k>> \in R
    PROVE  \A i, j \in 1..n : i < j => <<i, j>> \in R
<1> SUFFICES ASSUME NEW i \in 1..n, NEW k \in 1..n, i < k, <<i, k>> \notin R
             PROVE  FALSE
    OBVIOUS
<1> DEFINE apart == {j \in 1..n : i < j /\ <<i, j>> \notin R}
<1>1. PICK j \in apart : \A m \in apart : j <= m
    <2>1. apart \subseteq Nat /\ apart # {}
        OBVIOUS
    <2> HIDE DEF apart
    <2> QED BY <2>1, LeastNumber
<1>2. j \in 1..n /\ i < j /\ <<i, j>> \notin R
    OBVIOUS
<1>3. CASE j = i + 1
    BY <1>2, <1>3
<1>4. CASE j # i + 1
    <2>1. j - 1 \in 1..n /\ i < j - 1 /\ ~(j <= j - 1) /\ j - 1 \in 1..(n - 1) /\ (j - 1) + 1 = j
        BY <1>2, <1>4
    <2>2. j - 1 \notin apart
        BY <1>1, <2>1
    <2>3. <<i, j - 1>> \in R
        BY <2>1, <2>2
    <2>4. <<j - 1, j>> \in R
        BY <2>1
    <2> QED BY <1>2, <2>1, <2>3, <2>4
<1> QED BY <1>3, <1>4

\* The places of a list are numbered from 1, in order.
LEMMA PlacesAreInOrder ==
    ASSUME NEW n \in Nat, NEW places \in SUBSET (1..n)
    PROVE  /\ Cardinality(places) \in 0..n
           /\ \A k \in 1..Cardinality(places) : NthPlace(places, k) \in places
           /\ \A k, m \in 1..Cardinality(places) :
                 k < m => NthPlace(places, k) < NthPlace(places, m)
           /\ \A i \in places : \E k \in 1..Cardinality(places) : NthPlace(places, k) = i
<1> DEFINE below == [i \in places |-> {j \in places : j < i}]
           card == Cardinality(places)
<1>1. /\ IsFiniteSet(1..n) /\ Cardinality(1..n) = n
    BY FS_Interval
<1>2. IsFiniteSet(places) /\ card <= n /\ card \in Nat
    BY <1>1, FS_Subset, FS_CardinalityType
<1>3. places \subseteq Nat
    OBVIOUS
<1>4. /\ \A c \in places : Cardinality(below[c]) + 1 \in 1..card
      /\ \A c, d \in places : d < c => Cardinality(below[d]) < Cardinality(below[c])
      /\ \A c, d \in places : Cardinality(below[c]) = Cardinality(below[d]) => c = d
      /\ \A i \in 1..card : \E c \in places : Cardinality(below[c]) = i - 1
    <2>1. /\ below \in [places -> SUBSET places]
          /\ \A c, d \in places : d \in below[c] <=> d < c
        OBVIOUS
    <2> HIDE DEF below
    <2> QED BY <1>2, <1>3, <2>1, NumbersAreRanked DEF card
<1>5. ASSUME NEW k \in 1..card
      PROVE  /\ NthPlace(places, k) \in places
             /\ Cardinality(below[NthPlace(places, k)]) = k - 1
    <2>1. \E c \in places : Cardinality({j \in places : j < c}) = k - 1
        BY <1>4
    <2>2. /\ NthPlace(places, k) \in places
          /\ Cardinality({j \in places : j < NthPlace(places, k)}) = k - 1
        BY <2>1 DEF NthPlace
    <2> QED BY <2>2
<1> HIDE DEF below, card
<1>6. ASSUME NEW k \in 1..card, NEW m \in 1..card, k < m
      PROVE  NthPlace(places, k) < NthPlace(places, m)
    <2>1. PICK c \in places : c = NthPlace(places, k) /\ Cardinality(below[c]) = k - 1
        BY <1>5
    <2>2. PICK d \in places : d = NthPlace(places, m) /\ Cardinality(below[d]) = m - 1
        BY <1>5
    <2>3. k \in Int /\ m \in Int /\ ~(m - 1 < k - 1) /\ m - 1 # k - 1
        BY <1>2, <1>6
    <2>4. ~(d < c) /\ c # d
        BY <1>4, <2>1, <2>2, <2>3
    <2>5. c < d
        BY <1>3, <2>4
    <2> QED BY <2>1, <2>2, <2>5
<1>7. ASSUME NEW i \in places
      PROVE  \E k \in 1..card : NthPlace(places, k) = i
    <2>1. PICK k \in 1..card : k = Cardinality(below[i]) + 1
        BY <1>4
    <2>2. Cardinality(below[i]) \in Nat
        <3>1. below[i] \in SUBSET places
            BY DEF below
        <3> QED BY <1>2, <3>1, FS_Subset, FS_CardinalityType
    <2>3. Cardinality(below[NthPlace(places, k)]) = Cardinality(below[i])
        BY <1>5, <2>1, <2>2
    <2>4. NthPlace(places, k) = i
        BY <1>4, <1>5, <2>3
    <2> QED BY <2>4
<1> QED BY <1>1, <1>2, <1>5, <1>6, <1>7 DEF card

\* What is selected from a list is a list of its elements, in their order.
LEMMA ElementsAreSelected ==
    ASSUME NEW S, NEW list \in Seq(S), NEW places \in SUBSET (DOMAIN list)
    PROVE  /\ ElementsAt(list, places) \in Seq(S)
           /\ Len(ElementsAt(list, places)) = Cardinality(places)
           /\ Cardinality(places) \in Nat
           /\ DOMAIN ElementsAt(list, places) = 1..Cardinality(places)
           /\ \A k \in 1..Cardinality(places) :
                 /\ NthPlace(places, k) \in places
                 /\ ElementsAt(list, places)[k] = list[NthPlace(places, k)]
<1>1. Len(list) \in Nat /\ DOMAIN list = 1..Len(list) /\ list \in [1..Len(list) -> S]
    BY LenProperties
<1>2. /\ Cardinality(places) \in Nat
      /\ \A k \in 1..Cardinality(places) : NthPlace(places, k) \in places
    BY <1>1, PlacesAreInOrder
<1>3. ElementsAt(list, places) \in [1..Cardinality(places) -> S]
    BY <1>1, <1>2 DEF ElementsAt
<1>4. ElementsAt(list, places) \in Seq(S) /\ Len(ElementsAt(list, places)) = Cardinality(places)
    BY <1>2, <1>3, FunctionIsSeq
<1> QED BY <1>2, <1>4 DEF ElementsAt

\* Of the selected places, as many are in a set as there are selected ones in it.
LEMMA SelectionCounts ==
    ASSUME NEW n \in Nat, NEW places \in SUBSET (1..n), NEW T
    PROVE  Cardinality({k \in 1..Cardinality(places) : NthPlace(places, k) \in T})
             = Cardinality(places \cap T)
<1> DEFINE K == {k \in 1..Cardinality(places) : NthPlace(places, k) \in T}
           f == [k \in K |-> NthPlace(places, k)]
<1>1. /\ Cardinality(places) \in 0..n
      /\ \A k \in 1..Cardinality(places) : NthPlace(places, k) \in places
      /\ \A k, m \in 1..Cardinality(places) :
            k < m => NthPlace(places, k) < NthPlace(places, m)
      /\ \A i \in places : \E k \in 1..Cardinality(places) : NthPlace(places, k) = i
    BY PlacesAreInOrder
<1>2. IsFiniteSet(places \cap T)
    <2>1. IsFiniteSet(1..n)
        BY FS_Interval
    <2>2. places \cap T \in SUBSET (1..n)
        OBVIOUS
    <2> QED BY <2>1, <2>2, FS_Subset
<1>3. f \in [K -> places \cap T]
    BY <1>1
<1>4. ASSUME NEW k \in K, NEW m \in K, f[k] = f[m] PROVE k = m
    <2>1. NthPlace(places, k) = NthPlace(places, m) /\ NthPlace(places, k) \in Nat
        <3>1. NthPlace(places, k) = NthPlace(places, m)
            BY <1>4
        <3>2. NthPlace(places, k) \in places /\ places \subseteq Nat
            BY <1>1
        <3> HIDE DEF K, f
        <3> QED BY <3>1, <3>2
    <2>2. k \in 1..Cardinality(places) /\ m \in 1..Cardinality(places)
        OBVIOUS
    <2>3. ~(k < m) /\ ~(m < k)
        BY <1>1, <2>1, <2>2
    <2> QED BY <1>1, <2>2, <2>3
<1>5. ASSUME NEW i \in places \cap T PROVE \E k \in K : f[k] = i
    BY <1>1
<1> HIDE DEF K, f
<1>6. f \in Injection(K, places \cap T)
    BY <1>3, <1>4 DEF Injection, IsInjective
<1>7. f \in Surjection(K, places \cap T)
    BY <1>3, <1>5 DEF Surjection
<1>8. Cardinality(K) = Cardinality(places \cap T)
    BY <1>2, <1>6, <1>7, FS_Injection
<1> QED BY <1>8 DEF K

\* A fold over any number of places exists, and all it passes through is in the set that the
\* step keeps.
LEMMA FoldExists ==
    ASSUME NEW S, NEW start \in S, NEW n \in Nat, NEW step \in [1..n -> [S -> S]]
    PROVE  \E f \in [0..n -> S] :
              f[0] = start /\ \A i \in 1..n : f[i] = step[i][f[i - 1]]
<1> DEFINE Folds(k) == {f \in [0..k -> S] : f[0] = start
                                            /\ \A i \in 1..k : f[i] = step[i][f[i - 1]]}
           T == {k \in 0..n : Folds(k) = {}}
<1>1. T = {}
    <2> SUFFICES ASSUME T # {} PROVE FALSE
        OBVIOUS
    <2>1. PICK k \in T : \A m \in T : k <= m
        <3>1. T \subseteq Nat
            OBVIOUS
        <3> HIDE DEF T
        <3> QED BY <3>1, LeastNumber
    <2>2. k \in 0..n /\ Folds(k) = {}
        OBVIOUS
    <2>3. k # 0
        <3> DEFINE f == [i \in 0..0 |-> start]
        <3>1. f \in Folds(0)
            OBVIOUS
        <3> QED BY <2>2, <3>1
    <2>4. k - 1 \in 0..n /\ ~(k <= k - 1) /\ k \in 1..n
        BY <2>2, <2>3
    <2>5. PICK f : f \in Folds(k - 1)
        <3>1. k - 1 \notin T
            BY <2>1, <2>4
        <3>2. Folds(k - 1) # {}
            BY <2>4, <3>1
        <3> HIDE DEF Folds
        <3> QED BY <3>2
    <2>6. /\ f \in [0..(k - 1) -> S] /\ f[0] = start
          /\ \A i \in 1..(k - 1) : f[i] = step[i][f[i - 1]]
        BY <2>5
    <2>7. step[k][f[k - 1]] \in S
        <3>1. f[k - 1] \in S
            BY <2>4, <2>6
        <3>2. step[k] \in [S -> S]
            BY <2>4
        <3> QED BY <3>1, <3>2
    <2> DEFINE g == [i \in 0..k |-> IF i = k THEN step[k][f[k - 1]] ELSE f[i]]
    <2>8. \A i \in 0..k : (i # k => i \in 0..(k - 1)) /\ (i # 0 => i - 1 \in 0..(k - 1))
        BY <2>2, <2>3
    <2>9. g \in [0..k -> S] /\ g[0] = start
        BY <2>3, <2>4, <2>6, <2>7, <2>8
    <2>10. ASSUME NEW i \in 1..k PROVE g[i] = step[i][g[i - 1]]
        <3>1. i \in 0..k /\ i # 0 /\ i - 1 \in 0..k /\ i - 1 # k
            BY <2>2
        <3>2. g[i - 1] = f[i - 1]
            BY <3>1
        <3>3. CASE i = k
            BY <3>1, <3>2, <3>3
        <3>4. CASE i # k
            <4>1. i \in 1..(k - 1)
                BY <2>2, <3>4
            <4>2. g[i] = f[i] /\ f[i] = step[i][f[i - 1]]
                BY <2>6, <3>1, <3>4, <4>1
            <4> QED BY <3>2, <4>2
        <3> QED BY <3>3, <3>4
    <2> HIDE DEF g
    <2>11. g \in Folds(k)
        BY <2>9, <2>10
    <2> QED BY <2>2, <2>11
<1>2. PICK f : f \in Folds(n)
    BY <1>1
<1> QED BY <1>2

=============================================================================
