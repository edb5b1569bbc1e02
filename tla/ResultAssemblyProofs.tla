------------------------ MODULE ResultAssemblyProofs ------------------------
(***************************************************************************)
(* Theorems about what a decision's result keeps of its logs, telemetry    *)
(* and update errors, from AssemblyInvariant.                              *)
(***************************************************************************)
EXTENDS ResultAssembly, OrderLemmas

-----------------------------------------------------------------------------
(* Lists of entries *)

\* The places of a list whose elements are in a set.
Holding(list, T) == {i \in DOMAIN list : list[i] \in T}

\* The places of a list are as many as it has elements.
LEMMA PlacesAreFinite ==
    ASSUME NEW n \in Nat
    PROVE  IsFiniteSet(1..n) /\ Cardinality(1..n) = n
BY FS_Interval

\* These places are finitely many, however long the list is.
LEMMA HoldingIsFinite ==
    ASSUME NEW S, NEW list \in Seq(S), NEW T
    PROVE  /\ IsFiniteSet(Holding(list, T))
           /\ Cardinality(Holding(list, T)) \in 0..Len(list)
<1>1. DOMAIN list = 1..Len(list) /\ Len(list) \in Nat
    BY LenProperties
<1>2. IsFiniteSet(1..Len(list)) /\ Cardinality(1..Len(list)) = Len(list)
    BY <1>1, FS_Interval
<1>3. Holding(list, T) \in SUBSET (1..Len(list))
    BY <1>1 DEF Holding
<1>4. IsFiniteSet(Holding(list, T)) /\ Cardinality(Holding(list, T)) <= Len(list)
    BY <1>2, <1>3, FS_Subset
<1> QED BY <1>1, <1>4, FS_CardinalityType

\* A further element is at one more place.
LEMMA AppendedHolds ==
    ASSUME NEW S, NEW list \in Seq(S), NEW e \in S, NEW T
    PROVE  /\ Holding(Append(list, e), T) =
                 IF e \in T THEN Holding(list, T) \cup {Len(list) + 1} ELSE Holding(list, T)
           /\ Cardinality(Holding(Append(list, e), T)) =
                 Cardinality(Holding(list, T)) + (IF e \in T THEN 1 ELSE 0)
<1> DEFINE longer == Append(list, e)
           n == Len(list)
<1>1. /\ n \in Nat /\ DOMAIN list = 1..n
      /\ longer \in Seq(S) /\ Len(longer) = n + 1
      /\ \A i \in 1..n : longer[i] = list[i]
      /\ longer[n + 1] = e
    BY LenProperties, AppendProperties
<1> HIDE DEF longer, n
<1>2. DOMAIN longer = 1..(n + 1)
    BY <1>1, LenProperties
<1>3. Holding(longer, T) =
          IF e \in T THEN Holding(list, T) \cup {n + 1} ELSE Holding(list, T)
    BY <1>1, <1>2 DEF Holding
<1>4. /\ IsFiniteSet(Holding(list, T)) /\ Cardinality(Holding(list, T)) \in Nat
      /\ n + 1 \notin Holding(list, T)
    <2>1. Cardinality(Holding(list, T)) \in 0..Len(list) /\ IsFiniteSet(Holding(list, T))
        BY HoldingIsFinite
    <2> QED BY <1>1, <2>1 DEF Holding, n
<1>5. Cardinality(Holding(list, T) \cup {n + 1}) = Cardinality(Holding(list, T)) + 1
    BY <1>4, FS_AddElement
<1> QED BY <1>3, <1>4, <1>5 DEF longer, n

\* A selection holds what was selected.
LEMMA SelectedHolds ==
    ASSUME NEW S, NEW list \in Seq(S), NEW places \in SUBSET (DOMAIN list), NEW T
    PROVE  /\ Cardinality(Holding(ElementsAt(list, places), T))
                = Cardinality(places \cap Holding(list, T))
           /\ Holding(ElementsAt(list, places), T)
                = {k \in 1..Cardinality(places) : NthPlace(places, k) \in Holding(list, T)}
<1>1. Len(list) \in Nat /\ DOMAIN list = 1..Len(list)
    BY LenProperties
<1>2. /\ DOMAIN ElementsAt(list, places) = 1..Cardinality(places)
      /\ \A k \in 1..Cardinality(places) :
            /\ NthPlace(places, k) \in places
            /\ ElementsAt(list, places)[k] = list[NthPlace(places, k)]
    BY ElementsAreSelected
<1>3. Holding(ElementsAt(list, places), T)
        = {k \in 1..Cardinality(places) : NthPlace(places, k) \in Holding(list, T)}
    BY <1>2 DEF Holding
<1>4. Cardinality({k \in 1..Cardinality(places) : NthPlace(places, k) \in Holding(list, T)})
        = Cardinality(places \cap Holding(list, T))
    BY <1>1, SelectionCounts
<1> QED BY <1>3, <1>4

\* Of a set of places, those a selection leaves out are as many as it leaves out.
LEMMA LeftOut ==
    ASSUME NEW S, NEW list \in Seq(S), NEW places \in SUBSET (DOMAIN list), NEW T,
           (DOMAIN list) \ places \subseteq Holding(list, T)
    PROVE  /\ Cardinality(Holding(ElementsAt(list, places), T)) + Len(list)
                = Cardinality(Holding(list, T)) + Len(ElementsAt(list, places))
           /\ Len(ElementsAt(list, places)) \in 0..Len(list)
           /\ places # DOMAIN list => Len(ElementsAt(list, places)) < Len(list)
<1> DEFINE held == Holding(list, T)
           out == (DOMAIN list) \ places
<1>1. Len(list) \in Nat /\ DOMAIN list = 1..Len(list)
    BY LenProperties
<1>2. /\ IsFiniteSet(DOMAIN list) /\ Cardinality(DOMAIN list) = Len(list)
      /\ IsFiniteSet(held) /\ Cardinality(held) \in Nat
    <2>1. IsFiniteSet(1..Len(list)) /\ Cardinality(1..Len(list)) = Len(list)
        BY <1>1, PlacesAreFinite
    <2>2. IsFiniteSet(held) /\ Cardinality(held) \in 0..Len(list)
        BY HoldingIsFinite
    <2> QED BY <1>1, <2>1, <2>2
<1>3. /\ Len(ElementsAt(list, places)) = Cardinality(places) /\ Cardinality(places) \in Nat
      /\ Cardinality(Holding(ElementsAt(list, places), T)) = Cardinality(places \cap held)
    BY ElementsAreSelected, SelectedHolds
<1>4. IsFiniteSet(out) /\ Cardinality(out) = Len(list) - Cardinality(places)
    <2> DEFINE all == DOMAIN list
    <2>1. all \cap places = places
        OBVIOUS
    <2> HIDE DEF all
    <2>2. IsFiniteSet(all \ places)
          /\ Cardinality(all \ places) = Cardinality(all) - Cardinality(all \cap places)
        BY <1>2, FS_Difference DEF all
    <2> QED BY <1>2, <2>1, <2>2 DEF all
<1>5. Cardinality(places \cap held) = Cardinality(held) - Cardinality(out)
    <2>1. places \cap held = held \ out /\ held \cap out = out
        BY DEF Holding
    <2> HIDE DEF held, out
    <2>2. Cardinality(held \ out) = Cardinality(held) - Cardinality(held \cap out)
        BY <1>2, FS_Difference
    <2> QED BY <2>1, <2>2
<1>6. /\ Cardinality(out) \in Nat
      /\ out # {} => Cardinality(out) # 0
    BY <1>4, FS_CardinalityType, FS_EmptySet
<1>7. places # DOMAIN list => out # {}
    OBVIOUS
<1> HIDE DEF held, out
<1> QED BY <1>1, <1>2, <1>3, <1>4, <1>5, <1>6, <1>7 DEF held

-----------------------------------------------------------------------------
(* Outputs in lists *)

EntriesOf(code) == {e \in Entries : e.code = code}

OutputEntries == {e \in Entries : e.output # 0}

\* What the model counts by code or by output are places that hold such entries.
LEMMA PlacesAreHeld ==
    ASSUME NEW list \in Seq(Entries)
    PROVE  /\ \A code : Coded(list, code) = Holding(list, EntriesOf(code))
           /\ Logs(list) = Coded(list, "kernel_log")
           /\ Numbered(list) = Holding(list, OutputEntries)
           /\ \A i \in DOMAIN list : list[i] \in Entries
<1>1. \A i \in DOMAIN list : list[i] \in Entries
    BY LenProperties
<1>2. ASSUME NEW code PROVE Coded(list, code) = Holding(list, EntriesOf(code))
    BY <1>1 DEF Coded, Holding, EntriesOf
<1>3. Logs(list) = Coded(list, "kernel_log")
    BY DEF Logs, IsLog, Coded
<1>4. Numbered(list) = Holding(list, OutputEntries)
    BY <1>1 DEF Numbered, Holding, OutputEntries
<1> QED BY <1>1, <1>2, <1>3, <1>4

\* An entry that is no output adds none; one of a later output than those before adds it, in
\* order.
LEMMA NumbersAppended ==
    ASSUME NEW list \in Seq(Entries), NEW e \in Entries
    PROVE  /\ e.output = 0 => /\ Numbers(Append(list, e)) = Numbers(list)
                              /\ InOrder(list) => InOrder(Append(list, e))
           /\ e.output # 0 /\ (\A m \in Numbers(list) : m < e.output) =>
                 /\ Numbers(Append(list, e)) = Numbers(list) \cup {e.output}
                 /\ InOrder(list) => InOrder(Append(list, e))
<1> DEFINE longer == Append(list, e)
           n == Len(list)
<1>1. /\ n \in Nat /\ DOMAIN list = 1..n
      /\ longer \in Seq(Entries) /\ Len(longer) = n + 1
      /\ \A i \in 1..n : longer[i] = list[i]
      /\ longer[n + 1] = e
    BY LenProperties, AppendProperties
<1> HIDE DEF longer, n
<1>2. DOMAIN longer = 1..(n + 1) /\ \A i \in 1..n : i \in 1..(n + 1) /\ i # n + 1
    BY <1>1, LenProperties
<1>3. CASE e.output = 0
    <2>1. Numbered(longer) = Numbered(list)
        BY <1>1, <1>2, <1>3 DEF Numbered
    <2>2. \A i \in Numbered(list) : longer[i].output = list[i].output
        BY <1>1 DEF Numbered
    <2>3. Numbers(longer) = Numbers(list)
        BY <2>1, <2>2 DEF Numbers
    <2>4. InOrder(list) => InOrder(longer)
        BY <2>1, <2>2 DEF InOrder
    <2> QED BY <1>3, <2>3, <2>4 DEF longer
<1>4. CASE e.output # 0 /\ \A m \in Numbers(list) : m < e.output
    <2>1. Numbered(longer) = Numbered(list) \cup {n + 1}
        BY <1>1, <1>2, <1>4 DEF Numbered
    <2>2. \A i \in Numbered(list) : longer[i].output = list[i].output /\ i \in 1..n
        BY <1>1 DEF Numbered
    <2>3. Numbers(longer) = Numbers(list) \cup {e.output}
        BY <1>1, <2>1, <2>2 DEF Numbers
    <2>4. ASSUME InOrder(list), NEW i \in Numbered(longer), NEW j \in Numbered(longer), i < j
          PROVE  longer[i].output < longer[j].output
        <3>1. i \in Numbered(list)
            BY <1>1, <2>1, <2>2, <2>4
        <3>2. CASE j \in Numbered(list)
            BY <2>2, <2>4, <3>1, <3>2 DEF InOrder
        <3>3. CASE j = n + 1
            <4>1. longer[i].output \in Numbers(list)
                BY <2>2, <3>1 DEF Numbers
            <4> QED BY <1>1, <1>4, <3>3, <4>1
        <3> QED BY <2>1, <2>4, <3>2, <3>3
    <2>5. InOrder(list) => InOrder(longer)
        BY <2>4 DEF InOrder
    <2> QED BY <1>4, <2>3, <2>5 DEF longer
<1> QED BY <1>3, <1>4

\* A selection is of the list's outputs, in order.
LEMMA NumbersSelected ==
    ASSUME NEW list \in Seq(Entries), NEW places \in SUBSET (DOMAIN list)
    PROVE  /\ Numbers(ElementsAt(list, places)) \subseteq Numbers(list)
           /\ Numbered(list) \subseteq places =>
                 Numbers(ElementsAt(list, places)) = Numbers(list)
           /\ InOrder(list) => InOrder(ElementsAt(list, places))
<1> DEFINE chosen == ElementsAt(list, places)
<1>1. /\ DOMAIN chosen = 1..Cardinality(places)
      /\ \A k \in 1..Cardinality(places) :
            /\ NthPlace(places, k) \in places
            /\ chosen[k] = list[NthPlace(places, k)]
    BY ElementsAreSelected
<1>2. /\ \A k, m \in 1..Cardinality(places) :
            k < m => NthPlace(places, k) < NthPlace(places, m)
      /\ \A i \in places : \E k \in 1..Cardinality(places) : NthPlace(places, k) = i
    <2>1. Len(list) \in Nat /\ DOMAIN list = 1..Len(list)
        BY LenProperties
    <2> QED BY <2>1, PlacesAreInOrder
<1> HIDE DEF chosen
<1>3. \A k \in Numbered(chosen) :
         /\ k \in 1..Cardinality(places)
         /\ NthPlace(places, k) \in Numbered(list)
         /\ chosen[k].output = list[NthPlace(places, k)].output
    BY <1>1 DEF Numbered
<1>4. Numbers(chosen) \subseteq Numbers(list)
    BY <1>3 DEF Numbers
<1>5. ASSUME Numbered(list) \subseteq places PROVE Numbers(list) \subseteq Numbers(chosen)
    <2> SUFFICES ASSUME NEW i \in Numbered(list) PROVE list[i].output \in Numbers(chosen)
        BY DEF Numbers
    <2>1. PICK k \in 1..Cardinality(places) : NthPlace(places, k) = i
        BY <1>2, <1>5
    <2>2. chosen[k] = list[i] /\ k \in DOMAIN chosen
        BY <1>1, <2>1
    <2>3. k \in Numbered(chosen)
        BY <2>2 DEF Numbered
    <2> QED BY <2>2, <2>3 DEF Numbers
<1>6. InOrder(list) => InOrder(chosen)
    BY <1>2, <1>3 DEF InOrder
<1> QED BY <1>4, <1>5, <1>6 DEF chosen

-----------------------------------------------------------------------------
(* Sums *)

\* total sums a field of the first n entries.
Sums(entries, field, n, total) ==
    total = [i \in 0..n |-> IF i = 0 THEN 0 ELSE total[i - 1] + entries[i][field]]

\* A field of any list of entries has a sum.
LEMMA TotalIsSummed ==
    ASSUME NEW list \in Seq(Entries), NEW field \in {"size", "charge"}
    PROVE  \E total \in [0..Len(list) -> Nat] :
              /\ total[0] = 0
              /\ \A i \in 1..Len(list) : total[i] = total[i - 1] + list[i][field]
              /\ Total(list, field) = total[Len(list)]
<1> DEFINE n == Len(list)
           chosen == CHOOSE total : Sums(list, field, n, total)
           step == [i \in 1..n |-> [sum \in Nat |-> sum + list[i][field]]]
<1>1. n \in Nat /\ DOMAIN list = 1..n /\ \A i \in 1..n : list[i] \in Entries
    BY LenProperties
<1>2. \A i \in 1..n : list[i][field] \in Nat
    BY <1>1 DEF Entries
<1>3. Total(list, field) = chosen[n]
    BY Zenon DEF Total, Sums
<1> HIDE DEF n, chosen
<1>4. \E total \in [0..n -> Nat] : Sums(list, field, n, total)
    <2>1. step \in [1..n -> [Nat -> Nat]]
        BY <1>2
    <2>2. \A i \in 1..n, sum \in Nat : step[i][sum] = sum + list[i][field]
        OBVIOUS
    <2> HIDE DEF step
    <2> DEFINE Fold(f) == f[0] = 0 /\ \A i \in 1..n : f[i] = step[i][f[i - 1]]
    <2>3. PICK f \in [0..n -> Nat] : Fold(f)
        <3>1. PICK N, zero : N = Nat /\ zero = 0
            OBVIOUS
        <3>2. zero \in N /\ step \in [1..n -> [N -> N]] /\ n \in Nat
            BY <1>1, <2>1, <3>1
        <3>3. PICK f \in [0..n -> N] :
                 f[0] = zero /\ \A i \in 1..n : f[i] = step[i][f[i - 1]]
            BY ONLY <3>2, FoldExists
        <3>4. f \in [0..n -> Nat] /\ Fold(f)
            BY <3>1, <3>3
        <3> HIDE DEF Fold
        <3> QED BY <3>4
    <2>4. \A i \in 0..n : i # 0 => i \in 1..n /\ i - 1 \in 0..n
        BY <1>1
    <2>6. \A i \in 0..n : f[i] = IF i = 0 THEN 0 ELSE f[i - 1] + list[i][field]
        BY <2>2, <2>3, <2>4
    <2>7. f = [i \in 0..n |-> f[i]]
        BY <2>3
    <2>8. f = [i \in 0..n |-> IF i = 0 THEN 0 ELSE f[i - 1] + list[i][field]]
        BY <2>6, <2>7
    <2> QED BY <2>8 DEF Sums
<1>5. Sums(list, field, n, chosen)
    BY <1>4 DEF chosen
<1>6. /\ chosen[0] = 0
      /\ \A i \in 1..n : chosen[i] = chosen[i - 1] + list[i][field]
      /\ chosen = [i \in 0..n |-> chosen[i]]
    <2>1. 0 \in 0..n /\ \A i \in 1..n : i \in 0..n /\ i # 0
        BY <1>1
    <2> QED BY <1>5, <2>1 DEF Sums
<1>7. \A i \in 0..n : chosen[i] \in Nat
    <2> DEFINE T == {i \in 0..n : chosen[i] \notin Nat}
    <2> SUFFICES ASSUME T # {} PROVE FALSE
        OBVIOUS
    <2>1. T \subseteq Nat
        OBVIOUS
    <2>2. PICK k \in T : \A m \in T : k <= m
        <3> HIDE DEF T
        <3> QED BY <2>1, LeastNumber
    <2>3. k \in 1..n /\ k - 1 \in 0..n /\ ~(k <= k - 1)
        <3>1. k \in 0..n /\ k # 0
            BY <1>6
        <3> QED BY <1>1, <3>1
    <2>4. chosen[k - 1] \in Nat
        BY <2>2, <2>3
    <2>5. chosen[k] = chosen[k - 1] + list[k][field] /\ list[k][field] \in Nat
        BY <1>2, <1>6, <2>3
    <2>6. chosen[k] \in Nat
        BY <2>4, <2>5
    <2> QED BY <2>6
<1>8. chosen \in [0..n -> Nat]
    BY <1>6, <1>7
<1> QED BY <1>3, <1>6, <1>8 DEF n

\* A field that is 1 in every entry sums to the number of entries.
LEMMA TotalOfUnits ==
    ASSUME NEW list \in Seq(Entries), NEW field \in {"size", "charge"},
           \A i \in DOMAIN list : list[i][field] = 1
    PROVE  Total(list, field) = Len(list)
<1>1. Len(list) \in Nat /\ DOMAIN list = 1..Len(list)
    BY LenProperties
<1>2. PICK total \in [0..Len(list) -> Nat] :
          /\ total[0] = 0
          /\ \A i \in 1..Len(list) : total[i] = total[i - 1] + list[i][field]
          /\ Total(list, field) = total[Len(list)]
    BY TotalIsSummed
<1> DEFINE T == {i \in 0..Len(list) : total[i] # i}
<1>3. T = {}
    <2> SUFFICES ASSUME T # {} PROVE FALSE
        OBVIOUS
    <2>1. T \subseteq Nat
        OBVIOUS
    <2>2. PICK k \in T : \A m \in T : k <= m
        <3> HIDE DEF T
        <3> QED BY <2>1, LeastNumber
    <2>3. k \in 1..Len(list) /\ k - 1 \in 0..Len(list) /\ ~(k <= k - 1)
        BY <1>2
    <2>4. total[k - 1] = k - 1
        BY <2>2, <2>3
    <2>5. list[k][field] = 1
        BY <1>1, <2>3
    <2> QED BY <1>2, <2>3, <2>4, <2>5
<1> QED BY <1>1, <1>2, <1>3

\* Sizes are numbers.
LEMMA SizesAreNumbers ==
    ASSUME NEW list \in Seq(Entries)
    PROVE  EncodedSize(list) \in Nat /\ Charged(list) \in Nat
<1>1. Len(list) \in Nat
    BY LenProperties
<1>2. Total(list, "size") \in Nat
    BY <1>1, TotalIsSummed
<1>3. Total(list, "charge") \in Nat
    BY <1>1, TotalIsSummed
<1> QED BY <1>2, <1>3 DEF EncodedSize, Charged

-----------------------------------------------------------------------------
(* What a list of the result is made of *)

OutputCodes == {"kernel_log", "update", "telemetry"}

\* What is kept under some codes: what has an output is a log, an update's or telemetry, and
\* whatever can never be shed is of one size.
Kept(codes) ==
    {e \in Entries :
        /\ e.code \in codes
        /\ e.output # 0 <=> e.code \in OutputCodes
        /\ e.code \notin {"kernel_log", "telemetry"} => e.size = 1 /\ e.charge = 1}

\* These lists are lists of entries, of these codes only.
LEMMA KeptAreEntries ==
    ASSUME NEW codes, NEW list \in Seq(Kept(codes))
    PROVE  /\ list \in Seq(Entries)
           /\ Len(list) \in Nat /\ DOMAIN list = 1..Len(list)
           /\ \A i \in DOMAIN list : list[i] \in Kept(codes)
           /\ Numbered(list) = {i \in DOMAIN list : list[i].code \in OutputCodes}
<1>1. Kept(codes) \subseteq Entries
    BY DEF Kept
<1>2. list \in Seq(Entries)
    BY <1>1, SeqMonotonic
<1>3. /\ Len(list) \in Nat /\ DOMAIN list = 1..Len(list)
      /\ \A i \in DOMAIN list : list[i] \in Kept(codes)
    BY LenProperties
<1>4. Numbered(list) = {i \in DOMAIN list : list[i].code \in OutputCodes}
    BY <1>3 DEF Numbered, Kept
<1> QED BY <1>2, <1>3, <1>4

\* What is counted in a list is at most its length.
LEMMA CountsAreNumbers ==
    ASSUME NEW list \in Seq(Entries)
    PROVE  /\ Len(list) \in Nat
           /\ \A code : /\ IsFiniteSet(Coded(list, code))
                        /\ Cardinality(Coded(list, code)) \in 0..Len(list)
           /\ IsFiniteSet(Numbered(list)) /\ Cardinality(Numbered(list)) \in 0..Len(list)
<1>1. Len(list) \in Nat
    BY LenProperties
<1>2. /\ \A code : Coded(list, code) = Holding(list, EntriesOf(code))
      /\ Numbered(list) = Holding(list, OutputEntries)
    BY PlacesAreHeld
<1>3. ASSUME NEW T
      PROVE  IsFiniteSet(Holding(list, T)) /\ Cardinality(Holding(list, T)) \in 0..Len(list)
    BY HoldingIsFinite
<1>4. ASSUME NEW code
      PROVE  IsFiniteSet(Coded(list, code)) /\ Cardinality(Coded(list, code)) \in 0..Len(list)
    BY <1>2, <1>3
<1> QED BY <1>1, <1>2, <1>3, <1>4

\* A further entry counts as one of its code, and as an output if it is one.
LEMMA EntryAppended ==
    ASSUME NEW codes, NEW list \in Seq(Kept(codes)), NEW e \in Kept(codes)
    PROVE  /\ Append(list, e) \in Seq(Kept(codes))
           /\ Len(Append(list, e)) = Len(list) + 1
           /\ \A code : Cardinality(Coded(Append(list, e), code)) =
                 Cardinality(Coded(list, code)) + (IF e.code = code THEN 1 ELSE 0)
           /\ Cardinality(Numbered(Append(list, e))) =
                 Cardinality(Numbered(list)) + (IF e.output # 0 THEN 1 ELSE 0)
<1>1. /\ list \in Seq(Entries) /\ e \in Entries
    BY KeptAreEntries DEF Kept
<1>2. /\ Append(list, e) \in Seq(Kept(codes)) /\ Append(list, e) \in Seq(Entries)
      /\ Len(Append(list, e)) = Len(list) + 1
    BY <1>1, AppendProperties
<1>3. /\ \A code : /\ Coded(Append(list, e), code) = Holding(Append(list, e), EntriesOf(code))
                   /\ Coded(list, code) = Holding(list, EntriesOf(code))
      /\ Numbered(Append(list, e)) = Holding(Append(list, e), OutputEntries)
      /\ Numbered(list) = Holding(list, OutputEntries)
    BY <1>1, <1>2, PlacesAreHeld
<1>4. ASSUME NEW T
      PROVE  Cardinality(Holding(Append(list, e), T)) =
                Cardinality(Holding(list, T)) + (IF e \in T THEN 1 ELSE 0)
    BY <1>1, AppendedHolds
<1>5. /\ \A code : e \in EntriesOf(code) <=> e.code = code
      /\ e \in OutputEntries <=> e.output # 0
    BY <1>1 DEF EntriesOf, OutputEntries
<1>6. ASSUME NEW code
      PROVE  Cardinality(Coded(Append(list, e), code)) =
                Cardinality(Coded(list, code)) + (IF e.code = code THEN 1 ELSE 0)
    BY <1>3, <1>4, <1>5
<1>7. Cardinality(Numbered(Append(list, e))) =
         Cardinality(Numbered(list)) + (IF e.output # 0 THEN 1 ELSE 0)
    BY <1>3, <1>4, <1>5
<1> QED BY <1>2, <1>6, <1>7

\* The transaction's own entries, of one code, are no outputs.
LEMMA FixedEntries ==
    ASSUME NEW codes, NEW n \in Nat, NEW code \in {"note", "order_updates"}, code \in codes
    PROVE  /\ Fixed(code, n) \in Seq(Kept(codes))
           /\ Len(Fixed(code, n)) = n
           /\ Cardinality(Coded(Fixed(code, n), code)) = n
           /\ \A other : other # code => Coded(Fixed(code, n), other) = {}
           /\ Numbered(Fixed(code, n)) = {} /\ Numbers(Fixed(code, n)) = {}
           /\ InOrder(Fixed(code, n))
<1> DEFINE entry == Entry(code, 1, 1, 0)
<1>1. /\ entry \in Kept(codes) /\ entry.code = code /\ entry.output = 0
    BY DEF Entry, Kept, Entries, Codes, OutputCodes
<1> HIDE DEF entry
<1>2. Fixed(code, n) \in [1..n -> Kept(codes)] /\ \A i \in 1..n : Fixed(code, n)[i] = entry
    BY <1>1 DEF Fixed, entry
<1>3. Fixed(code, n) \in Seq(Kept(codes)) /\ Len(Fixed(code, n)) = n
    BY <1>2, FunctionIsSeq
<1>4. /\ Coded(Fixed(code, n), code) = 1..n
      /\ \A other : other # code => Coded(Fixed(code, n), other) = {}
      /\ Numbered(Fixed(code, n)) = {}
    BY <1>1, <1>2 DEF Coded, Numbered
<1>5. Cardinality(1..n) = n
    BY PlacesAreFinite
<1>6. Numbers(Fixed(code, n)) = {} /\ InOrder(Fixed(code, n))
    BY <1>4 DEF Numbers, InOrder
<1> QED BY <1>3, <1>4, <1>5, <1>6

\* One entry more at the end is that entry appended.
LEMMA OneMore ==
    ASSUME NEW S, NEW list \in Seq(S), NEW e \in S
    PROVE  list \o <<e>> = Append(list, e)
<1>1. <<e>> \in Seq(S) /\ Len(<<e>>) = 1 /\ <<e>>[1] = e
    OBVIOUS
<1>2. Len(list) \in Nat
    BY LenProperties
<1>3. /\ list \o <<e>> \in Seq(S) /\ Len(list \o <<e>>) = Len(list) + 1
      /\ \A i \in 1..(Len(list) + 1) :
            (list \o <<e>>)[i] = IF i <= Len(list) THEN list[i] ELSE <<e>>[i - Len(list)]
    BY <1>1, ConcatProperties
<1>4. /\ Append(list, e) \in Seq(S) /\ Len(Append(list, e)) = Len(list) + 1
      /\ \A i \in 1..Len(list) : Append(list, e)[i] = list[i]
      /\ Append(list, e)[Len(list) + 1] = e
    BY AppendProperties
<1>5. \A i \in 1..(Len(list) + 1) :
         /\ i <= Len(list) => i \in 1..Len(list)
         /\ ~(i <= Len(list)) => i = Len(list) + 1 /\ i - Len(list) = 1
    BY <1>2
<1>6. \A i \in 1..(Len(list) + 1) : (list \o <<e>>)[i] = Append(list, e)[i]
    BY <1>1, <1>3, <1>4, <1>5
<1> QED BY <1>3, <1>4, <1>6, SeqEqual

-----------------------------------------------------------------------------
(* append_outputs *)

DiagnosticCodes == {"note", "kernel_log", "update", "kernel_error", "kernel_telemetry_overflow"}

EvidenceCodes == {"order_updates", "kernel_log"}

Lists == [diagnostics : Seq(Kept(DiagnosticCodes)), evidence : Seq(Kept(EvidenceCodes)),
          telemetry : Seq(Kept({"telemetry"}))]

Accs == [diagnostics : Seq(Kept(DiagnosticCodes)), evidence : Seq(Kept(EvidenceCodes)),
         telemetry : Seq(Kept({"telemetry"})), room : Nat, telemetry_size : Nat, lost : Nat]

\* What the transaction itself put in the lists: notes, order updates and errors.
Carries(r, notes, updates, errors) ==
    /\ Cardinality(Coded(r.diagnostics, "note")) = notes
    /\ Cardinality(Coded(r.evidence, "order_updates")) = updates
    /\ Cardinality(Coded(r.diagnostics, "kernel_error")) = errors

\* What holds when the first n outputs are taken.
AppendedSoFar(acc, n, notes, updates) ==
    /\ Accounted(acc, acc.lost, n)
    /\ Carries(acc, notes, updates, 0)
    /\ Coded(acc.diagnostics, "kernel_telemetry_overflow") = {}
    /\ Len(acc.diagnostics) <= MaxDiagnostics - 2
    /\ Len(acc.evidence) <= MaxEvidence
    /\ Len(acc.telemetry) <= MaxTelemetry

\* An output makes an entry of its code and number.
LEMMA OutputsMakeEntries ==
    ASSUME NEW output \in Outputs, NEW n \in Nat \ {0}, NEW codes, CodeOf(output) \in codes
    PROVE  /\ Entry(CodeOf(output), output.size, output.charge, n) \in Kept(codes)
           /\ Entry(CodeOf(output), output.size, output.charge, n).output = n
           /\ Entry(CodeOf(output), output.size, output.charge, n).code = CodeOf(output)
<1>1. /\ output.kind \in {"log", "telemetry", "update_error", "update_warning"}
      /\ output.size \in Nat /\ output.charge \in Nat
      /\ output.kind \notin {"log", "telemetry"} => output.size = 1 /\ output.charge = 1
    BY AssemblyAssumption DEF Outputs, UpdateError, UpdateWarning, Output
<1>2. /\ CodeOf(output) \in {"kernel_log", "telemetry", "update"}
      /\ CodeOf(output) = "update" => output.kind \notin {"log", "telemetry"}
    BY <1>1 DEF CodeOf
<1> QED BY <1>1, <1>2 DEF Entry, Kept, Entries, Codes, OutputCodes

\* A list that takes the n-th output.
LEMMA ListTakes ==
    ASSUME NEW codes, NEW list \in Seq(Kept(codes)), NEW n \in Nat \ {0},
           NEW e \in Kept(codes), e.output = n,
           Numbers(list) \subseteq 1..(n - 1), InOrder(list)
    PROVE  /\ Len(Append(list, e)) = Len(list) + 1
           /\ \A code : code # e.code => Cardinality(Coded(Append(list, e), code))
                                            = Cardinality(Coded(list, code))
           /\ Cardinality(Numbered(Append(list, e))) = Cardinality(Numbered(list)) + 1
           /\ Numbers(Append(list, e)) = Numbers(list) \cup {n}
           /\ InOrder(Append(list, e))
<1>1. list \in Seq(Entries) /\ e \in Entries /\ e.output # 0
    BY KeptAreEntries DEF Kept
<1>2. /\ Len(list) \in Nat /\ Cardinality(Numbered(list)) \in Nat
      /\ \A code : Cardinality(Coded(list, code)) \in Nat
    BY <1>1, CountsAreNumbers
<1>3. /\ Len(Append(list, e)) = Len(list) + 1
      /\ \A code : Cardinality(Coded(Append(list, e), code)) =
            Cardinality(Coded(list, code)) + (IF e.code = code THEN 1 ELSE 0)
      /\ Cardinality(Numbered(Append(list, e))) = Cardinality(Numbered(list)) + 1
    BY <1>1, EntryAppended
<1>4. \A m \in Numbers(list) : m < e.output
    OBVIOUS
<1>5. Numbers(Append(list, e)) = Numbers(list) \cup {n} /\ InOrder(Append(list, e))
    BY <1>1, <1>4, NumbersAppended
<1>6. \A code : code # e.code => Cardinality(Coded(Append(list, e), code))
                                    = Cardinality(Coded(list, code))
    BY <1>2, <1>3
<1> QED BY <1>3, <1>5, <1>6

\* Where an output goes has room for it.
LEMMA DestinationsHaveRoom ==
    ASSUME NEW acc \in Accs, NEW output \in Outputs
    PROVE  /\ Destination(acc, output) \in {"diagnostics", "evidence", "telemetry", "lost"}
           /\ Destination(acc, output) # "lost" => output.size <= acc.room
           /\ output.size \in Nat
           /\ Destination(acc, output) = "diagnostics" =>
                 CodeOf(output) \in {"kernel_log", "update"}
                 /\ Len(acc.diagnostics) < MaxDiagnostics - 2
           /\ Destination(acc, output) = "evidence" =>
                 CodeOf(output) = "kernel_log" /\ Len(acc.evidence) < MaxEvidence
           /\ Destination(acc, output) = "telemetry" =>
                 CodeOf(output) = "telemetry" /\ Len(acc.telemetry) < MaxTelemetry
<1>1. output.kind \in {"log", "telemetry", "update_error", "update_warning"} /\ output.size \in Nat
    BY AssemblyAssumption DEF Outputs, UpdateError, UpdateWarning, Output
<1>2. /\ CodeOf(output) \in {"kernel_log", "telemetry", "update"}
      /\ CodeOf(output) = "kernel_log" <=> output.kind = "log"
      /\ CodeOf(output) = "telemetry" <=> output.kind = "telemetry"
    BY <1>1 DEF CodeOf
<1> QED BY <1>1, <1>2 DEF Destination

\* Each output is taken to one list, or counted.
LEMMA TakenKeeps ==
    ASSUME NEW acc \in Accs, NEW output \in Outputs, NEW n \in Nat \ {0}
    PROVE  /\ Taken(acc, output, n) \in Accs
           /\ \A notes, updates : AppendedSoFar(acc, n - 1, notes, updates)
                                     => AppendedSoFar(Taken(acc, output, n), n, notes, updates)
<1> DEFINE to == Destination(acc, output)
           entry == Entry(CodeOf(output), output.size, output.charge, n)
           next == Taken(acc, output, n)
<1>1. /\ to \in {"diagnostics", "evidence", "telemetry", "lost"}
      /\ to # "lost" => output.size <= acc.room
      /\ output.size \in Nat
      /\ to = "diagnostics" => CodeOf(output) \in {"kernel_log", "update"}
                               /\ Len(acc.diagnostics) < MaxDiagnostics - 2
      /\ to = "evidence" => CodeOf(output) = "kernel_log" /\ Len(acc.evidence) < MaxEvidence
      /\ to = "telemetry" => CodeOf(output) = "telemetry" /\ Len(acc.telemetry) < MaxTelemetry
    BY DestinationsHaveRoom
<1>2. /\ next = [diagnostics |-> IF to = "diagnostics" THEN Append(acc.diagnostics, entry)
                                 ELSE acc.diagnostics,
                 evidence |-> IF to = "evidence" THEN Append(acc.evidence, entry)
                              ELSE acc.evidence,
                 telemetry |-> IF to = "telemetry" THEN Append(acc.telemetry, entry)
                               ELSE acc.telemetry,
                 room |-> acc.room - (IF to # "lost" THEN output.size ELSE 0),
                 telemetry_size |-> acc.telemetry_size
                                       + (IF to = "telemetry" THEN output.size ELSE 0),
                 lost |-> acc.lost + (IF to = "lost" THEN 1 ELSE 0)]
    BY DEF Taken
<1>3. /\ to = "diagnostics" => entry \in Kept(DiagnosticCodes)
      /\ to = "evidence" => entry \in Kept(EvidenceCodes)
      /\ to = "telemetry" => entry \in Kept({"telemetry"})
    <2>1. \A codes : CodeOf(output) \in codes => entry \in Kept(codes)
        BY OutputsMakeEntries
    <2> HIDE DEF entry, to
    <2> QED BY <1>1, <2>1 DEF DiagnosticCodes, EvidenceCodes
<1>4. entry.output = n /\ entry.code \in {"kernel_log", "update", "telemetry"}
    <2>1. entry.output = n /\ entry.code = CodeOf(output)
        BY DEF Entry
    <2> QED BY <2>1 DEF CodeOf
<1>5. /\ acc.diagnostics \in Seq(Kept(DiagnosticCodes))
      /\ acc.evidence \in Seq(Kept(EvidenceCodes))
      /\ acc.telemetry \in Seq(Kept({"telemetry"}))
      /\ acc.room \in Nat /\ acc.telemetry_size \in Nat /\ acc.lost \in Nat
    BY DEF Accs
<1> HIDE DEF to, entry, next
<1>6. /\ to = "diagnostics" => Append(acc.diagnostics, entry) \in Seq(Kept(DiagnosticCodes))
      /\ to = "evidence" => Append(acc.evidence, entry) \in Seq(Kept(EvidenceCodes))
      /\ to = "telemetry" => Append(acc.telemetry, entry) \in Seq(Kept({"telemetry"}))
    BY <1>3, <1>5, AppendProperties
<1>7. next \in Accs
    BY <1>1, <1>2, <1>5, <1>6 DEF Accs
<1>8. ASSUME NEW notes, NEW updates, AppendedSoFar(acc, n - 1, notes, updates)
      PROVE  AppendedSoFar(next, n, notes, updates)
    <2>1. /\ Numbers(acc.diagnostics) \subseteq 1..(n - 1)
          /\ Numbers(acc.evidence) \subseteq 1..(n - 1)
          /\ Numbers(acc.telemetry) \subseteq 1..(n - 1)
          /\ InOrder(acc.diagnostics) /\ InOrder(acc.evidence) /\ InOrder(acc.telemetry)
          /\ Numbers(acc.diagnostics) \cap Numbers(acc.evidence) = {}
          /\ Numbers(acc.diagnostics) \cap Numbers(acc.telemetry) = {}
          /\ Numbers(acc.evidence) \cap Numbers(acc.telemetry) = {}
          /\ Cardinality(Numbered(acc.diagnostics)) + Cardinality(Numbered(acc.evidence))
                + Cardinality(Numbered(acc.telemetry)) + acc.lost = n - 1
        BY <1>8 DEF AppendedSoFar, Accounted
    <2> DEFINE d == next.diagnostics
               v == next.evidence
               t == next.telemetry
    <2>2. /\ d = IF to = "diagnostics" THEN Append(acc.diagnostics, entry) ELSE acc.diagnostics
          /\ v = IF to = "evidence" THEN Append(acc.evidence, entry) ELSE acc.evidence
          /\ t = IF to = "telemetry" THEN Append(acc.telemetry, entry) ELSE acc.telemetry
          /\ next.lost = acc.lost + (IF to = "lost" THEN 1 ELSE 0)
        BY <1>2
    <2> HIDE DEF d, v, t
    <2>6. /\ Len(acc.diagnostics) \in Nat /\ Len(acc.evidence) \in Nat
          /\ Len(acc.telemetry) \in Nat
          /\ Cardinality(Numbered(acc.diagnostics)) \in Nat
          /\ Cardinality(Numbered(acc.evidence)) \in Nat
          /\ Cardinality(Numbered(acc.telemetry)) \in Nat
        BY <1>5, KeptAreEntries, CountsAreNumbers
    <2>3. /\ Len(d) = Len(acc.diagnostics) + (IF to = "diagnostics" THEN 1 ELSE 0)
          /\ \A code : code # entry.code => Cardinality(Coded(d, code))
                                               = Cardinality(Coded(acc.diagnostics, code))
          /\ Cardinality(Numbered(d)) = Cardinality(Numbered(acc.diagnostics))
                                           + (IF to = "diagnostics" THEN 1 ELSE 0)
          /\ Numbers(d) = IF to = "diagnostics" THEN Numbers(acc.diagnostics) \cup {n}
                          ELSE Numbers(acc.diagnostics)
          /\ InOrder(d)
        <3>1. CASE to = "diagnostics"
            <4>1. d = Append(acc.diagnostics, entry) /\ entry \in Kept(DiagnosticCodes)
                BY <1>3, <2>2, <3>1
            <4> QED BY <1>4, <1>5, <2>1, <3>1, <4>1, ListTakes
        <3>2. CASE to # "diagnostics"
            BY <2>1, <2>2, <2>6, <3>2
        <3> QED BY <3>1, <3>2
    <2>4. /\ Len(v) = Len(acc.evidence) + (IF to = "evidence" THEN 1 ELSE 0)
          /\ \A code : code # entry.code => Cardinality(Coded(v, code))
                                               = Cardinality(Coded(acc.evidence, code))
          /\ Cardinality(Numbered(v)) = Cardinality(Numbered(acc.evidence))
                                           + (IF to = "evidence" THEN 1 ELSE 0)
          /\ Numbers(v) = IF to = "evidence" THEN Numbers(acc.evidence) \cup {n}
                          ELSE Numbers(acc.evidence)
          /\ InOrder(v)
        <3>1. CASE to = "evidence"
            <4>1. v = Append(acc.evidence, entry) /\ entry \in Kept(EvidenceCodes)
                BY <1>3, <2>2, <3>1
            <4> QED BY <1>4, <1>5, <2>1, <3>1, <4>1, ListTakes
        <3>2. CASE to # "evidence"
            BY <2>1, <2>2, <2>6, <3>2
        <3> QED BY <3>1, <3>2
    <2>5. /\ Len(t) = Len(acc.telemetry) + (IF to = "telemetry" THEN 1 ELSE 0)
          /\ Cardinality(Numbered(t)) = Cardinality(Numbered(acc.telemetry))
                                           + (IF to = "telemetry" THEN 1 ELSE 0)
          /\ Numbers(t) = IF to = "telemetry" THEN Numbers(acc.telemetry) \cup {n}
                          ELSE Numbers(acc.telemetry)
          /\ InOrder(t)
        <3>1. CASE to = "telemetry"
            <4>1. t = Append(acc.telemetry, entry) /\ entry \in Kept({"telemetry"})
                BY <1>3, <2>2, <3>1
            <4> QED BY <1>4, <1>5, <2>1, <3>1, <4>1, ListTakes
        <3>2. CASE to # "telemetry"
            BY <2>1, <2>2, <2>6, <3>2
        <3> QED BY <3>1, <3>2
    <2>7. Accounted(next, next.lost, n)
        <3>1. Numbers(d) \cup Numbers(v) \cup Numbers(t) \subseteq 1..n
            BY <2>1, <2>3, <2>4, <2>5
        <3>2. n \notin 1..(n - 1)
            OBVIOUS
        <3>3. /\ Numbers(d) \cap Numbers(v) = {}
              /\ Numbers(d) \cap Numbers(t) = {}
              /\ Numbers(v) \cap Numbers(t) = {}
            BY <2>1, <2>3, <2>4, <2>5, <3>2
        <3>4. Cardinality(Numbered(d)) + Cardinality(Numbered(v)) + Cardinality(Numbered(t))
                 + next.lost = n
            <4> DEFINE a == Cardinality(Numbered(acc.diagnostics))
                       b == Cardinality(Numbered(acc.evidence))
                       c == Cardinality(Numbered(acc.telemetry))
            <4>1. a \in Nat /\ b \in Nat /\ c \in Nat /\ acc.lost \in Nat /\ a + b + c + acc.lost = n - 1
                BY <1>5, <2>1, <2>6
            <4>2. /\ Cardinality(Numbered(d)) = a + (IF to = "diagnostics" THEN 1 ELSE 0)
                  /\ Cardinality(Numbered(v)) = b + (IF to = "evidence" THEN 1 ELSE 0)
                  /\ Cardinality(Numbered(t)) = c + (IF to = "telemetry" THEN 1 ELSE 0)
                  /\ next.lost = acc.lost + (IF to = "lost" THEN 1 ELSE 0)
                BY <2>2, <2>3, <2>4, <2>5
            <4> HIDE DEF a, b, c
            <4>3. CASE to = "diagnostics"
                BY ONLY <4>1, <4>2, <4>3, n \in Nat \ {0}
            <4>4. CASE to = "evidence"
                BY ONLY <4>1, <4>2, <4>4, n \in Nat \ {0}
            <4>5. CASE to = "telemetry"
                BY ONLY <4>1, <4>2, <4>5, n \in Nat \ {0}
            <4>6. CASE to = "lost"
                BY ONLY <4>1, <4>2, <4>6, n \in Nat \ {0}
            <4> QED BY <1>1, <4>3, <4>4, <4>5, <4>6
        <3> QED BY <2>3, <2>4, <2>5, <3>1, <3>3, <3>4 DEF Accounted, d, v, t
    <2>8. Carries(next, notes, updates, 0)
        <3>1. entry.code \notin {"note", "order_updates", "kernel_error"}
            BY <1>4
        <3> QED BY <1>8, <2>3, <2>4, <3>1 DEF AppendedSoFar, Carries, d, v
    <2>9. Coded(d, "kernel_telemetry_overflow") = {}
        <3>1. /\ Cardinality(Coded(d, "kernel_telemetry_overflow"))
                   = Cardinality(Coded(acc.diagnostics, "kernel_telemetry_overflow"))
              /\ Coded(acc.diagnostics, "kernel_telemetry_overflow") = {}
            BY <1>4, <1>8, <2>3 DEF AppendedSoFar
        <3>2. d \in Seq(Entries)
            BY <1>7, KeptAreEntries DEF Accs, d
        <3>3. IsFiniteSet(Coded(d, "kernel_telemetry_overflow"))
            BY <3>2, CountsAreNumbers
        <3> QED BY <3>1, <3>3, FS_EmptySet
    <2>10. /\ Len(d) <= MaxDiagnostics - 2 /\ Len(v) <= MaxEvidence /\ Len(t) <= MaxTelemetry
        <3>1. /\ Len(acc.diagnostics) <= MaxDiagnostics - 2
              /\ Len(acc.evidence) <= MaxEvidence /\ Len(acc.telemetry) <= MaxTelemetry
            BY <1>8 DEF AppendedSoFar
        <3>2. MaxDiagnostics \in Nat /\ MaxEvidence \in Nat /\ MaxTelemetry \in Nat
            BY AssemblyAssumption
        <3>3. Len(d) <= MaxDiagnostics - 2
            <4>1. /\ Len(d) = Len(acc.diagnostics) + (IF to = "diagnostics" THEN 1 ELSE 0)
                  /\ to = "diagnostics" => Len(acc.diagnostics) < MaxDiagnostics - 2
                BY <1>1, <2>3
            <4> DEFINE m == Len(acc.diagnostics)
            <4>2. m \in Nat /\ m <= MaxDiagnostics - 2
                BY <2>6, <3>1
            <4> HIDE DEF m
            <4>3. CASE to = "diagnostics"
                <5>1. Len(d) = m + 1 /\ m < MaxDiagnostics - 2
                    BY <4>1, <4>3 DEF m
                <5> QED BY <3>2, <4>2, <5>1
            <4>4. CASE to # "diagnostics"
                <5>1. Len(d) = m + 0
                    BY <4>1, <4>4 DEF m
                <5> QED BY <3>2, <4>2, <5>1
            <4> QED BY <4>3, <4>4
        <3>4. Len(v) <= MaxEvidence
            <4>1. /\ Len(v) = Len(acc.evidence) + (IF to = "evidence" THEN 1 ELSE 0)
                  /\ to = "evidence" => Len(acc.evidence) < MaxEvidence
                BY <1>1, <2>4
            <4> DEFINE m == Len(acc.evidence)
            <4>2. m \in Nat /\ m <= MaxEvidence
                BY <2>6, <3>1
            <4> HIDE DEF m
            <4>3. CASE to = "evidence"
                <5>1. Len(v) = m + 1 /\ m < MaxEvidence
                    BY <4>1, <4>3 DEF m
                <5> QED BY <3>2, <4>2, <5>1
            <4>4. CASE to # "evidence"
                <5>1. Len(v) = m + 0
                    BY <4>1, <4>4 DEF m
                <5> QED BY <3>2, <4>2, <5>1
            <4> QED BY <4>3, <4>4
        <3>5. Len(t) <= MaxTelemetry
            <4>1. /\ Len(t) = Len(acc.telemetry) + (IF to = "telemetry" THEN 1 ELSE 0)
                  /\ to = "telemetry" => Len(acc.telemetry) < MaxTelemetry
                BY <1>1, <2>5
            <4> DEFINE m == Len(acc.telemetry)
            <4>2. m \in Nat /\ m <= MaxTelemetry
                BY <2>6, <3>1
            <4> HIDE DEF m
            <4>3. CASE to = "telemetry"
                <5>1. Len(t) = m + 1 /\ m < MaxTelemetry
                    BY <4>1, <4>3 DEF m
                <5> QED BY <3>2, <4>2, <5>1
            <4>4. CASE to # "telemetry"
                <5>1. Len(t) = m + 0
                    BY <4>1, <4>4 DEF m
                <5> QED BY <3>2, <4>2, <5>1
            <4> QED BY <4>3, <4>4
        <3> QED BY <3>3, <3>4, <3>5
    <2> QED BY <2>7, <2>8, <2>9, <2>10 DEF AppendedSoFar, d, v, t
<1> QED BY <1>7, <1>8 DEF next

\* after takes the outputs one by one.
Takes(after, start) ==
    after = [n \in 0..Len(outputs) |->
                IF n = 0 THEN start ELSE Taken(after[n - 1], outputs[n], n)]

\* Where the outputs are appended: what the transaction has itself, and what room is left.
StartOf(notes, evidence, size) ==
    LET used == size + EncodedSize(notes) + EncodedSize(evidence) + Overhead
    IN  [diagnostics |-> notes, evidence |-> evidence, telemetry |-> << >>,
         room |-> IF Budget > used THEN Budget - used ELSE 0,
         telemetry_size |-> 0, lost |-> 0]

\* The outputs are appended one after the other.
LEMMA OutputsAreTaken ==
    ASSUME outputs \in Seq(Outputs), NEW notes, NEW evidence, NEW size,
           StartOf(notes, evidence, size) \in Accs
    PROVE  \E after \in [0..Len(outputs) -> Accs] :
              /\ after[0] = StartOf(notes, evidence, size)
              /\ \A n \in 1..Len(outputs) : after[n] = Taken(after[n - 1], outputs[n], n)
              /\ Appended(notes, evidence, size) = after[Len(outputs)]
<1> DEFINE last == Len(outputs)
           start == StartOf(notes, evidence, size)
           chosen == CHOOSE after : Takes(after, start)
           step == [n \in 1..last |-> [acc \in Accs |-> Taken(acc, outputs[n], n)]]
<1>1. last \in Nat /\ \A n \in 1..last : outputs[n] \in Outputs /\ n \in Nat \ {0}
    BY LenProperties
<1>2. Appended(notes, evidence, size) = chosen[last]
    BY Zenon DEF Appended, Takes, StartOf
<1> HIDE DEF last, start, chosen
<1>3. \E after \in [0..last -> Accs] : Takes(after, start)
    <2>1. \A n \in 1..last, acc \in Accs : Taken(acc, outputs[n], n) \in Accs
        BY <1>1, TakenKeeps
    <2>2. step \in [1..last -> [Accs -> Accs]]
        BY <2>1
    <2>3. \A n \in 1..last, acc \in Accs : step[n][acc] = Taken(acc, outputs[n], n)
        OBVIOUS
    <2> HIDE DEF step
    <2>4. start \in Accs
        BY DEF start
    <2>5. PICK f \in [0..last -> Accs] :
             f[0] = start /\ \A n \in 1..last : f[n] = step[n][f[n - 1]]
        <3>1. PICK N, first, m, g : N = Accs /\ first = start /\ m = last /\ g = step
            OBVIOUS
        <3>2. first \in N /\ m \in Nat /\ g \in [1..m -> [N -> N]]
            BY <1>1, <2>2, <2>4, <3>1
        <3>3. \E f \in [0..m -> N] : f[0] = first /\ \A n \in 1..m : f[n] = g[n][f[n - 1]]
            BY ONLY <3>2, FoldExists
        <3> QED BY <3>1, <3>3
    <2>6. \A n \in 0..last : n # 0 => n \in 1..last /\ n - 1 \in 0..last
        BY <1>1
    <2>7. \A n \in 0..last : f[n] = IF n = 0 THEN start ELSE Taken(f[n - 1], outputs[n], n)
        BY <2>3, <2>5, <2>6
    <2>8. f = [n \in 0..last |-> f[n]]
        BY <2>5
    <2>9. f = [n \in 0..last |-> IF n = 0 THEN start ELSE Taken(f[n - 1], outputs[n], n)]
        BY <2>7, <2>8
    <2> QED BY <2>9 DEF Takes, last
<1>4. Takes(chosen, start)
    BY <1>3 DEF chosen
<1>5. /\ chosen[0] = start
      /\ \A n \in 1..last : chosen[n] = Taken(chosen[n - 1], outputs[n], n)
      /\ chosen = [n \in 0..last |-> chosen[n]]
    <2>1. 0 \in 0..last /\ \A n \in 1..last : n \in 0..last /\ n # 0
        BY <1>1
    <2> QED BY <1>4, <2>1 DEF Takes, last
<1>6. \A n \in 0..last : chosen[n] \in Accs
    <2> DEFINE T == {n \in 0..last : chosen[n] \notin Accs}
    <2> SUFFICES ASSUME T # {} PROVE FALSE
        OBVIOUS
    <2>1. T \subseteq Nat
        OBVIOUS
    <2>2. PICK k \in T : \A m \in T : k <= m
        <3> HIDE DEF T
        <3> QED BY <2>1, LeastNumber
    <2>3. k \in 1..last /\ k - 1 \in 0..last /\ ~(k <= k - 1)
        <3>1. k \in 0..last /\ k # 0
            BY <1>5 DEF start
        <3> QED BY <1>1, <3>1
    <2>4. chosen[k - 1] \in Accs
        BY <2>2, <2>3
    <2>5. Taken(chosen[k - 1], outputs[k], k) \in Accs
        BY <1>1, <2>3, <2>4, TakenKeeps
    <2>6. chosen[k] \in Accs
        BY <1>5, <2>3, <2>5
    <2> QED BY <2>6
<1>7. chosen \in [0..last -> Accs]
    BY <1>5, <1>6
<1> QED BY <1>2, <1>5, <1>7 DEF last, start

\* Every output is in the result once, in order, or counted; and what the transaction has itself
\* is as it was.
LEMMA AppendedKeeps ==
    ASSUME outputs \in Seq(Outputs), NEW size \in Nat,
           NEW notes \in 0..MaxNotes, NEW updates \in 0..MaxUpdateEvidence
    PROVE  LET taken == Appended(Fixed("note", notes), Fixed("order_updates", updates), size)
           IN  /\ taken \in Accs
               /\ AppendedSoFar(taken, Len(outputs), notes, updates)
<1> DEFINE said == Fixed("note", notes)
           done == Fixed("order_updates", updates)
           start == StartOf(said, done, size)
           last == Len(outputs)
<1>1. /\ MaxDiagnostics \in Nat /\ MaxEvidence \in Nat /\ MaxTelemetry \in Nat
      /\ Budget \in Nat /\ Overhead \in Nat /\ MaxNotes \in Nat /\ MaxUpdateEvidence \in Nat
      /\ MaxNotes + 2 <= MaxDiagnostics /\ MaxUpdateEvidence <= MaxEvidence
    BY AssemblyAssumption
<1>2. notes \in Nat /\ updates \in Nat /\ notes <= MaxDiagnostics - 2 /\ updates <= MaxEvidence
    BY <1>1
<1>3. last \in Nat /\ \A n \in 1..last : outputs[n] \in Outputs /\ n \in Nat \ {0}
    BY LenProperties
<1>4. /\ said \in Seq(Kept(DiagnosticCodes)) /\ Len(said) = notes
      /\ Cardinality(Coded(said, "note")) = notes
      /\ Coded(said, "kernel_error") = {} /\ Coded(said, "kernel_telemetry_overflow") = {}
      /\ Numbered(said) = {} /\ Numbers(said) = {} /\ InOrder(said)
    <2>1. "note" \in {"note", "order_updates"} /\ "note" \in DiagnosticCodes
        BY DEF DiagnosticCodes
    <2> QED BY <1>2, <2>1, FixedEntries
<1>5. /\ done \in Seq(Kept(EvidenceCodes)) /\ Len(done) = updates
      /\ Cardinality(Coded(done, "order_updates")) = updates
      /\ Numbered(done) = {} /\ Numbers(done) = {} /\ InOrder(done)
    <2>1. "order_updates" \in {"note", "order_updates"} /\ "order_updates" \in EvidenceCodes
        BY DEF EvidenceCodes
    <2> QED BY <1>2, <2>1, FixedEntries
<1> HIDE DEF said, done
<1>6. /\ << >> \in Seq(Kept({"telemetry"})) /\ Len(<< >>) = 0
      /\ Numbered(<< >>) = {} /\ Numbers(<< >>) = {} /\ InOrder(<< >>)
    <2>1. Numbered(<< >>) = {}
        BY DEF Numbered
    <2> QED BY <2>1 DEF Numbers, InOrder
<1>7. start \in Accs
    <2>1. EncodedSize(said) \in Nat /\ EncodedSize(done) \in Nat
        BY <1>4, <1>5, KeptAreEntries, SizesAreNumbers
    <2> QED BY <1>1, <1>4, <1>5, <1>6, <2>1 DEF StartOf, Accs
<1>8. AppendedSoFar(start, 0, notes, updates)
    <2>1. Cardinality({}) = 0
        BY FS_EmptySet
    <2>2. /\ start.diagnostics = said /\ start.evidence = done /\ start.telemetry = << >>
          /\ start.lost = 0
        BY DEF StartOf
    <2> HIDE DEF start
    <2>3. Accounted(start, start.lost, 0)
        <3>1. /\ Numbers(said) \cup Numbers(done) \cup Numbers(<< >>) \subseteq 1..0
              /\ Numbers(said) \cap Numbers(done) = {}
              /\ Numbers(said) \cap Numbers(<< >>) = {}
              /\ Numbers(done) \cap Numbers(<< >>) = {}
            BY <1>4, <1>5, <1>6
        <3>2. Cardinality(Numbered(said)) + Cardinality(Numbered(done))
                 + Cardinality(Numbered(<< >>)) + 0 = 0
            <4>1. Cardinality(Numbered(said)) = 0
                BY <1>4, <2>1
            <4>2. Cardinality(Numbered(done)) = 0
                BY <1>5, <2>1
            <4>3. Cardinality(Numbered(<< >>)) = 0
                BY <1>6, <2>1, Zenon
            <4> QED BY <4>1, <4>2, <4>3
        <3> QED BY <1>4, <1>5, <1>6, <2>2, <3>1, <3>2 DEF Accounted
    <2>4. Carries(start, notes, updates, 0)
        BY <1>4, <1>5, <2>1, <2>2 DEF Carries
    <2> QED BY <1>1, <1>2, <1>4, <1>5, <1>6, <2>2, <2>3, <2>4 DEF AppendedSoFar
<1>9. PICK after \in [0..last -> Accs] :
         /\ after[0] = start
         /\ \A n \in 1..last : after[n] = Taken(after[n - 1], outputs[n], n)
         /\ Appended(said, done, size) = after[last]
    BY <1>7, OutputsAreTaken
<1> HIDE DEF start, last
<1>10. \A n \in 0..last : AppendedSoFar(after[n], n, notes, updates)
    <2> DEFINE T == {n \in 0..last : ~AppendedSoFar(after[n], n, notes, updates)}
    <2> SUFFICES ASSUME T # {} PROVE FALSE
        OBVIOUS
    <2>1. T \subseteq Nat
        OBVIOUS
    <2>2. PICK k \in T : \A m \in T : k <= m
        <3> HIDE DEF T
        <3> QED BY <2>1, LeastNumber
    <2>3. k \in 1..last /\ k - 1 \in 0..last /\ ~(k <= k - 1)
        <3>1. k \in 0..last /\ k # 0
            BY <1>8, <1>9
        <3> QED BY <1>3, <3>1
    <2>4. AppendedSoFar(after[k - 1], k - 1, notes, updates) /\ after[k - 1] \in Accs
        BY <1>9, <2>2, <2>3
    <2>5. AppendedSoFar(Taken(after[k - 1], outputs[k], k), k, notes, updates)
        BY <1>3, <2>3, <2>4, TakenKeeps
    <2>6. AppendedSoFar(after[k], k, notes, updates)
        BY <1>9, <2>3, <2>5
    <2> QED BY <2>6
<1>11. last \in 0..last
    BY <1>3
<1> QED BY <1>9, <1>10, <1>11 DEF said, done, last

-----------------------------------------------------------------------------
(* The inductive invariant *)

\* What a result keeps from its assembly on: every one of n outputs once or counted, what the
\* decision itself put in it, and the room of its lists; the last diagnostic's place is for
\* the overflow.
Settled(r, count, n, carried) ==
    /\ r \in Lists
    /\ Accounted(r, count, n)
    /\ Carries(r, carried.notes, carried.updates, IF carried.error THEN 1 ELSE 0)
    /\ Len(r.diagnostics) - Cardinality(Coded(r.diagnostics, "kernel_telemetry_overflow"))
          <= MaxDiagnostics - 1
    /\ Len(r.evidence) <= MaxEvidence
    /\ Len(r.telemetry) <= MaxTelemetry

\* Not even what can never be shed fits.
GivenUp(r, count, carried) ==
    LET told == Cardinality(Coded(r.diagnostics, "update")) + IF count > 0 THEN 1 ELSE 0
    IN  carried.notes + carried.updates + told + (IF carried.error THEN 1 ELSE 0)
            + (IF carried.charge > carried.size THEN carried.charge ELSE carried.size)
          > MaxResultSize

AssemblyInvariant ==
    /\ TypeOK
    /\ phase \in {"fit", "returned", "failed"} =>
          Settled(result, lost, Len(outputs), essential)
    /\ phase = "returned" => OverflowTold(result.diagnostics, lost) /\ ListsFit(result)
    /\ phase = "failed" => GivenUp(result, lost, essential)

-----------------------------------------------------------------------------
(* Lists that are told more or shed some *)

\* An entry without an output, appended.
LEMMA OwnEntryAppended ==
    ASSUME NEW codes, NEW list \in Seq(Kept(codes)), NEW e \in Kept(codes), e.output = 0
    PROVE  /\ list \o <<e>> \in Seq(Kept(codes))
           /\ Len(list \o <<e>>) = Len(list) + 1
           /\ Cardinality(Coded(list \o <<e>>, e.code)) = Cardinality(Coded(list, e.code)) + 1
           /\ \A code : code # e.code => Cardinality(Coded(list \o <<e>>, code))
                                            = Cardinality(Coded(list, code))
           /\ Cardinality(Numbered(list \o <<e>>)) = Cardinality(Numbered(list))
           /\ Numbers(list \o <<e>>) = Numbers(list)
           /\ InOrder(list) => InOrder(list \o <<e>>)
<1>1. list \o <<e>> = Append(list, e)
    BY OneMore
<1>2. list \in Seq(Entries) /\ e \in Entries
    BY KeptAreEntries DEF Kept
<1>3. /\ Cardinality(Numbered(list)) \in Nat
      /\ \A code : Cardinality(Coded(list, code)) \in Nat
    BY <1>2, CountsAreNumbers
<1>4. /\ Append(list, e) \in Seq(Kept(codes))
      /\ Len(Append(list, e)) = Len(list) + 1
      /\ \A code : Cardinality(Coded(Append(list, e), code)) =
            Cardinality(Coded(list, code)) + (IF e.code = code THEN 1 ELSE 0)
      /\ Cardinality(Numbered(Append(list, e))) =
            Cardinality(Numbered(list)) + (IF e.output # 0 THEN 1 ELSE 0)
    BY EntryAppended
<1>5. Numbers(Append(list, e)) = Numbers(list) /\ (InOrder(list) => InOrder(Append(list, e)))
    BY <1>2, NumbersAppended
<1>6. Cardinality(Numbered(Append(list, e))) = Cardinality(Numbered(list))
    BY <1>3, <1>4
<1>7. /\ Cardinality(Coded(Append(list, e), e.code)) = Cardinality(Coded(list, e.code)) + 1
      /\ \A code : code # e.code => Cardinality(Coded(Append(list, e), code))
                                       = Cardinality(Coded(list, code))
    BY <1>3, <1>4
<1> QED BY <1>1, <1>4, <1>5, <1>6, <1>7

\* A selection of a list counts what it selects.
LEMMA KeptSelected ==
    ASSUME NEW codes, NEW list \in Seq(Kept(codes)), NEW places \in SUBSET (DOMAIN list)
    PROVE  LET chosen == ElementsAt(list, places)
           IN  /\ chosen \in Seq(Kept(codes))
               /\ Len(chosen) = Cardinality(places)
               /\ \A code :
                     /\ Coded(list, code) \subseteq places =>
                           Cardinality(Coded(chosen, code)) = Cardinality(Coded(list, code))
                     /\ Coded(list, code) \cap places = {} => Coded(chosen, code) = {}
               /\ Numbered(list) \subseteq places =>
                     Cardinality(Numbered(chosen)) = Cardinality(Numbered(list))
<1> DEFINE chosen == ElementsAt(list, places)
<1>1. list \in Seq(Entries)
    BY KeptAreEntries
<1>2. /\ chosen \in Seq(Kept(codes)) /\ chosen \in Seq(Entries)
      /\ Len(chosen) = Cardinality(places)
    BY <1>1, ElementsAreSelected
<1>3. ASSUME NEW T
      PROVE  /\ Cardinality(Holding(chosen, T)) = Cardinality(places \cap Holding(list, T))
             /\ Holding(chosen, T)
                  = {k \in 1..Cardinality(places) : NthPlace(places, k) \in Holding(list, T)}
    BY <1>1, SelectedHolds
<1>4. \A k \in 1..Cardinality(places) : NthPlace(places, k) \in places
    BY <1>1, ElementsAreSelected
<1>5. /\ \A code : /\ Coded(chosen, code) = Holding(chosen, EntriesOf(code))
                   /\ Coded(list, code) = Holding(list, EntriesOf(code))
      /\ Numbered(chosen) = Holding(chosen, OutputEntries)
      /\ Numbered(list) = Holding(list, OutputEntries)
    BY <1>1, <1>2, PlacesAreHeld
<1> HIDE DEF chosen
<1>6. ASSUME NEW code, Coded(list, code) \subseteq places
      PROVE  Cardinality(Coded(chosen, code)) = Cardinality(Coded(list, code))
    <2>1. places \cap Coded(list, code) = Coded(list, code)
        BY <1>6
    <2> QED BY <1>3, <1>5, <2>1
<1>7. ASSUME NEW code, Coded(list, code) \cap places = {}
      PROVE  Coded(chosen, code) = {}
    <2>1. Coded(chosen, code)
            = {k \in 1..Cardinality(places) : NthPlace(places, k) \in Coded(list, code)}
        <3>1. /\ Coded(chosen, code) = Holding(chosen, EntriesOf(code))
              /\ Coded(list, code) = Holding(list, EntriesOf(code))
            BY <1>5
        <3>2. Holding(chosen, EntriesOf(code)) = {k \in 1..Cardinality(places) :
                  NthPlace(places, k) \in Holding(list, EntriesOf(code))}
            BY <1>3
        <3> QED BY <3>1, <3>2, Zenon
    <2>2. \A k \in 1..Cardinality(places) : NthPlace(places, k) \notin Coded(list, code)
        BY <1>4, <1>7
    <2> QED BY <2>1, <2>2
<1>8. ASSUME Numbered(list) \subseteq places
      PROVE  Cardinality(Numbered(chosen)) = Cardinality(Numbered(list))
    <2>1. places \cap Numbered(list) = Numbered(list)
        BY <1>8
    <2> QED BY <1>3, <1>5, <2>1
<1> QED BY <1>2, <1>6, <1>7, <1>8 DEF chosen

\* What a list may become when some of it is shed: what is missing are outputs.
Shorter(less, list, codes) ==
    /\ less \in Seq(Kept(codes))
    /\ Len(less) <= Len(list)
    /\ Cardinality(Numbered(less)) + Len(list) = Cardinality(Numbered(list)) + Len(less)
    /\ Numbers(less) \subseteq Numbers(list)
    /\ InOrder(list) => InOrder(less)
    /\ \A code \in {"note", "order_updates", "kernel_error", "kernel_telemetry_overflow"} :
          Cardinality(Coded(less, code)) = Cardinality(Coded(list, code))

\* A list that sheds nothing.
LEMMA ShorterIsReflexive ==
    ASSUME NEW codes, NEW list \in Seq(Kept(codes))
    PROVE  Shorter(list, list, codes)
<1>1. Len(list) \in Nat /\ Cardinality(Numbered(list)) \in Nat
    BY KeptAreEntries, CountsAreNumbers
<1> QED BY <1>1 DEF Shorter

\* The last logs are what a list sheds, and the last one always is.
LEMMA LogsAreShed ==
    ASSUME NEW codes, NEW list \in Seq(Kept(codes)), NEW n \in Nat
    PROVE  LET less == WithoutLogs(list, n)
           IN  /\ Shorter(less, list, codes)
               /\ Cardinality(Logs(less)) + Len(list) = Cardinality(Logs(list)) + Len(less)
               /\ n # 0 /\ Logs(list) # {} => Len(less) < Len(list)
<1> DEFINE places == {i \in DOMAIN list :
                        ~IsLog(list[i]) \/ Cardinality({j \in Logs(list) : j > i}) >= n}
           less == ElementsAt(list, places)
<1>1. /\ list \in Seq(Entries)
      /\ Len(list) \in Nat /\ DOMAIN list = 1..Len(list)
      /\ \A i \in DOMAIN list : list[i] \in Kept(codes)
    BY KeptAreEntries
<1>2. /\ WithoutLogs(list, n) = less /\ places \in SUBSET (DOMAIN list)
      /\ (DOMAIN list) \ places \subseteq Logs(list)
      /\ \A i \in DOMAIN list : ~IsLog(list[i]) => i \in places
    BY DEF WithoutLogs, Logs
<1>3. n # 0 /\ Logs(list) # {} => places # DOMAIN list
    <2> SUFFICES ASSUME n # 0, Logs(list) # {} PROVE places # DOMAIN list
        OBVIOUS
    <2>1. IsFiniteSet(Logs(list)) /\ Logs(list) \subseteq 1..Len(list)
        <3>1. Logs(list) = Coded(list, "kernel_log")
            BY <1>1, PlacesAreHeld
        <3>2. IsFiniteSet(Coded(list, "kernel_log"))
            BY <1>1, CountsAreNumbers
        <3> QED BY <1>1, <3>1, <3>2 DEF Logs
    <2>2. PICK i \in Logs(list) : \A j \in Logs(list) : ~(j > i)
        <3> DEFINE after == {Len(list) - j : j \in Logs(list)}
        <3>1. after \subseteq Nat /\ after # {}
            BY <1>1, <2>1
        <3>2. PICK d \in after : \A m \in after : d <= m
            <4> HIDE DEF after
            <4> QED BY <3>1, LeastNumber
        <3>3. PICK i \in Logs(list) : d = Len(list) - i
            BY <3>2
        <3>4. \A j \in Logs(list) : Len(list) - i <= Len(list) - j
            BY <3>2, <3>3
        <3>5. \A j \in Logs(list) : j \in Nat
            BY <2>1
        <3> QED BY <1>1, <3>3, <3>4, <3>5
    <2>3. {j \in Logs(list) : j > i} = {} /\ IsLog(list[i]) /\ i \in DOMAIN list
        BY <2>2 DEF Logs
    <2>4. Cardinality({j \in Logs(list) : j > i}) = 0
        BY <2>3, FS_EmptySet
    <2>5. i \notin places
        BY <2>3, <2>4
    <2> QED BY <2>3, <2>5
<1> HIDE DEF places
<1>4. /\ less \in Seq(Kept(codes))
      /\ Len(less) = Cardinality(places)
      /\ \A code : Coded(list, code) \subseteq places =>
                      Cardinality(Coded(less, code)) = Cardinality(Coded(list, code))
    BY <1>2, KeptSelected
<1>5. less \in Seq(Entries)
    BY <1>4, KeptAreEntries
<1>6. /\ Numbers(less) \subseteq Numbers(list)
      /\ InOrder(list) => InOrder(less)
    BY <1>1, <1>2, NumbersSelected
<1>7. /\ Logs(list) = Holding(list, EntriesOf("kernel_log"))
      /\ Logs(less) = Holding(less, EntriesOf("kernel_log"))
      /\ Numbered(list) = Holding(list, OutputEntries)
      /\ Numbered(less) = Holding(less, OutputEntries)
    BY <1>1, <1>5, PlacesAreHeld
<1>8. Logs(list) \subseteq Numbered(list)
    <2>1. Numbered(list) = {i \in DOMAIN list : list[i].code \in OutputCodes}
        BY KeptAreEntries
    <2> QED BY <2>1 DEF Logs, IsLog, OutputCodes
<1>9. /\ Cardinality(Logs(less)) + Len(list) = Cardinality(Logs(list)) + Len(less)
      /\ Len(less) \in 0..Len(list)
      /\ places # DOMAIN list => Len(less) < Len(list)
    BY <1>1, <1>2, <1>7, LeftOut
<1>10. Cardinality(Numbered(less)) + Len(list) = Cardinality(Numbered(list)) + Len(less)
    BY <1>1, <1>2, <1>7, <1>8, LeftOut
<1>11. ASSUME NEW code \in {"note", "order_updates", "kernel_error",
                            "kernel_telemetry_overflow"}
       PROVE  Cardinality(Coded(less, code)) = Cardinality(Coded(list, code))
    <2>1. Coded(list, code) \subseteq places
        BY <1>2 DEF Coded, IsLog
    <2> QED BY <1>4, <2>1
<1>12. Shorter(less, list, codes)
    BY <1>1, <1>4, <1>6, <1>9, <1>10, <1>11 DEF Shorter
<1> QED BY <1>2, <1>3, <1>9, <1>12

\* A share is at least one, of anything, and at most all.
LEMMA SharesAreSome ==
    ASSUME NEW n \in Nat
    PROVE  Share(n) \in 0..n /\ (n # 0 => Share(n) # 0)
<1> DEFINE s == ShedShare
           q == Share(n)
<1>1. s \in Nat /\ s # 0
    BY AssemblyAssumption
<1>2. q \in Int /\ s * q <= n + s - 1 /\ n + s - 1 < s * q + s
    <2> DEFINE a == n + s - 1
    <2>1. a \in Int
        BY <1>1
    <2> HIDE DEF a, s
    <2>2. a \div s \in Int /\ a % s \in 0..(s - 1) /\ a = s * (a \div s) + (a % s)
        BY <1>1, <2>1
    <2>3. q = a \div s
        BY DEF Share, a, s
    <2> HIDE DEF q
    <2>4. s * q \in Int
        BY <1>1, <2>2, <2>3
    <2>5. a % s \in Int /\ 0 <= a % s /\ a % s <= s - 1
        BY <1>1, <2>2
    <2> QED BY <1>1, <2>1, <2>2, <2>3, <2>4, <2>5 DEF a
<1> HIDE DEF s, q
<1>3. ASSUME NEW x \in Int, NEW y \in Int, x <= y PROVE s * x <= s * y
    <2>1. y - x \in Nat
        BY <1>3
    <2>2. s * (y - x) >= 0
        BY <1>1, <2>1
    <2>3. s * y = s * x + s * (y - x)
        BY <1>1, <1>3
    <2> QED BY <1>1, <1>3, <2>2, <2>3
<1>4. q >= 0
    <2> SUFFICES ASSUME q <= -1 PROVE FALSE
        BY <1>2
    <2>1. s * q <= s * (-1)
        BY <1>2, <1>3
    <2>2. s * q \in Int /\ s * q <= -s
        BY <1>1, <1>2, <2>1
    <2> QED BY <1>1, <1>2, <2>2
<1>5. n # 0 => q # 0
    <2> SUFFICES ASSUME n # 0, q = 0 PROVE FALSE
        OBVIOUS
    <2>1. s * q = 0
        BY <1>1
    <2> QED BY <1>1, <1>2, <2>1
<1>6. q <= n
    <2> SUFFICES ASSUME n + 1 <= q PROVE FALSE
        BY <1>2
    <2>1. s * (n + 1) <= s * q
        BY <1>2, <1>3
    <2>2. s * (n + 1) = s * n + s /\ s * n \in Nat
        BY <1>1
    <2>3. s * n >= n
        <3>1. s * n = (s - 1) * n + n /\ (s - 1) * n \in Nat
            BY <1>1
        <3> QED BY <3>1
    <2>4. s * q \in Int
        BY <1>1, <1>2
    <2> QED BY <1>1, <1>2, <2>1, <2>2, <2>3, <2>4
<1> QED BY <1>2, <1>4, <1>5, <1>6 DEF q

\* Telemetry is shed from its end; all of it are outputs.
LEMMA TelemetryIsShed ==
    ASSUME NEW list \in Seq(Kept({"telemetry"})), NEW n \in 0..Len(list)
    PROVE  /\ Shorter(SubSeq(list, 1, Len(list) - n), list, {"telemetry"})
           /\ Len(SubSeq(list, 1, Len(list) - n)) = Len(list) - n
<1> DEFINE m == Len(list) - n
           less == SubSeq(list, 1, m)
<1>1. /\ list \in Seq(Entries) /\ Len(list) \in Nat /\ DOMAIN list = 1..Len(list)
      /\ \A i \in DOMAIN list : list[i] \in Kept({"telemetry"})
      /\ Numbered(list) = {i \in DOMAIN list : list[i].code \in OutputCodes}
    BY KeptAreEntries
<1>2. m \in 0..Len(list) /\ m \in Nat
    BY <1>1
<1>3. Numbered(list) = 1..Len(list)
    BY <1>1 DEF Kept, OutputCodes
<1> HIDE DEF m
<1>4. /\ less \in Seq(Kept({"telemetry"})) /\ Len(less) = m
      /\ \A i \in 1..m : less[i] = list[i]
    <2>1. \A i \in 1..m : list[i] \in Kept({"telemetry"})
        BY <1>1, <1>2
    <2>2. /\ less \in Seq(Kept({"telemetry"}))
          /\ Len(less) = IF 1 <= m THEN m - 1 + 1 ELSE 0
          /\ \A i \in 1..(m - 1 + 1) : less[i] = list[1 + i - 1]
        BY <1>2, <2>1, SubSeqProperties
    <2>3. \A i \in 1..m : i \in 1..(m - 1 + 1) /\ 1 + i - 1 = i
        BY <1>2
    <2> QED BY <1>2, <2>2, <2>3
<1> HIDE DEF less
<1>5. /\ DOMAIN less = 1..m
      /\ Numbered(less) = {i \in DOMAIN less : less[i].code \in OutputCodes}
      /\ \A i \in DOMAIN less : less[i] \in Kept({"telemetry"})
    BY <1>4, KeptAreEntries
<1>6. Numbered(less) = 1..m
    BY <1>5 DEF Kept, OutputCodes
<1>7. Cardinality(Numbered(less)) = m /\ Cardinality(Numbered(list)) = Len(list)
    BY <1>1, <1>2, <1>3, <1>6, PlacesAreFinite
<1>8. \A i \in 1..m : i \in 1..Len(list)
    BY <1>1, <1>2
<1>9. Numbers(less) \subseteq Numbers(list)
    BY <1>3, <1>4, <1>6, <1>8 DEF Numbers
<1>10. InOrder(list) => InOrder(less)
    BY <1>3, <1>4, <1>6, <1>8 DEF InOrder
<1>11. ASSUME NEW code \in {"note", "order_updates", "kernel_error",
                            "kernel_telemetry_overflow"}
       PROVE  Coded(less, code) = {} /\ Coded(list, code) = {}
    BY <1>1, <1>5 DEF Coded, Kept
<1>12. Shorter(less, list, {"telemetry"})
    <2>1. \A code \in {"note", "order_updates", "kernel_error", "kernel_telemetry_overflow"} :
             Cardinality(Coded(less, code)) = Cardinality(Coded(list, code))
        BY <1>11
    <2>2. Len(less) <= Len(list)
        BY <1>1, <1>2, <1>4
    <2>3. Cardinality(Numbered(less)) + Len(list) = Cardinality(Numbered(list)) + Len(less)
        <3>1. m + Len(list) = Len(list) + m
            BY <1>1, <1>2
        <3> QED BY <1>4, <1>7, <3>1
    <2> QED BY <1>4, <1>9, <1>10, <2>1, <2>2, <2>3 DEF Shorter
<1> QED BY <1>4, <1>12 DEF less, m

\* What a result sheds is counted.
LEMMA ShedIsCounted ==
    ASSUME NEW r \in Lists, NEW s \in Lists, NEW count \in Nat, NEW n, NEW carried,
           Settled(r, count, n, carried),
           Shorter(s.diagnostics, r.diagnostics, DiagnosticCodes),
           Shorter(s.evidence, r.evidence, EvidenceCodes),
           Shorter(s.telemetry, r.telemetry, {"telemetry"})
    PROVE  /\ Settled(s, count + Held(r) - Held(s), n, carried)
           /\ count + Held(r) - Held(s) \in Nat
<1>1. /\ r.diagnostics \in Seq(Entries) /\ r.evidence \in Seq(Entries)
      /\ r.telemetry \in Seq(Entries)
      /\ s.diagnostics \in Seq(Entries) /\ s.evidence \in Seq(Entries)
      /\ s.telemetry \in Seq(Entries)
    BY KeptAreEntries DEF Lists
<1> DEFINE total == count + Held(r) - Held(s)
           D == Cardinality(Numbered(r.diagnostics))
           V == Cardinality(Numbered(r.evidence))
           T == Cardinality(Numbered(r.telemetry))
           d == Cardinality(Numbered(s.diagnostics))
           v == Cardinality(Numbered(s.evidence))
           t == Cardinality(Numbered(s.telemetry))
           told == Cardinality(Coded(r.diagnostics, "kernel_telemetry_overflow"))
<1>2. /\ Len(r.diagnostics) \in Nat /\ Len(r.evidence) \in Nat /\ Len(r.telemetry) \in Nat
      /\ Len(s.diagnostics) \in Nat /\ Len(s.evidence) \in Nat /\ Len(s.telemetry) \in Nat
      /\ D \in Nat /\ V \in Nat /\ T \in Nat /\ d \in Nat /\ v \in Nat /\ t \in Nat
      /\ told \in Nat
    BY <1>1, CountsAreNumbers
<1>3. /\ Len(s.diagnostics) <= Len(r.diagnostics)
      /\ Len(s.evidence) <= Len(r.evidence)
      /\ Len(s.telemetry) <= Len(r.telemetry)
      /\ d + Len(r.diagnostics) = D + Len(s.diagnostics)
      /\ v + Len(r.evidence) = V + Len(s.evidence)
      /\ t + Len(r.telemetry) = T + Len(s.telemetry)
    BY DEF Shorter
<1>4. D + V + T + count = n
    BY DEF Settled, Accounted
<1> HIDE DEF D, V, T, d, v, t, told
<1>5. total \in Nat /\ d + v + t + total = n
    <2> DEFINE A == Len(r.diagnostics)
               B == Len(r.evidence)
               C == Len(r.telemetry)
               a == Len(s.diagnostics)
               b == Len(s.evidence)
               c == Len(s.telemetry)
    <2>1. /\ A \in Nat /\ B \in Nat /\ C \in Nat /\ a \in Nat /\ b \in Nat /\ c \in Nat
          /\ a <= A /\ b <= B /\ c <= C
          /\ d + A = D + a /\ v + B = V + b /\ t + C = T + c
          /\ total = count + (A + B + C) - (a + b + c)
        BY <1>2, <1>3 DEF Held
    <2> HIDE DEF total, A, B, C, a, b, c
    <2> QED BY <1>2, <1>4, <2>1
<1>6. Accounted(s, total, n)
    <2>1. /\ Numbers(r.diagnostics) \cup Numbers(r.evidence) \cup Numbers(r.telemetry)
                \subseteq 1..n
          /\ InOrder(r.diagnostics) /\ InOrder(r.evidence) /\ InOrder(r.telemetry)
          /\ Numbers(r.diagnostics) \cap Numbers(r.evidence) = {}
          /\ Numbers(r.diagnostics) \cap Numbers(r.telemetry) = {}
          /\ Numbers(r.evidence) \cap Numbers(r.telemetry) = {}
        BY DEF Settled, Accounted
    <2>2. /\ Numbers(s.diagnostics) \subseteq Numbers(r.diagnostics)
          /\ Numbers(s.evidence) \subseteq Numbers(r.evidence)
          /\ Numbers(s.telemetry) \subseteq Numbers(r.telemetry)
          /\ InOrder(s.diagnostics) /\ InOrder(s.evidence) /\ InOrder(s.telemetry)
        BY <2>1 DEF Shorter
    <2>3. /\ Numbers(s.diagnostics) \cup Numbers(s.evidence) \cup Numbers(s.telemetry)
                \subseteq 1..n
          /\ Numbers(s.diagnostics) \cap Numbers(s.evidence) = {}
          /\ Numbers(s.diagnostics) \cap Numbers(s.telemetry) = {}
          /\ Numbers(s.evidence) \cap Numbers(s.telemetry) = {}
        BY <2>1, <2>2
    <2> HIDE DEF total
    <2> QED BY <1>5, <2>2, <2>3 DEF Accounted, d, v, t
<1>7. Carries(s, carried.notes, carried.updates, IF carried.error THEN 1 ELSE 0)
    BY DEF Settled, Carries, Shorter
<1>8. /\ Len(s.diagnostics)
            - Cardinality(Coded(s.diagnostics, "kernel_telemetry_overflow"))
               <= MaxDiagnostics - 1
      /\ Len(s.evidence) <= MaxEvidence
      /\ Len(s.telemetry) <= MaxTelemetry
    <2>1. Cardinality(Coded(s.diagnostics, "kernel_telemetry_overflow")) = told
        BY DEF Shorter, told
    <2>2. /\ Len(r.diagnostics) - told <= MaxDiagnostics - 1
          /\ Len(r.evidence) <= MaxEvidence /\ Len(r.telemetry) <= MaxTelemetry
        BY DEF Settled, told
    <2>3. MaxDiagnostics \in Nat /\ MaxEvidence \in Nat /\ MaxTelemetry \in Nat
        BY AssemblyAssumption
    <2>4. Len(s.diagnostics) - told <= MaxDiagnostics - 1
        <3> DEFINE a == Len(s.diagnostics)
                   A == Len(r.diagnostics)
        <3>1. /\ a \in Nat /\ A \in Nat /\ told \in Nat /\ a <= A
              /\ A - told <= MaxDiagnostics - 1 /\ MaxDiagnostics \in Nat
            BY <1>2, <1>3, <2>2, <2>3
        <3> HIDE DEF a, A
        <3>2. a - told <= MaxDiagnostics - 1
            BY <3>1
        <3> QED BY <3>2 DEF a
    <2>5. Len(s.evidence) <= MaxEvidence
        BY <1>2, <1>3, <2>2, <2>3
    <2>6. Len(s.telemetry) <= MaxTelemetry
        BY <1>2, <1>3, <2>2, <2>3
    <2> QED BY <2>1, <2>4, <2>5, <2>6
<1> QED BY <1>5, <1>6, <1>7, <1>8 DEF Settled

\* The kernel's error is one diagnostic more, after the outputs'.
LEMMA ErrorIsTold ==
    ASSUME NEW acc \in Accs, NEW n, NEW carried,
           AppendedSoFar(acc, n, carried.notes, carried.updates),
           carried.error \in BOOLEAN,
           NEW r,
           r = [diagnostics |-> acc.diagnostics
                                   \o IF carried.error THEN <<Entry("kernel_error", 1, 1, 0)>>
                                      ELSE << >>,
                evidence |-> acc.evidence, telemetry |-> acc.telemetry]
    PROVE  r \in Lists /\ Settled(r, acc.lost, n, carried) /\ ListsFit(r)
<1> DEFINE e == Entry("kernel_error", 1, 1, 0)
           D == acc.diagnostics
           d == r.diagnostics
           ovf == "kernel_telemetry_overflow"
<1>1. /\ e \in Kept(DiagnosticCodes) /\ e.output = 0 /\ e.code = "kernel_error"
    BY DEF Entry, Kept, Entries, Codes, OutputCodes, DiagnosticCodes
<1>2. /\ D \in Seq(Kept(DiagnosticCodes)) /\ acc.evidence \in Seq(Kept(EvidenceCodes))
      /\ acc.telemetry \in Seq(Kept({"telemetry"}))
    BY DEF Accs
<1>3. /\ d = D \o IF carried.error THEN <<e>> ELSE << >>
      /\ r.evidence = acc.evidence /\ r.telemetry = acc.telemetry
    OBVIOUS
<1>4. /\ Len(D) \in Nat /\ Cardinality(Coded(D, "kernel_error")) = 0
      /\ Cardinality(Coded(D, ovf)) = 0 /\ Len(D) <= MaxDiagnostics - 2
      /\ Len(acc.evidence) <= MaxEvidence /\ Len(acc.telemetry) <= MaxTelemetry
      /\ MaxDiagnostics \in Nat
    <2>1. Len(D) \in Nat /\ MaxDiagnostics \in Nat
        BY <1>2, LenProperties, AssemblyAssumption
    <2>2. Cardinality({}) = 0
        BY FS_EmptySet
    <2> QED BY <2>1, <2>2 DEF AppendedSoFar, Carries
<1> HIDE DEF e, D, d
<1>5. /\ d \in Seq(Kept(DiagnosticCodes))
      /\ Len(d) \in Nat /\ Len(d) <= MaxDiagnostics - 1
      /\ Cardinality(Coded(d, "kernel_error")) = IF carried.error THEN 1 ELSE 0
      /\ \A code : code # "kernel_error" =>
            Cardinality(Coded(d, code)) = Cardinality(Coded(D, code))
      /\ Cardinality(Numbered(d)) = Cardinality(Numbered(D))
      /\ Numbers(d) = Numbers(D)
      /\ InOrder(D) => InOrder(d)
    <2>1. CASE carried.error
        <3>1. d = D \o <<e>>
            BY <1>3, <2>1
        <3>2. /\ d \in Seq(Kept(DiagnosticCodes))
              /\ Len(d) = Len(D) + 1
              /\ Cardinality(Coded(d, "kernel_error")) = Cardinality(Coded(D, "kernel_error")) + 1
              /\ \A code : code # "kernel_error" =>
                    Cardinality(Coded(d, code)) = Cardinality(Coded(D, code))
              /\ Cardinality(Numbered(d)) = Cardinality(Numbered(D))
              /\ Numbers(d) = Numbers(D)
              /\ InOrder(D) => InOrder(d)
            BY <1>1, <1>2, <3>1, OwnEntryAppended
        <3>3. Len(d) \in Nat /\ Len(d) <= MaxDiagnostics - 1
            BY <1>4, <3>2
        <3>4. Cardinality(Coded(d, "kernel_error")) = 1
            BY <1>4, <3>2
        <3> QED BY <2>1, <3>2, <3>3, <3>4
    <2>2. CASE ~carried.error
        <3>1. d = D
            BY <1>2, <1>3, <2>2, ConcatEmptySeq
        <3>2. Len(d) \in Nat /\ Len(d) <= MaxDiagnostics - 1
            BY <1>4, <3>1
        <3> QED BY <1>2, <1>4, <2>2, <3>1, <3>2
    <2> QED BY <2>1, <2>2
<1>6. r \in Lists
    BY <1>2, <1>5 DEF Lists, d
<1>7. Accounted(r, acc.lost, n)
    BY <1>3, <1>5 DEF AppendedSoFar, Accounted, d, D
<1>8. Carries(r, carried.notes, carried.updates, IF carried.error THEN 1 ELSE 0)
    BY <1>3, <1>5 DEF AppendedSoFar, Carries, d, D
<1>9. Len(d) - Cardinality(Coded(d, ovf)) <= MaxDiagnostics - 1
    <2>1. Cardinality(Coded(d, ovf)) = 0
        BY <1>4, <1>5
    <2> QED BY <1>4, <1>5, <2>1
<1>10. Settled(r, acc.lost, n, carried)
    BY <1>3, <1>4, <1>6, <1>7, <1>8, <1>9 DEF Settled, d
<1>11. ListsFit(r)
    <2>1. Len(d) <= MaxDiagnostics
        BY <1>4, <1>5
    <2> QED BY <1>3, <1>4, <2>1 DEF ListsFit, d
<1> QED BY <1>6, <1>10, <1>11

\* The overflow is told once, last, and all else stays.
LEMMA OverflowIsTold ==
    ASSUME NEW r \in Lists, NEW count \in Nat, NEW n, NEW carried,
           Settled(r, count, n, carried)
    PROVE  LET told == WithOverflow(r, count)
           IN  /\ told \in Lists
               /\ Settled(told, count, n, carried)
               /\ OverflowTold(told.diagnostics, count)
               /\ ListsFit(told)
               /\ told.evidence = r.evidence /\ told.telemetry = r.telemetry
               /\ Cardinality(Logs(told.diagnostics)) = Cardinality(Logs(r.diagnostics))
<1> DEFINE ovf == "kernel_telemetry_overflow"
           D == r.diagnostics
           places == {i \in DOMAIN D : D[i].code # ovf}
           chosen == ElementsAt(D, places)
           e == Overflow(count)
           told == WithOverflow(r, count)
           d == told.diagnostics
<1>1. /\ D \in Seq(Kept(DiagnosticCodes)) /\ r.evidence \in Seq(Kept(EvidenceCodes))
      /\ r.telemetry \in Seq(Kept({"telemetry"}))
    BY DEF Lists
<1>2. /\ D \in Seq(Entries) /\ Len(D) \in Nat /\ DOMAIN D = 1..Len(D)
      /\ Numbered(D) = {i \in DOMAIN D : D[i].code \in OutputCodes}
    BY <1>1, KeptAreEntries
<1>3. /\ e \in Kept(DiagnosticCodes) /\ e.output = 0 /\ e.code = ovf /\ e.lost = count
    BY DEF Overflow, Kept, Entries, Codes, OutputCodes, DiagnosticCodes
<1>4. /\ told = [r EXCEPT !.diagnostics = chosen \o IF count > 0 THEN <<e>> ELSE << >>]
    BY DEF WithOverflow, Selected
<1>5. /\ d = chosen \o IF count > 0 THEN <<e>> ELSE << >>
      /\ told.evidence = r.evidence /\ told.telemetry = r.telemetry
      /\ told = [diagnostics |-> d, evidence |-> r.evidence, telemetry |-> r.telemetry]
    BY <1>4 DEF Lists
<1>6. /\ places \in SUBSET (DOMAIN D)
      /\ \A code : code # ovf => Coded(D, code) \subseteq places
      /\ Coded(D, ovf) \cap places = {}
      /\ places = (DOMAIN D) \ Coded(D, ovf) /\ Coded(D, ovf) \subseteq DOMAIN D
      /\ Numbered(D) \subseteq places
    BY <1>2 DEF Coded, OutputCodes
<1> HIDE DEF D, places, chosen, e, told, d
<1>7. /\ chosen \in Seq(Kept(DiagnosticCodes))
      /\ Len(chosen) = Cardinality(places)
      /\ \A code : code # ovf => Cardinality(Coded(chosen, code)) = Cardinality(Coded(D, code))
      /\ Coded(chosen, ovf) = {}
      /\ Cardinality(Numbered(chosen)) = Cardinality(Numbered(D))
    <2>1. /\ chosen \in Seq(Kept(DiagnosticCodes))
          /\ Len(chosen) = Cardinality(places)
          /\ \A code :
                /\ Coded(D, code) \subseteq places =>
                      Cardinality(Coded(chosen, code)) = Cardinality(Coded(D, code))
                /\ Coded(D, code) \cap places = {} => Coded(chosen, code) = {}
          /\ Numbered(D) \subseteq places =>
                Cardinality(Numbered(chosen)) = Cardinality(Numbered(D))
        BY <1>1, <1>6, KeptSelected DEF chosen
    <2>2. Coded(chosen, ovf) = {}
        BY <1>6, <2>1
    <2>3. \A code : code # ovf => Cardinality(Coded(chosen, code)) = Cardinality(Coded(D, code))
        BY <1>6, <2>1
    <2> QED BY <1>6, <2>1, <2>2, <2>3
<1>8. /\ Numbers(chosen) = Numbers(D)
      /\ InOrder(D) => InOrder(chosen)
    BY <1>2, <1>6, NumbersSelected DEF chosen
<1>9. Len(chosen) \in Nat /\ Len(chosen) = Len(D) - Cardinality(Coded(D, ovf))
    <2>1. IsFiniteSet(DOMAIN D) /\ Cardinality(DOMAIN D) = Len(D)
        BY <1>2, PlacesAreFinite
    <2>2. (DOMAIN D) \cap Coded(D, ovf) = Coded(D, ovf)
        BY <1>6
    <2>3. Cardinality((DOMAIN D) \ Coded(D, ovf))
             = Cardinality(DOMAIN D) - Cardinality((DOMAIN D) \cap Coded(D, ovf))
        BY <2>1, FS_Difference
    <2>4. Len(chosen) \in Nat
        BY <1>7, LenProperties
    <2> QED BY <1>6, <1>7, <2>1, <2>2, <2>3, <2>4
<1>10. /\ MaxDiagnostics \in Nat /\ Len(chosen) <= MaxDiagnostics - 1
       /\ Len(r.evidence) <= MaxEvidence /\ Len(r.telemetry) <= MaxTelemetry
    BY <1>9, AssemblyAssumption DEF Settled, D
<1>11. /\ d \in Seq(Kept(DiagnosticCodes))
       /\ Len(d) \in Nat
       /\ Len(d) - Cardinality(Coded(d, ovf)) = Len(chosen) /\ Len(d) <= Len(chosen) + 1
       /\ \A code : code # ovf => Cardinality(Coded(d, code)) = Cardinality(Coded(D, code))
       /\ Cardinality(Numbered(d)) = Cardinality(Numbered(D))
       /\ Numbers(d) = Numbers(D)
       /\ InOrder(D) => InOrder(d)
       /\ OverflowTold(d, count)
    <2>1. CASE count > 0
        <3>1. d = chosen \o <<e>>
            BY <1>5, <2>1
        <3>2. /\ d \in Seq(Kept(DiagnosticCodes))
              /\ Len(d) = Len(chosen) + 1
              /\ Cardinality(Coded(d, ovf)) = Cardinality(Coded(chosen, ovf)) + 1
              /\ \A code : code # ovf =>
                    Cardinality(Coded(d, code)) = Cardinality(Coded(chosen, code))
              /\ Cardinality(Numbered(d)) = Cardinality(Numbered(chosen))
              /\ Numbers(d) = Numbers(chosen)
              /\ InOrder(chosen) => InOrder(d)
            BY <1>3, <1>7, <3>1, OwnEntryAppended
        <3>3. Cardinality(Coded(d, ovf)) = 1
            <4>1. Cardinality(Coded(chosen, ovf)) = 0
                BY <1>7, FS_EmptySet
            <4> QED BY <3>2, <4>1
        <3>4. /\ DOMAIN d = 1..(Len(chosen) + 1)
              /\ \A i \in 1..Len(chosen) : d[i] = chosen[i]
              /\ d[Len(chosen) + 1] = e
            <4>1. d = Append(chosen, e)
                BY <1>3, <1>7, <3>1, OneMore
            <4>2. DOMAIN d = 1..Len(d)
                BY <3>2, LenProperties
            <4> QED BY <1>7, <3>2, <4>1, <4>2, AppendProperties
        <3>5. \A i \in 1..Len(chosen) : chosen[i].code # ovf
            <4>1. DOMAIN chosen = 1..Len(chosen)
                BY <1>7, LenProperties
            <4> QED BY <1>7, <4>1 DEF Coded
        <3>6. Coded(d, ovf) = {Len(d)}
            <4> DEFINE m == Len(chosen)
            <4>1. m \in Nat /\ Len(d) = m + 1 /\ DOMAIN d = 1..(m + 1)
                BY <1>9, <3>2, <3>4
            <4>2. \A i \in 1..m : d[i].code # ovf
                BY <3>4, <3>5
            <4>3. d[m + 1].code = ovf
                BY <1>3, <3>4
            <4> HIDE DEF m
            <4>4. \A i \in 1..(m + 1) : i # m + 1 => i \in 1..m
                BY <4>1
            <4>5. m + 1 \in 1..(m + 1)
                BY <4>1
            <4> QED BY <4>1, <4>2, <4>3, <4>4, <4>5 DEF Coded
        <3>7. OverflowTold(d, count)
            BY <1>3, <2>1, <3>2, <3>4, <3>6 DEF OverflowTold
        <3>8. Len(d) \in Nat /\ Len(d) - Cardinality(Coded(d, ovf)) = Len(chosen)
              /\ Len(d) <= Len(chosen) + 1
            BY <1>9, <3>2, <3>3
        <3> QED BY <1>7, <1>8, <3>2, <3>7, <3>8
    <2>2. CASE count = 0
        <3>1. d = chosen \o << >>
            BY <1>5, <2>2
        <3>2. d = chosen
            BY <1>7, <3>1, ConcatEmptySeq
        <3>3. OverflowTold(d, count)
            BY <1>7, <2>2, <3>2 DEF OverflowTold
        <3>4. Cardinality(Coded(d, ovf)) = 0
            BY <1>7, <3>2, FS_EmptySet
        <3>5. Len(d) \in Nat /\ Len(d) - Cardinality(Coded(d, ovf)) = Len(chosen)
              /\ Len(d) <= Len(chosen) + 1
            BY <1>9, <3>2, <3>4
        <3> QED BY <1>7, <1>8, <3>2, <3>3, <3>5
    <2> QED BY <2>1, <2>2
<1>12. told \in Lists
    BY <1>1, <1>5, <1>11 DEF Lists
<1>13. Accounted(told, count, n)
    BY <1>5, <1>11 DEF Settled, Accounted, d, D
<1>14. Carries(told, carried.notes, carried.updates, IF carried.error THEN 1 ELSE 0)
    BY <1>5, <1>11 DEF Settled, Carries, d, D
<1>15. Settled(told, count, n, carried)
    BY <1>5, <1>10, <1>11, <1>12, <1>13, <1>14 DEF Settled, d
<1>16. ListsFit(told)
    <2>1. Len(d) <= MaxDiagnostics
        BY <1>9, <1>10, <1>11
    <2> QED BY <1>5, <1>10, <2>1 DEF ListsFit, d
<1>17. Cardinality(Logs(d)) = Cardinality(Logs(D))
    <2>1. /\ Logs(d) = Coded(d, "kernel_log")
          /\ Logs(D) = Coded(D, "kernel_log")
        BY <1>1, <1>11, KeptAreEntries, PlacesAreHeld
    <2> QED BY <1>11, <2>1
<1> QED BY <1>5, <1>11, <1>12, <1>15, <1>16, <1>17 DEF told, d, D

\* Sets with nothing in common are as many together.
LEMMA ApartCounts ==
    ASSUME NEW S, IsFiniteSet(S), NEW T, IsFiniteSet(T), S \cap T = {}
    PROVE  /\ IsFiniteSet(S \cup T)
           /\ Cardinality(S \cup T) = Cardinality(S) + Cardinality(T)
           /\ Cardinality(S) \in Nat /\ Cardinality(T) \in Nat
<1>1. Cardinality(S) \in Nat /\ Cardinality(T) \in Nat
    BY FS_CardinalityType
<1>2. Cardinality(S \cap T) = 0
    BY FS_EmptySet
<1>3. /\ IsFiniteSet(S \cup T)
      /\ Cardinality(S \cup T) = Cardinality(S) + Cardinality(T) - Cardinality(S \cap T)
    BY FS_Union
<1> QED BY <1>1, <1>2, <1>3

\* When nothing is left to shed, the rest is as large as it has entries.
LEMMA RestIsCounted ==
    ASSUME NEW r \in Lists, NEW count \in Nat, NEW n, NEW carried,
           Settled(r, count, n, carried), OverflowTold(r.diagnostics, count),
           r.telemetry = << >>, Logs(r.evidence) = {}, Logs(r.diagnostics) = {},
           carried.notes \in Nat, carried.updates \in Nat, carried.error \in BOOLEAN
    PROVE  LET all == r.diagnostics \o r.evidence \o r.telemetry
               told == Cardinality(Coded(r.diagnostics, "update"))
                          + IF count > 0 THEN 1 ELSE 0
               fixed == carried.notes + carried.updates + told
                           + (IF carried.error THEN 1 ELSE 0)
           IN  EncodedSize(all) = fixed /\ Charged(all) = fixed /\ fixed \in Nat
<1> DEFINE D == r.diagnostics
           V == r.evidence
           all == D \o V \o r.telemetry
           N == Coded(D, "note")
           U == Coded(D, "update")
           K == Coded(D, "kernel_error")
           F == Coded(D, "kernel_telemetry_overflow")
           O == Coded(V, "order_updates")
           errors == IF carried.error THEN 1 ELSE 0
           overflows == IF count > 0 THEN 1 ELSE 0
<1>1. /\ D \in Seq(Kept(DiagnosticCodes)) /\ V \in Seq(Kept(EvidenceCodes))
    BY DEF Lists
<1>2. /\ D \in Seq(Entries) /\ Len(D) \in Nat /\ DOMAIN D = 1..Len(D)
      /\ \A i \in DOMAIN D : D[i] \in Kept(DiagnosticCodes)
      /\ V \in Seq(Entries) /\ Len(V) \in Nat /\ DOMAIN V = 1..Len(V)
      /\ \A i \in DOMAIN V : V[i] \in Kept(EvidenceCodes)
    BY <1>1, KeptAreEntries
<1>3. /\ \A i \in DOMAIN D : D[i].code # "kernel_log"
      /\ \A i \in DOMAIN V : V[i].code # "kernel_log"
    BY DEF Logs, IsLog
<1>4. /\ Cardinality(N) = carried.notes /\ Cardinality(O) = carried.updates
      /\ Cardinality(K) = errors
    BY DEF Settled, Carries
<1>5. Cardinality(F) = overflows
    <2>1. F = IF count = 0 THEN {} ELSE {Len(D)}
        BY DEF OverflowTold
    <2>2. Cardinality({}) = 0 /\ Cardinality({Len(D)}) = 1
        BY FS_EmptySet, FS_Singleton
    <2> HIDE DEF F
    <2>3. CASE count = 0
        <3>1. F = {} /\ overflows = 0
            BY <2>1, <2>3
        <3> QED BY <2>2, <3>1, Zenon
    <2>4. CASE count # 0
        <3>1. F = {Len(D)} /\ overflows = 1
            BY <2>1, <2>4
        <3> QED BY <2>2, <3>1, Zenon
    <2> QED BY <2>3, <2>4
<1> HIDE DEF D, V, errors, overflows
<1>6. Len(V) = Cardinality(O)
    <2>1. O = 1..Len(V)
        BY <1>2, <1>3 DEF Coded, Kept, EvidenceCodes
    <2> QED BY <1>2, <2>1, PlacesAreFinite
<1>7. /\ Len(D) = Cardinality(N) + Cardinality(U) + Cardinality(K) + Cardinality(F)
      /\ Cardinality(U) \in Nat
    <2>1. 1..Len(D) = ((N \cup U) \cup K) \cup F
        BY <1>2, <1>3 DEF Coded, Kept, DiagnosticCodes
    <2>2. N \cap U = {} /\ (N \cup U) \cap K = {} /\ ((N \cup U) \cup K) \cap F = {}
        BY DEF Coded
    <2>3. IsFiniteSet(N) /\ IsFiniteSet(U) /\ IsFiniteSet(K) /\ IsFiniteSet(F)
        BY <1>2, CountsAreNumbers
    <2> HIDE DEF N, U, K, F
    <2>4. /\ IsFiniteSet(N \cup U)
          /\ Cardinality(N \cup U) = Cardinality(N) + Cardinality(U)
          /\ Cardinality(U) \in Nat
        BY <2>2, <2>3, ApartCounts
    <2>5. /\ IsFiniteSet((N \cup U) \cup K)
          /\ Cardinality((N \cup U) \cup K) = Cardinality(N \cup U) + Cardinality(K)
        BY <2>2, <2>3, <2>4, ApartCounts
    <2>6. Cardinality(((N \cup U) \cup K) \cup F)
             = Cardinality((N \cup U) \cup K) + Cardinality(F)
        BY <2>2, <2>3, <2>5, ApartCounts
    <2>7. Cardinality(1..Len(D)) = Len(D)
        BY <1>2, PlacesAreFinite
    <2> QED BY <2>1, <2>4, <2>5, <2>6, <2>7
<1>8. /\ all \in Seq(Entries) /\ Len(all) = Len(D) + Len(V)
      /\ \A i \in DOMAIN all : all[i].size = 1 /\ all[i].charge = 1
    <2>1. /\ D \o V \in Seq(Entries) /\ Len(D \o V) = Len(D) + Len(V)
          /\ \A i \in 1..(Len(D) + Len(V)) :
                (D \o V)[i] = IF i <= Len(D) THEN D[i] ELSE V[i - Len(D)]
        BY <1>2, ConcatProperties
    <2>2. all = D \o V
        BY <2>1, ConcatEmptySeq
    <2>3. DOMAIN (D \o V) = 1..(Len(D) + Len(V))
        BY <2>1, LenProperties
    <2>4. \A i \in 1..(Len(D) + Len(V)) :
             (i <= Len(D) => i \in DOMAIN D) /\ (~(i <= Len(D)) => i - Len(D) \in DOMAIN V)
        BY <1>2
    <2>5. /\ \A i \in DOMAIN D : D[i].size = 1 /\ D[i].charge = 1
          /\ \A i \in DOMAIN V : V[i].size = 1 /\ V[i].charge = 1
        BY <1>2, <1>3 DEF Kept, DiagnosticCodes, EvidenceCodes
    <2>6. \A i \in 1..(Len(D) + Len(V)) : (D \o V)[i].size = 1 /\ (D \o V)[i].charge = 1
        BY <2>1, <2>4, <2>5
    <2> QED BY <2>1, <2>2, <2>3, <2>6
<1> HIDE DEF all
<1>9. EncodedSize(all) = Len(all) /\ Charged(all) = Len(all)
    <2>1. Total(all, "size") = Len(all)
        BY <1>8, TotalOfUnits
    <2>2. Total(all, "charge") = Len(all)
        BY <1>8, TotalOfUnits
    <2> QED BY <2>1, <2>2 DEF EncodedSize, Charged
<1>10. errors \in Nat /\ overflows \in Nat
    BY DEF errors, overflows
<1>11. /\ Len(all) = carried.notes + carried.updates + (Cardinality(U) + overflows) + errors
       /\ Len(all) \in Nat
    <2> HIDE DEF N, U, K, F, O
    <2> QED BY <1>4, <1>5, <1>6, <1>7, <1>8, <1>10
<1> QED BY <1>9, <1>11 DEF all, D, V, errors, overflows

\* A pass that sheds leaves a result as settled, and less to shed.
LEMMA PassSheds ==
    ASSUME NEW r \in Lists, NEW count \in Nat, NEW n, NEW carried,
           Settled(r, count, n, carried),
           NEW s, s = IF r.telemetry # << >> THEN ShedTelemetry(r) ELSE ShedLogs(r),
           ~(r.telemetry = << >> /\ Logs(r.evidence) = {} /\ Logs(r.diagnostics) = {})
    PROVE  /\ s \in Lists
           /\ Settled(s, count + Held(r) - Held(s), n, carried)
           /\ count + Held(r) - Held(s) \in Nat
           /\ Sheddable(s) < Sheddable(r)
<1> DEFINE D == r.diagnostics
           V == r.evidence
           T == r.telemetry
           L(list) == Cardinality(Logs(list))
<1>1. /\ D \in Seq(Kept(DiagnosticCodes)) /\ V \in Seq(Kept(EvidenceCodes))
      /\ T \in Seq(Kept({"telemetry"}))
      /\ r = [diagnostics |-> D, evidence |-> V, telemetry |-> T]
    BY DEF Lists
<1>2. /\ Len(D) \in Nat /\ Len(V) \in Nat /\ Len(T) \in Nat
      /\ IsFiniteSet(Logs(D)) /\ IsFiniteSet(Logs(V)) /\ L(D) \in Nat /\ L(V) \in Nat
    <2>1. D \in Seq(Entries) /\ V \in Seq(Entries) /\ T \in Seq(Entries)
        BY <1>1, KeptAreEntries
    <2>2. Logs(D) = Coded(D, "kernel_log") /\ Logs(V) = Coded(V, "kernel_log")
        BY <2>1, PlacesAreHeld
    <2> QED BY <2>1, <2>2, CountsAreNumbers
<1>3. /\ s \in Lists
      /\ Shorter(s.diagnostics, D, DiagnosticCodes)
      /\ Shorter(s.evidence, V, EvidenceCodes)
      /\ Shorter(s.telemetry, T, {"telemetry"})
      /\ Sheddable(s) < Sheddable(r)
    <2>1. CASE T # << >>
        <3> DEFINE share == Share(Len(T))
                   less == SubSeq(T, 1, Len(T) - share)
        <3>1. Len(T) # 0
            BY <1>1, <2>1, EmptySeq
        <3>2. share \in 0..Len(T) /\ share # 0
            BY <1>2, <3>1, SharesAreSome
        <3>3. Shorter(less, T, {"telemetry"}) /\ Len(less) = Len(T) - share
            BY <1>1, <3>2, TelemetryIsShed
        <3>4. s = [diagnostics |-> D, evidence |-> V, telemetry |-> less]
            BY <1>1, <2>1 DEF ShedTelemetry
        <3> HIDE DEF less, share, D, V, T
        <3>5. s.diagnostics = D /\ s.evidence = V /\ s.telemetry = less
            BY <3>4
        <3>6. Shorter(D, D, DiagnosticCodes) /\ Shorter(V, V, EvidenceCodes)
            BY <1>1, ShorterIsReflexive
        <3>7. s \in Lists
            BY <1>1, <3>3, <3>4 DEF Lists, Shorter
        <3>8. Sheddable(s) < Sheddable(r)
            <4>1. Sheddable(s) = Len(less) + L(V) + L(D) /\ Sheddable(r) = Len(T) + L(V) + L(D)
                BY <3>5 DEF Sheddable, T, V, D
            <4>2. Len(less) < Len(T) /\ Len(less) \in Nat
                BY <1>2, <3>2, <3>3
            <4> HIDE DEF L
            <4> QED BY <1>2, <4>1, <4>2
        <3> QED BY <3>3, <3>5, <3>6, <3>7, <3>8
    <2>2. CASE T = << >>
        <3> DEFINE share == Share(L(V) + L(D))
                   v == WithoutLogs(V, share)
                   d == IF share > L(V) THEN WithoutLogs(D, share - L(V)) ELSE D
        <3>1. L(V) + L(D) \in Nat /\ L(V) + L(D) # 0
            <4>1. L(V) # 0 \/ L(D) # 0
                BY <1>2, <2>2, FS_EmptySet
            <4> HIDE DEF L
            <4> QED BY <1>2, <4>1
        <3>2. share \in Nat /\ share # 0
            BY <3>1, SharesAreSome
        <3>3. s = [diagnostics |-> d, evidence |-> v, telemetry |-> T]
            BY <1>1, <2>2 DEF ShedLogs
        <3> HIDE DEF share, D, V, T
        <3>4. /\ Shorter(v, V, EvidenceCodes)
              /\ L(v) + Len(V) = L(V) + Len(v)
              /\ Logs(V) # {} => Len(v) < Len(V)
            BY <1>1, <3>2, LogsAreShed
        <3>5. /\ Shorter(d, D, DiagnosticCodes)
              /\ L(d) + Len(D) = L(D) + Len(d)
              /\ share > L(V) /\ Logs(D) # {} => Len(d) < Len(D)
            <4>1. CASE share > L(V)
                <5>1. share - L(V) \in Nat /\ share - L(V) # 0
                    BY <1>2, <3>2, <4>1
                <5>2. d = WithoutLogs(D, share - L(V))
                    BY <4>1
                <5> HIDE DEF d, L
                <5>3. /\ Shorter(d, D, DiagnosticCodes)
                      /\ Cardinality(Logs(d)) + Len(D) = Cardinality(Logs(D)) + Len(d)
                      /\ share - L(V) # 0 /\ Logs(D) # {} => Len(d) < Len(D)
                    BY <1>1, <5>1, <5>2, LogsAreShed
                <5> QED BY <5>1, <5>3 DEF L
            <4>2. CASE ~(share > L(V))
                <5>1. d = D
                    BY <4>2
                <5> QED BY <1>1, <4>2, <5>1, ShorterIsReflexive
            <4> QED BY <4>1, <4>2
        <3> HIDE DEF v, d
        <3>6. s.diagnostics = d /\ s.evidence = v /\ s.telemetry = T
            BY <3>3
        <3>7. s \in Lists /\ Shorter(T, T, {"telemetry"})
            BY <1>1, <3>3, <3>4, <3>5, ShorterIsReflexive DEF Lists, Shorter
        <3>8. Sheddable(s) < Sheddable(r)
            <4>1. Sheddable(s) = Len(T) + L(v) + L(d) /\ Sheddable(r) = Len(T) + L(V) + L(D)
                BY <3>6 DEF Sheddable, T, V, D
            <4>2. Len(v) \in Nat /\ Len(d) \in Nat /\ Len(v) <= Len(V) /\ Len(d) <= Len(D)
                BY <3>4, <3>5, LenProperties DEF Shorter
            <4>3. Len(v) < Len(V) \/ Len(d) < Len(D)
                <5>1. CASE Logs(V) # {}
                    BY <3>4, <5>1
                <5>2. CASE Logs(V) = {}
                    <6>1. L(V) = 0
                        BY <5>2, FS_EmptySet
                    <6>2. share > L(V) /\ L(D) # 0
                        BY <3>1, <3>2, <6>1
                    <6>3. Logs(D) # {}
                        BY <6>2, FS_EmptySet
                    <6> QED BY <3>5, <6>2, <6>3
                <5> QED BY <5>1, <5>2
            <4>4. L(v) \in Nat /\ L(d) \in Nat
                <5>1. v \in Seq(Entries) /\ d \in Seq(Entries)
                    BY <3>4, <3>5, KeptAreEntries DEF Shorter
                <5>2. Logs(v) = Coded(v, "kernel_log") /\ Logs(d) = Coded(d, "kernel_log")
                    BY <5>1, PlacesAreHeld
                <5> QED BY <5>1, <5>2, CountsAreNumbers
            <4>5. L(v) + Len(V) = L(V) + Len(v) /\ L(d) + Len(D) = L(D) + Len(d)
                BY <3>4, <3>5
            <4> HIDE DEF L
            <4>6. L(v) <= L(V) /\ (Len(v) < Len(V) => L(v) < L(V))
                BY <1>2, <4>2, <4>4, <4>5
            <4>7. L(d) <= L(D) /\ (Len(d) < Len(D) => L(d) < L(D))
                BY <1>2, <4>2, <4>4, <4>5
            <4>8. L(v) + L(d) < L(V) + L(D)
                BY <1>2, <4>3, <4>4, <4>6, <4>7
            <4> QED BY <1>2, <4>1, <4>4, <4>8
        <3> QED BY <3>4, <3>5, <3>6, <3>7, <3>8
    <2> QED BY <2>1, <2>2
<1> QED BY <1>3, ShedIsCounted

-----------------------------------------------------------------------------
(* The steps *)

\* The lists of a result are lists of entries.
LEMMA ListsAreTyped ==
    ASSUME NEW r \in Lists
    PROVE  r \in [diagnostics : Seq(Entries), evidence : Seq(Entries), telemetry : Seq(Entries)]
<1>1. /\ r.diagnostics \in Seq(Entries) /\ r.evidence \in Seq(Entries)
      /\ r.telemetry \in Seq(Entries)
    BY KeptAreEntries DEF Lists
<1> QED BY <1>1 DEF Lists

\* It holds at first.
LEMMA AssemblyBegins == Init => AssemblyInvariant
<1> SUFFICES ASSUME Init PROVE AssemblyInvariant
    OBVIOUS
<1>1. << >> \in Seq(Outputs) /\ Len(<< >>) = 0 /\ << >> \in Seq(Entries)
    BY EmptySeq
<1>2. TypeOK
    BY <1>1 DEF Init, TypeOK
<1> QED BY <1>2 DEF Init, AssemblyInvariant

\* Before the assembly, only the outputs and the mark change.
LEMMA RunningKeeps ==
    ASSUME AssemblyInvariant, Running, phase' \in {"updates", "event"},
           outputs' \in Seq(Outputs), mark' \in -1..Len(outputs')
    PROVE  AssemblyInvariant'
<1>1. TypeOK'
    BY DEF AssemblyInvariant, TypeOK, Running
<1> QED BY <1>1 DEF AssemblyInvariant

\* What the kernel emits are outputs, and so are update errors and warnings.
LEMMA OutputsAreEmitted ==
    /\ Emissions \subseteq Outputs
    /\ UpdateError \in Outputs /\ UpdateWarning \in Outputs
BY DEF Outputs

\* Some of the outputs are outputs.
LEMMA UndoneAreOutputs ==
    ASSUME NEW produced \in Seq(Outputs), NEW from
    PROVE  Undone(produced, from) \in Seq(Outputs)
<1> DEFINE places == {i \in DOMAIN produced :
                        i <= from \/ produced[i].kind \in {"log", "update_error"}}
<1>1. places \in SUBSET (DOMAIN produced)
    OBVIOUS
<1> HIDE DEF places
<1>2. ElementsAt(produced, places) \in Seq(Outputs)
    BY <1>1, ElementsAreSelected
<1> QED BY <1>2 DEF Undone, places

\* The steps of updates and of the event.
LEMMA OutputsStay ==
    ASSUME AssemblyInvariant,
           \/ Emit \/ BeginUpdate \/ SkipUpdate \/ EndUpdate
           \/ FailUpdate \/ FailAll \/ BeginEvent
    PROVE  AssemblyInvariant'
<1>1. /\ phase \in {"updates", "event", "fit", "returned", "failed"}
      /\ outputs \in Seq(Outputs) /\ mark \in -1..Len(outputs) /\ Len(outputs) \in Nat
    BY LenProperties DEF AssemblyInvariant, TypeOK
<1>2. ASSUME NEW list \in Seq(Outputs), NEW output \in Outputs
      PROVE  Append(list, output) \in Seq(Outputs) /\ Len(Append(list, output)) = Len(list) + 1
    BY AppendProperties
<1>3. CASE Emit
    <2>1. PICK output \in Emissions : outputs' = Append(outputs, output)
        BY <1>3 DEF Emit
    <2>2. output \in Outputs
        BY OutputsAreEmitted
    <2>3. outputs' \in Seq(Outputs) /\ mark' \in -1..Len(outputs')
        BY <1>1, <1>2, <1>3, <2>1, <2>2 DEF Emit
    <2> QED BY <1>3, <2>3, RunningKeeps DEF Emit, Running
<1>4. CASE BeginUpdate
    <2>1. mark' \in -1..Len(outputs') /\ outputs' \in Seq(Outputs)
        BY <1>1, <1>4 DEF BeginUpdate
    <2> QED BY <1>4, <2>1, RunningKeeps DEF BeginUpdate, Running
<1>5. CASE SkipUpdate
    <2>1. outputs' \in Seq(Outputs) /\ mark' \in -1..Len(outputs')
        BY <1>1, <1>2, <1>5, OutputsAreEmitted DEF SkipUpdate
    <2> QED BY <1>5, <2>1, RunningKeeps DEF SkipUpdate, Running
<1>6. CASE EndUpdate
    <2>1. outputs' \in Seq(Outputs)
        BY <1>1, <1>2, <1>6, OutputsAreEmitted DEF EndUpdate
    <2>2. mark' \in -1..Len(outputs')
        BY <1>6, <2>1, LenProperties DEF EndUpdate
    <2> QED BY <1>6, <2>1, <2>2, RunningKeeps DEF EndUpdate, Running
<1>7. CASE FailUpdate
    <2>1. outputs' \in Seq(Outputs)
        BY <1>1, <1>2, <1>7, OutputsAreEmitted, UndoneAreOutputs DEF FailUpdate
    <2>2. mark' \in -1..Len(outputs')
        BY <1>7, <2>1, LenProperties DEF FailUpdate
    <2> QED BY <1>7, <2>1, <2>2, RunningKeeps DEF FailUpdate, Running
<1>8. CASE FailAll
    <2>1. outputs' \in Seq(Outputs)
        BY <1>1, <1>2, <1>8, OutputsAreEmitted, UndoneAreOutputs DEF FailAll
    <2>2. mark' \in -1..Len(outputs')
        BY <1>8, <2>1, LenProperties DEF FailAll
    <2> QED BY <1>8, <2>1, <2>2, RunningKeeps DEF FailAll, Running
<1>9. CASE BeginEvent
    <2>1. mark' \in -1..Len(outputs') /\ outputs' \in Seq(Outputs)
        BY <1>1, <1>9 DEF BeginEvent
    <2> QED BY <1>9, <2>1, RunningKeeps DEF BeginEvent, Running
<1> QED BY <1>3, <1>4, <1>5, <1>6, <1>7, <1>8, <1>9

\* What is assembled is settled, and always validates.
LEMMA AssembleSettles ==
    ASSUME AssemblyInvariant, Assemble
    PROVE  AssemblyInvariant'
<1>1. outputs \in Seq(Outputs) /\ mark \in -1..Len(outputs)
    BY DEF AssemblyInvariant, TypeOK
<1>2. PICK error \in BOOLEAN, notes \in 0..MaxNotes, updates \in 0..MaxUpdateEvidence :
         /\ essential' \in
               {[size |-> e.size, charge |-> e.charge, notes |-> notes, updates |-> updates,
                 error |-> error] : e \in Essentials}
         /\ LET taken == Appended(Fixed("note", notes), Fixed("order_updates", updates),
                                  essential'.size)
            IN  /\ result' =
                      [diagnostics |-> taken.diagnostics
                                           \o IF error THEN <<Entry("kernel_error", 1, 1, 0)>>
                                              ELSE << >>,
                       evidence |-> taken.evidence, telemetry |-> taken.telemetry]
                /\ lost' = taken.lost
                /\ phase' = IF ListsFit(result') THEN "fit" ELSE "failed"
    BY DEF Assemble
<1>3. /\ essential' \in [size : Nat, charge : Nat, notes : Nat, updates : Nat, error : BOOLEAN]
      /\ essential'.notes = notes /\ essential'.updates = updates /\ essential'.error = error
    <2>1. notes \in Nat /\ updates \in Nat
        BY AssemblyAssumption
    <2>2. PICK e \in Essentials :
             essential' = [size |-> e.size, charge |-> e.charge, notes |-> notes,
                           updates |-> updates, error |-> error]
        BY <1>2
    <2>3. e.size \in Nat /\ e.charge \in Nat
        BY AssemblyAssumption
    <2> QED BY <2>1, <2>2, <2>3
<1> DEFINE taken == Appended(Fixed("note", notes), Fixed("order_updates", updates),
                             essential'.size)
<1>4. taken \in Accs /\ AppendedSoFar(taken, Len(outputs), notes, updates)
    BY <1>1, <1>3, AppendedKeeps
<1>5. /\ result' = [diagnostics |-> taken.diagnostics
                                       \o IF essential'.error
                                          THEN <<Entry("kernel_error", 1, 1, 0)>> ELSE << >>,
                    evidence |-> taken.evidence, telemetry |-> taken.telemetry]
      /\ lost' = taken.lost
      /\ phase' = IF ListsFit(result') THEN "fit" ELSE "failed"
    BY <1>2, <1>3
<1> HIDE DEF taken
<1>6. /\ result' \in Lists /\ Settled(result', lost', Len(outputs), essential')
      /\ ListsFit(result')
    <2>1. /\ AppendedSoFar(taken, Len(outputs), essential'.notes, essential'.updates)
          /\ essential'.error \in BOOLEAN
        BY <1>3, <1>4
    <2> QED BY <1>4, <1>5, <2>1, ErrorIsTold
<1>7. phase' = "fit" /\ outputs' = outputs /\ mark' = mark
    BY <1>5, <1>6 DEF Assemble
<1>8. lost' \in Nat
    BY <1>4, <1>5 DEF Accs
<1>9. TypeOK'
    BY <1>1, <1>3, <1>6, <1>7, <1>8, ListsAreTyped DEF TypeOK
<1> QED BY <1>6, <1>7, <1>9 DEF AssemblyInvariant

\* A pass returns what is told, gives up when nothing is left, or sheds.
LEMMA FitKeeps ==
    ASSUME AssemblyInvariant, Fit
    PROVE  /\ AssemblyInvariant'
           /\ phase' = "fit" => Sheddable(result') < Sheddable(result)
<1> DEFINE told == WithOverflow(result, lost)
           shed == IF told.telemetry # << >> THEN ShedTelemetry(told) ELSE ShedLogs(told)
           nothing == told.telemetry = << >> /\ Logs(told.evidence) = {}
                                             /\ Logs(told.diagnostics) = {}
           n == Len(outputs)
<1>1. /\ outputs \in Seq(Outputs) /\ mark \in -1..Len(outputs) /\ lost \in Nat
      /\ essential \in [size : Nat, charge : Nat, notes : Nat, updates : Nat, error : BOOLEAN]
      /\ Settled(result, lost, n, essential)
    BY DEF AssemblyInvariant, TypeOK, Fit
<1>2. /\ phase = "fit"
      /\ outputs' = outputs /\ mark' = mark /\ essential' = essential
      /\ IF Encodes(told)
         THEN phase' = "returned" /\ result' = told /\ lost' = lost
         ELSE IF nothing THEN phase' = "failed" /\ result' = told /\ lost' = lost
         ELSE /\ result' = shed
              /\ lost' = lost + Held(told) - Held(shed)
              /\ phase' = phase
    BY DEF Fit
<1>3. result \in Lists
    BY <1>1 DEF Settled
<1>4. /\ told \in Lists
      /\ Settled(told, lost, n, essential)
      /\ OverflowTold(told.diagnostics, lost)
      /\ ListsFit(told)
      /\ told.evidence = result.evidence /\ told.telemetry = result.telemetry
      /\ Cardinality(Logs(told.diagnostics)) = Cardinality(Logs(result.diagnostics))
    BY <1>1, <1>3, OverflowIsTold
<1> HIDE DEF told, shed, n
<1>5. CASE Encodes(told)
    <2>1. phase' = "returned" /\ result' = told /\ lost' = lost
        BY <1>2, <1>5
    <2>2. TypeOK'
        BY <1>1, <1>2, <1>4, <2>1, ListsAreTyped DEF TypeOK
    <2> QED BY <1>2, <1>4, <2>1, <2>2 DEF AssemblyInvariant, n
<1>6. CASE ~Encodes(told) /\ nothing
    <2>1. phase' = "failed" /\ result' = told /\ lost' = lost
        BY <1>2, <1>6
    <2>2. TypeOK'
        BY <1>1, <1>2, <1>4, <2>1, ListsAreTyped DEF TypeOK
    <2>3. GivenUp(told, lost, essential)
        <3> DEFINE all == told.diagnostics \o told.evidence \o told.telemetry
                   said == Cardinality(Coded(told.diagnostics, "update"))
                              + IF lost > 0 THEN 1 ELSE 0
                   fixed == essential.notes + essential.updates + said
                               + (IF essential.error THEN 1 ELSE 0)
        <3>1. EncodedSize(all) = fixed /\ Charged(all) = fixed /\ fixed \in Nat
            BY <1>1, <1>4, <1>6, RestIsCounted
        <3>2. ~(essential.size + EncodedSize(all) <= MaxResultSize
                 /\ essential.charge + Charged(all) <= MaxResultSize)
            BY <1>4, <1>6 DEF Encodes
        <3> HIDE DEF all, fixed
        <3>3. essential.size \in Nat /\ essential.charge \in Nat /\ MaxResultSize \in Nat
            BY <1>1, AssemblyAssumption
        <3>4. fixed + (IF essential.charge > essential.size THEN essential.charge
                       ELSE essential.size) > MaxResultSize
            BY <3>1, <3>2, <3>3
        <3> QED BY <3>4 DEF GivenUp, fixed
    <2> QED BY <1>2, <1>4, <2>1, <2>2, <2>3 DEF AssemblyInvariant, n
<1>7. CASE ~Encodes(told) /\ ~nothing
    <2>1. phase' = "fit" /\ result' = shed /\ lost' = lost + Held(told) - Held(shed)
        BY <1>2, <1>7
    <2>2. /\ shed \in Lists
          /\ Settled(shed, lost + Held(told) - Held(shed), n, essential)
          /\ lost + Held(told) - Held(shed) \in Nat
          /\ Sheddable(shed) < Sheddable(told)
        BY <1>1, <1>4, <1>7, PassSheds DEF shed
    <2>3. TypeOK'
        BY <1>1, <1>2, <2>1, <2>2, ListsAreTyped DEF TypeOK
    <2>4. Sheddable(told) = Sheddable(result)
        BY <1>4 DEF Sheddable
    <2> QED BY <1>2, <2>1, <2>2, <2>3, <2>4 DEF AssemblyInvariant, n
<1> QED BY <1>5, <1>6, <1>7

\* Every step keeps the invariant, and a pass that goes on leaves less to shed.
LEMMA AssemblyGoesOn ==
    ASSUME AssemblyInvariant, [Next]_vars
    PROVE  /\ AssemblyInvariant'
           /\ phase = "fit" /\ phase' = "fit" =>
                 \/ UNCHANGED vars
                 \/ Sheddable(result') < Sheddable(result)
<1>1. CASE Fit
    BY <1>1, FitKeeps
<1>2. CASE Assemble
    <2>1. phase # "fit"
        BY <1>2 DEF Assemble
    <2> QED BY <1>2, <2>1, AssembleSettles
<1>3. CASE \/ Emit \/ BeginUpdate \/ SkipUpdate \/ EndUpdate
           \/ FailUpdate \/ FailAll \/ BeginEvent
    <2>1. phase # "fit"
        BY <1>3 DEF Emit, BeginUpdate, SkipUpdate, EndUpdate, FailUpdate, FailAll, BeginEvent,
                    Running
    <2> QED BY <1>3, <2>1, OutputsStay
<1>4. CASE UNCHANGED vars
    BY <1>4 DEF vars, AssemblyInvariant, TypeOK
<1> QED BY <1>1, <1>2, <1>3, <1>4 DEF Next

-----------------------------------------------------------------------------
(* Theorems *)

\* The invariant holds throughout.
LEMMA AssemblyIsInvariant == Spec => []AssemblyInvariant
<1>1. AssemblyInvariant /\ [Next]_vars => AssemblyInvariant'
    BY AssemblyGoesOn
<1> QED BY <1>1, AssemblyBegins, PTL DEF Spec

\* A transaction's outputs and result are what they should be, however much it logs.
THEOREM ResultIsTyped == Spec => []TypeOK
<1>1. AssemblyInvariant => TypeOK
    BY DEF AssemblyInvariant
<1> QED BY <1>1, AssemblyIsInvariant, PTL

\* Every output of the decision is in the result it returns, once and in the order produced, or
\* counted in its one overflow diagnostic (append_outputs, fit_result), for any bounds and
\* sizes and any number of outputs and passes.
THEOREM LossesAreTold == Spec => []NothingIsLostUnseen
<1>1. AssemblyInvariant => NothingIsLostUnseen
    BY DEF AssemblyInvariant, NothingIsLostUnseen, Settled
<1> QED BY <1>1, AssemblyIsInvariant, PTL

\* The notes, the order updates' evidence and the kernel's error are never given up for logs,
\* and a result is only given up when those alone do not fit (kernel_v6.rs, fit_result).
THEOREM ResultKeepsEssentials == Spec => []EssentialsAreKept
<1>1. AssemblyInvariant => EssentialsAreKept
    <2> SUFFICES ASSUME AssemblyInvariant PROVE EssentialsAreKept
        OBVIOUS
    <2>1. phase \in {"fit", "returned"} =>
             /\ Cardinality(Coded(result.diagnostics, "note")) = essential.notes
             /\ Cardinality(Coded(result.evidence, "order_updates")) = essential.updates
             /\ (Coded(result.diagnostics, "kernel_error") # {}) <=> essential.error
        <3> SUFFICES ASSUME phase \in {"fit", "returned"}
                     PROVE  /\ Cardinality(Coded(result.diagnostics, "note")) = essential.notes
                            /\ Cardinality(Coded(result.evidence, "order_updates"))
                                 = essential.updates
                            /\ (Coded(result.diagnostics, "kernel_error") # {})
                                 <=> essential.error
            OBVIOUS
        <3>1. Carries(result, essential.notes, essential.updates,
                      IF essential.error THEN 1 ELSE 0)
            BY DEF AssemblyInvariant, Settled
        <3>2. IsFiniteSet(Coded(result.diagnostics, "kernel_error"))
              /\ essential.error \in BOOLEAN
            BY CountsAreNumbers DEF AssemblyInvariant, TypeOK
        <3>3. Coded(result.diagnostics, "kernel_error") # {} <=> essential.error
            BY <3>1, <3>2, FS_EmptySet DEF Carries
        <3> QED BY <3>1, <3>3 DEF Carries
    <2> QED BY <2>1 DEF AssemblyInvariant, EssentialsAreKept, GivenUp
<1> QED BY <1>1, AssemblyIsInvariant, PTL

\* Every pass that does not end the loop leaves less to shed (fit_result): the loop is over after
\* at most as many passes as there were logs and telemetry.
THEOREM PassesShed == Spec => EachPassSheds
<1>1. AssemblyInvariant /\ [Next]_vars =>
         [phase = "fit" /\ phase' = "fit" => Sheddable(result') < Sheddable(result)]_vars
    BY AssemblyGoesOn
<1> QED BY <1>1, AssemblyIsInvariant, PTL DEF Spec, EachPassSheds

=============================================================================
