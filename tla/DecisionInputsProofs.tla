------------------------ MODULE DecisionInputsProofs ------------------------
(***************************************************************************)
(* Theorems about the inputs of a decision: what they are made of, that    *)
(* what the owners accept stays admissible, and that what passes the       *)
(* checks is read right.                                                   *)
(***************************************************************************)
EXTENDS DecisionInputs, OrderLemmas

-----------------------------------------------------------------------------
(* Lists: the elements at some places of a list, and the first of them *)

\* A list with an item put between elements of another list.
Spliced(list, before, item, after) ==
    ElementsAt(list, before) \o <<item>> \o ElementsAt(list, after)

SplicedFrom(S, list, before, item, after, b, a, spliced) ==
    /\ spliced \in Seq(S)
    /\ b \in Nat /\ a \in Nat
    /\ Len(spliced) = b + 1 + a
    /\ DOMAIN spliced = 1..(b + 1 + a)
    /\ \A k \in 1..b : spliced[k] = list[NthPlace(before, k)] /\ NthPlace(before, k) \in before
    /\ spliced[b + 1] = item
    /\ \A k \in 1..a : /\ spliced[b + 1 + k] = list[NthPlace(after, k)]
                       /\ NthPlace(after, k) \in after

\* A spliced list holds, in order, the elements kept before, the new one and those kept
\* after.
LEMMA SplicedElements ==
    ASSUME NEW S, NEW list \in Seq(S), NEW item \in S,
           NEW before \in SUBSET (DOMAIN list), NEW after \in SUBSET (DOMAIN list)
    PROVE  SplicedFrom(S, list, before, item, after, Cardinality(before), Cardinality(after),
                       Spliced(list, before, item, after))
<1> DEFINE b == Cardinality(before)
           a == Cardinality(after)
           front == ElementsAt(list, before)
           back == ElementsAt(list, after)
           spliced == Spliced(list, before, item, after)
<1>1. /\ front \in Seq(S) /\ Len(front) = b /\ b \in Nat
      /\ \A k \in 1..b : front[k] = list[NthPlace(before, k)] /\ NthPlace(before, k) \in before
    BY ElementsAreSelected
<1>2. /\ back \in Seq(S) /\ Len(back) = a /\ a \in Nat
      /\ \A k \in 1..a : back[k] = list[NthPlace(after, k)] /\ NthPlace(after, k) \in after
    BY ElementsAreSelected
<1>3. <<item>> \in Seq(S) /\ Len(<<item>>) = 1 /\ <<item>>[1] = item
    OBVIOUS
<1> DEFINE most == front \o <<item>>
<1> HIDE DEF front, back, b, a
<1>4. /\ most \in Seq(S)
      /\ Len(most) = b + 1
      /\ \A k \in 1..(b + 1) : most[k] = IF k <= b THEN front[k] ELSE <<item>>[k - b]
    BY <1>1, <1>3, ConcatProperties
<1>5. \A k \in 1..b : most[k] = front[k]
    BY <1>1, <1>4
<1>6. most[b + 1] = item
    <2>1. b + 1 \in 1..(b + 1) /\ ~(b + 1 <= b) /\ (b + 1) - b = 1
        BY <1>1
    <2> HIDE DEF most
    <2>2. most[b + 1] = <<item>>[(b + 1) - b]
        BY <1>4, <2>1
    <2> QED BY <1>3, <2>1, <2>2
<1>7. spliced = most \o back
    BY DEF Spliced, front, back
<1> HIDE DEF most, spliced
<1>8. /\ spliced \in Seq(S)
      /\ Len(spliced) = b + 1 + a
      /\ \A k \in 1..(b + 1 + a) :
            spliced[k] = IF k <= b + 1 THEN most[k] ELSE back[k - (b + 1)]
    <2>0. most \in Seq(S) /\ back \in Seq(S) /\ Len(most) = b + 1 /\ Len(back) = a
        BY <1>2, <1>4
    <2>1. most \o back \in Seq(S) /\ Len(most \o back) = (b + 1) + a
        BY <2>0, ConcatProperties
    <2>2. \A k \in 1..((b + 1) + a) :
             (most \o back)[k] = IF k <= b + 1 THEN most[k] ELSE back[k - (b + 1)]
        <3>1. \A k \in 1..(Len(most) + Len(back)) :
                 (most \o back)[k] = IF k <= Len(most) THEN most[k] ELSE back[k - Len(most)]
            BY <2>0, ConcatProperties
        <3> QED BY <2>0, <3>1
    <2> QED BY <1>1, <1>2, <1>7, <2>1, <2>2
<1>9. \A k \in 1..(b + 1) : spliced[k] = most[k]
    BY <1>1, <1>2, <1>8
<1>10. \A k \in 1..a : spliced[b + 1 + k] = back[k]
    <2> TAKE k \in 1..a
    <2>1. b + 1 + k \in 1..(b + 1 + a) /\ ~(b + 1 + k <= b + 1) /\ (b + 1 + k) - (b + 1) = k
        BY <1>1, <1>2
    <2> QED BY <1>8, <2>1
<1>11. DOMAIN spliced = 1..(b + 1 + a)
    BY <1>8, LenProperties
<1>12. \A k \in 1..b : spliced[k] = list[NthPlace(before, k)] /\ NthPlace(before, k) \in before
    BY <1>1, <1>5, <1>9
<1>13. spliced[b + 1] = item
    BY <1>1, <1>6, <1>9
<1>14. \A k \in 1..a : spliced[b + 1 + k] = list[NthPlace(after, k)] /\ NthPlace(after, k) \in after
    BY <1>2, <1>10
<1> QED BY <1>1, <1>2, <1>8, <1>11, <1>12, <1>13, <1>14 DEF b, a, spliced, SplicedFrom

\* Every element of a spliced list is the item or one of the selected elements, and each of
\* these is in it.
HoldsOf(S, list, places, item, spliced) ==
    /\ spliced \in Seq(S)
    /\ \A k \in DOMAIN spliced :
          spliced[k] = item \/ \E i \in places : spliced[k] = list[i]
    /\ \E k \in DOMAIN spliced : spliced[k] = item
    /\ \A i \in places : \E k \in DOMAIN spliced : spliced[k] = list[i]

\* Nothing but the kept elements and the new one is in a spliced list, and all of them are.
LEMMA SplicedHolds ==
    ASSUME NEW S, NEW list \in Seq(S), NEW item \in S,
           NEW before \in SUBSET (DOMAIN list), NEW after \in SUBSET (DOMAIN list)
    PROVE  HoldsOf(S, list, before \cup after, item, Spliced(list, before, item, after))
<1> DEFINE b == Cardinality(before)
           a == Cardinality(after)
           spliced == Spliced(list, before, item, after)
<1>1. /\ spliced \in Seq(S)
      /\ b \in Nat /\ a \in Nat
      /\ DOMAIN spliced = 1..(b + 1 + a)
      /\ \A k \in 1..b : spliced[k] = list[NthPlace(before, k)] /\ NthPlace(before, k) \in before
      /\ spliced[b + 1] = item
      /\ \A k \in 1..a : /\ spliced[b + 1 + k] = list[NthPlace(after, k)]
                         /\ NthPlace(after, k) \in after
    <2>1. SplicedFrom(S, list, before, item, after, b, a, spliced)
        BY SplicedElements
    <2> HIDE DEF b, a, spliced
    <2> QED BY <2>1 DEF SplicedFrom
<1>2. Len(list) \in Nat /\ DOMAIN list = 1..Len(list)
    BY LenProperties
<1>3. /\ \A i \in before : \E k \in 1..b : NthPlace(before, k) = i
      /\ \A i \in after : \E k \in 1..a : NthPlace(after, k) = i
    BY <1>2, PlacesAreInOrder
<1> HIDE DEF b, a, spliced
<1>4. ASSUME NEW k \in DOMAIN spliced
      PROVE  spliced[k] = item \/ \E i \in before \cup after : spliced[k] = list[i]
    <2>1. k \in 1..b \/ k = b + 1 \/ \E n \in 1..a : k = b + 1 + n
        <3>1. k \in 1..b \/ k = b + 1 \/ k - (b + 1) \in 1..a
            BY <1>1, <1>4
        <3>2. k \in Int /\ k = b + 1 + (k - (b + 1))
            BY <1>1, <1>4
        <3> QED BY <3>1, <3>2
    <2> QED BY <1>1, <2>1
<1>5. ASSUME NEW i \in before \cup after
      PROVE  \E k \in DOMAIN spliced : spliced[k] = list[i]
    <2>1. CASE i \in before
        <3>1. PICK k \in 1..b : NthPlace(before, k) = i
            BY <1>3, <2>1
        <3>2. k \in DOMAIN spliced
            BY <1>1
        <3> QED BY <1>1, <3>1, <3>2
    <2>2. CASE i \in after
        <3>1. PICK k \in 1..a : NthPlace(after, k) = i
            BY <1>3, <2>2
        <3>2. b + 1 + k \in DOMAIN spliced
            BY <1>1
        <3> QED BY <1>1, <3>1, <3>2
    <2> QED BY <2>1, <2>2
<1>6. \E k \in DOMAIN spliced : spliced[k] = item
    <2>1. b + 1 \in DOMAIN spliced
        BY <1>1
    <2> QED BY <1>1, <2>1
<1> QED BY <1>1, <1>4, <1>5, <1>6 DEF spliced, HoldsOf

\* The first element at some places of a list is at one of them, before the others.
LEMMA FirstIsThere ==
    ASSUME NEW S, NEW list \in Seq(S), NEW places \in SUBSET (DOMAIN list), places # {}
    PROVE  \E i \in places : /\ FirstAt(list, places) = list[i]
                             /\ \A j \in places : i <= j
<1>1. DOMAIN list = 1..Len(list) /\ Len(list) \in Nat
    BY LenProperties
<1>2. places \subseteq Nat
    BY <1>1
<1>3. \E i \in places : \A j \in places : i <= j
    BY <1>2, LeastNumber
<1> QED BY <1>3 DEF FirstAt

\* A record that is the only one of its key is the one a lookup finds.
LEMMA OnlyOneIsFound ==
    ASSUME NEW S, NEW list \in Seq(S), NEW places \in SUBSET (DOMAIN list),
           NEW i \in places, \A j \in places : j = i
    PROVE  FirstAt(list, places) = list[i]
BY FirstIsThere

-----------------------------------------------------------------------------
(* The markets *)

\* The owner's markets are the scoped ones, in their order, and a window has an entry for each.
MarketInvariant ==
    /\ MarketTypeOK
    /\ Len(markets) = Cardinality(MarketIds)
    /\ \A i \in DOMAIN markets : markets[i].market_id = i
    /\ window # None => Len(window.entries) = Len(markets)

\* What is left of a book's levels around one of them is levels again.
LEMMA LevelsStayLevels ==
    ASSUME NEW levels \in Seq(BookLevels), NEW price \in Prices,
           NEW quantity \in Quantities \cup {0}
    PROVE  WithLevel(levels, price, quantity) \in Seq(BookLevels)
<1> DEFINE better == {i \in DOMAIN levels : levels[i].price > price}
           worse == {i \in DOMAIN levels : levels[i].price < price}
           level == IF quantity = 0 THEN << >>
                    ELSE <<[price |-> price, quantity |-> quantity]>>
<1>1. ElementsAt(levels, better) \in Seq(BookLevels)
    BY ElementsAreSelected
<1>2. ElementsAt(levels, worse) \in Seq(BookLevels)
    BY ElementsAreSelected
<1>3. level \in Seq(BookLevels)
    <2>1. [price |-> price, quantity |-> quantity] \in BookLevels
        BY MarketAssumption DEF BookLevels
    <2> HIDE DEF BookLevels
    <2> QED BY <2>1
<1>4. ElementsAt(levels, better) \o level \o ElementsAt(levels, worse) \in Seq(BookLevels)
    <2> HIDE DEF level, better, worse
    <2>1. ElementsAt(levels, better) \o level \in Seq(BookLevels)
        BY <1>1, <1>3, ConcatProperties
    <2> QED BY <1>2, <2>1, ConcatProperties
<1> QED BY <1>4 DEF WithLevel, Selected

\* The minima of a book's levels are levels.
LEMMA MinimaAreLevels ==
    ASSUME NEW levels \in Seq(BookLevels), NEW before \in Seq(BookLevels)
    PROVE  Minima(levels, before) \in Seq(BookLevels)
<1>1. /\ Len(levels) \in Nat /\ DOMAIN levels = 1..Len(levels)
      /\ levels \in [1..Len(levels) -> BookLevels]
    BY LenProperties
<1>2. ASSUME NEW i \in DOMAIN levels
      PROVE  Minima(levels, before)[i] \in BookLevels
    <2> DEFINE held == FirstAt(before, {j \in DOMAIN before : before[j].price = levels[i].price})
               quantity == IF held = None THEN 0
                           ELSE IF held.quantity < levels[i].quantity THEN held.quantity
                           ELSE levels[i].quantity
    <2>1. held = None \/ held \in BookLevels
        <3> DEFINE places == {j \in DOMAIN before : before[j].price = levels[i].price}
        <3>1. CASE places = {}
            BY <3>1 DEF FirstAt
        <3>2. CASE places # {}
            <4>1. PICK j \in places : FirstAt(before, places) = before[j]
                BY <3>2, FirstIsThere
            <4>2. before[j] \in BookLevels
                BY <4>1, LenProperties
            <4> QED BY <4>1, <4>2
        <3> QED BY <3>1, <3>2
    <2>2. levels[i] \in BookLevels
        BY <1>1, <1>2
    <2> HIDE DEF held
    <2>3. quantity \in Nat /\ levels[i].price \in Prices
        BY <2>1, <2>2 DEF BookLevels
    <2>4. Minima(levels, before)[i] = [price |-> levels[i].price, quantity |-> quantity]
        BY <1>2 DEF Minima, FirstWhere, held
    <2> HIDE DEF quantity
    <2> QED BY <2>3, <2>4 DEF BookLevels
<1>3. Minima(levels, before) \in [1..Len(levels) -> BookLevels]
    <2>1. Minima(levels, before) = [i \in DOMAIN levels |-> Minima(levels, before)[i]]
        BY DEF Minima
    <2> QED BY <1>1, <1>2, <2>1
<1> QED BY <1>1, <1>3, FunctionIsSeq

\* A book, or none, has levels on each side.
LEMMA BooksHaveLevels ==
    ASSUME NEW market \in Markets
    PROVE  /\ BookOf(market) \in Books
           /\ \A side \in Sides : BookOf(market)[side] \in Seq(BookLevels)
           /\ NoLevels \in Books
<1>1. << >> \in Seq(BookLevels)
    BY EmptySeq
<1>2. NoLevels \in Books
    BY <1>1 DEF NoLevels, Books
<1>3. BookOf(market) \in Books
    BY <1>2 DEF BookOf, Markets
<1> QED BY <1>2, <1>3 DEF Books

\* The market book starts with windows of its own entries.
LEMMA MarketsStart == MarketInit => MarketInvariant
<1> SUFFICES ASSUME MarketInit PROVE MarketInvariant
    OBVIOUS
<1> DEFINE n == Cardinality(MarketIds)
           first == [NoLevels EXCEPT !["yes_bids"] = <<[price |-> 1, quantity |-> 1]>>]
<1>1. n \in Nat /\ MarketIds = 1..n
    BY MarketAssumption, FS_CardinalityType
<1>2. first \in Books /\ NoLevels \in Books
    <2>1. << >> \in Seq(BookLevels)
        BY EmptySeq
    <2>2. [price |-> 1, quantity |-> 1] \in BookLevels
        BY MarketAssumption DEF BookLevels
    <2>3. <<[price |-> 1, quantity |-> 1]>> \in Seq(BookLevels)
        BY <2>2
    <2>4. NoLevels \in [Sides -> Seq(BookLevels)]
        BY <2>1 DEF NoLevels
    <2> QED BY <2>3, <2>4 DEF Books
<1>3. markets \in [1..n -> Markets] /\ \A i \in 1..n : markets[i].market_id = i
    <2> HIDE DEF first, n
    <2>1. \A i \in 1..n : [market_id |-> i, book |-> IF i = 1 THEN first ELSE None,
                           ticker |-> NoTicker, floor_f |-> None, floor_c |-> None,
                           cap_c |-> None] \in Markets
        BY <1>1, <1>2 DEF Markets, NoTicker, Tickers
    <2>2. markets = [i \in 1..n |-> [market_id |-> i, book |-> IF i = 1 THEN first ELSE None,
                                     ticker |-> NoTicker, floor_f |-> None,
                                     floor_c |-> None, cap_c |-> None]]
        BY DEF MarketInit, first, n
    <2> QED BY <2>1, <2>2
<1>4. markets \in Seq(Markets) /\ Len(markets) = n /\ DOMAIN markets = 1..n
    BY <1>1, <1>3, FunctionIsSeq
<1>5. window = None \/ (window \in Windows /\ Len(window.entries) = Len(markets))
    <2>1. CASE window = None
        BY <2>1
    <2>2. CASE window = [window_ms |-> MaxBookWindow,
                         entries |-> [i \in DOMAIN markets |->
                             [market_id |-> i, levels |-> BookOf(markets[i])]]]
        <3> DEFINE entries == [i \in DOMAIN markets |->
                                  [market_id |-> i, levels |-> BookOf(markets[i])]]
        <3>1. \A i \in 1..n : BookOf(markets[i]) \in Books /\ i \in MarketIds
            BY <1>1, <1>3, BooksHaveLevels
        <3>2. entries \in [1..n -> WindowEntries]
            BY <1>4, <3>1 DEF WindowEntries
        <3>3. entries \in Seq(WindowEntries) /\ Len(entries) = n
            BY <1>1, <3>2, FunctionIsSeq
        <3>4. window.entries = entries /\ window = [window_ms |-> MaxBookWindow, entries |-> entries]
            BY <2>2
        <3> HIDE DEF entries
        <3> QED BY <1>4, <3>3, <3>4, MarketAssumption DEF Windows
    <2> QED BY <2>1, <2>2 DEF MarketInit
<1>6. strikes = None
    BY DEF MarketInit
<1>7. MarketTypeOK
    BY <1>4, <1>5, <1>6 DEF MarketTypeOK
<1> QED BY <1>3, <1>4, <1>5, <1>7 DEF MarketInvariant

\* An update of one market keeps it the market it is.
LEMMA MarketIsUpdated ==
    ASSUME MarketInvariant, NEW i \in DOMAIN markets, NEW market \in Markets,
           market.market_id = i, markets' = [markets EXCEPT ![i] = market]
    PROVE  /\ markets' \in Seq(Markets)
           /\ Len(markets') = Len(markets)
           /\ Len(markets') = Cardinality(MarketIds)
           /\ \A k \in DOMAIN markets' : markets'[k].market_id = k
<1>1. /\ markets \in Seq(Markets) /\ Len(markets) = Cardinality(MarketIds)
      /\ DOMAIN markets = 1..Len(markets)
      /\ \A k \in DOMAIN markets : markets[k].market_id = k
    BY LenProperties DEF MarketInvariant, MarketTypeOK
<1>2. markets' \in Seq(Markets) /\ Len(markets') = Len(markets)
    BY <1>1, ExceptSeq
<1>3. DOMAIN markets' = DOMAIN markets
    OBVIOUS
<1>4. \A k \in DOMAIN markets' : markets'[k].market_id = k
    BY <1>1, <1>3
<1> QED BY <1>1, <1>2, <1>4

\* Every fold of the market channel keeps the windows those of the book.
LEMMA MarketsStay ==
    MarketInvariant /\ MarketFold => MarketInvariant'
<1> SUFFICES ASSUME MarketInvariant, MarketFold PROVE MarketInvariant'
    OBVIOUS
<1> USE DEF MarketInvariant
<1>1. /\ markets \in Seq(Markets) /\ Len(markets) \in Nat /\ DOMAIN markets = 1..Len(markets)
      /\ \A i \in DOMAIN markets : markets[i] \in Markets /\ markets[i].market_id = i
    BY LenProperties DEF MarketTypeOK
<1>2. /\ window # None => /\ window \in Windows
                          /\ window.entries \in Seq(WindowEntries)
                          /\ DOMAIN window.entries = DOMAIN markets
                          /\ \A i \in DOMAIN markets : window.entries[i] \in WindowEntries
      /\ strikes \in {None} \cup Seq(StrikeEntries)
    <2>1. window \in {None} \cup Windows /\ strikes \in {None} \cup Seq(StrikeEntries)
        BY DEF MarketTypeOK
    <2>2. ASSUME window # None
          PROVE  /\ window \in Windows
                 /\ window.entries \in Seq(WindowEntries)
                 /\ DOMAIN window.entries = DOMAIN markets
                 /\ \A i \in DOMAIN markets : window.entries[i] \in WindowEntries
        <3>1. window.entries \in Seq(WindowEntries) /\ window \in Windows
            BY <2>1, <2>2 DEF Windows
        <3>2. Len(window.entries) = Len(markets)
            BY <2>2
        <3> QED BY <1>1, <3>1, <3>2, LenProperties
    <2> QED BY <2>1, <2>2
<1> HIDE DEF MarketInvariant
\* An entry of the window is replaced by one of the same market.
<1>3. ASSUME window # None, NEW i \in DOMAIN markets, NEW levels \in Books,
             window' = [window EXCEPT !.entries =
                           [window.entries EXCEPT ![i] =
                               [window.entries[i] EXCEPT !.levels = levels]]]
      PROVE  window' \in Windows /\ Len(window'.entries) = Len(markets)
    <2> DEFINE entry == [window.entries[i] EXCEPT !.levels = levels]
               entries == [window.entries EXCEPT ![i] = entry]
    <2>1. entry \in WindowEntries
        BY <1>2, <1>3 DEF WindowEntries
    <2>2. i \in 1..Len(window.entries)
        BY <1>2, <1>3, LenProperties
    <2>3. Len(entries) = Len(window.entries) /\ entries \in Seq(WindowEntries)
        <3> HIDE DEF entry
        <3> QED BY <1>2, <1>3, <2>1, <2>2, ExceptSeq
    <2>4. window' = [window EXCEPT !.entries = entries]
        BY <1>3
    <2>5. Len(window.entries) = Len(markets)
        BY <1>3 DEF MarketInvariant
    <2> HIDE DEF entries
    <2> QED BY <1>2, <1>3, <2>3, <2>4, <2>5 DEF Windows
<1>4. CASE BookDelta
    <2>1. PICK i \in DOMAIN markets, side \in Sides, price \in Prices,
               quantity \in Quantities \cup {0}, slip \in {"none", "stale"} :
             LET levels == WithLevel(BookOf(markets[i])[side], price, quantity)
             IN  /\ markets' = [markets EXCEPT ![i].book = [BookOf(markets[i]) EXCEPT
                                                               ![side] = levels]]
                 /\ window' = IF slip = "stale" \/ window = None THEN window
                              ELSE [window EXCEPT !.entries[i].levels[side] =
                                                      Minima(levels, @)]
                 /\ UNCHANGED strikes
        BY <1>4 DEF BookDelta
    <2> DEFINE levels == WithLevel(BookOf(markets[i])[side], price, quantity)
               book == [BookOf(markets[i]) EXCEPT ![side] = levels]
               market == [markets[i] EXCEPT !.book = book]
    <2>2. BookOf(markets[i]) \in Books /\ BookOf(markets[i])[side] \in Seq(BookLevels)
        BY <1>1, BooksHaveLevels
    <2>3. levels \in Seq(BookLevels)
        BY <2>2, LevelsStayLevels
    <2>4. markets' = [markets EXCEPT ![i] = market]
        BY <2>1
    <2> HIDE DEF levels
    <2>5. book \in Books
        BY <2>2, <2>3 DEF Books
    <2> HIDE DEF book
    <2>6. market \in Markets /\ market.market_id = i
        BY <1>1, <2>5 DEF Markets
    <2>7. window' = None \/ (window' \in Windows /\ Len(window'.entries) = Len(markets))
        <3>1. CASE slip = "stale" \/ window = None
            BY <1>2, <2>1, <3>1 DEF MarketInvariant
        <3>2. CASE ~(slip = "stale" \/ window = None)
            <4> DEFINE before == window.entries[i].levels
                       least == [before EXCEPT ![side] = Minima(levels, before[side])]
            <4>1. before \in Books /\ before[side] \in Seq(BookLevels)
                BY <1>2, <3>2 DEF WindowEntries, Books
            <4>2. Minima(levels, before[side]) \in Seq(BookLevels)
                BY <2>3, <4>1, MinimaAreLevels
            <4>3. least \in Books
                BY <4>1, <4>2 DEF Books
            <4>4. window' = [window EXCEPT !.entries[i].levels[side] = Minima(levels, @)]
                BY <2>1, <3>2 DEF levels
            <4>5. window' = [window EXCEPT !.entries =
                                [window.entries EXCEPT ![i] =
                                    [window.entries[i] EXCEPT !.levels = least]]]
                BY <4>4
            <4> HIDE DEF least
            <4> QED BY <1>3, <3>2, <4>3, <4>5
        <3> QED BY <3>1, <3>2
    <2> HIDE DEF market
    <2> QED BY <1>2, <2>1, <2>4, <2>6, <2>7, MarketIsUpdated DEF MarketInvariant, MarketTypeOK
<1>5. CASE WindowAsked
    <2>1. PICK window_ms \in {0, MaxBookWindow, MaxBookWindow + 1}, covered \in BOOLEAN,
               swapped \in BOOLEAN :
             LET LevelsOf(market) == [side \in Sides |->
                     Minima(BookOf(market)[side],
                            IF covered THEN BookOf(market)[side] ELSE << >>)]
                 Of(i) == IF swapped THEN Len(markets) + 1 - i ELSE i
             IN  /\ window' = [window_ms |-> window_ms,
                               entries |-> [i \in DOMAIN markets |->
                                   [market_id |-> markets[Of(i)].market_id,
                                    levels |-> LevelsOf(markets[Of(i)])]]]
                 /\ UNCHANGED <<markets, strikes>>
        BY <1>5 DEF WindowAsked
    <2> DEFINE LevelsOf(market) == [side \in Sides |->
                   Minima(BookOf(market)[side],
                          IF covered THEN BookOf(market)[side] ELSE << >>)]
               Of(i) == IF swapped THEN Len(markets) + 1 - i ELSE i
               entries == [i \in DOMAIN markets |->
                              [market_id |-> markets[Of(i)].market_id,
                               levels |-> LevelsOf(markets[Of(i)])]]
    <2>2. ASSUME NEW market \in Markets PROVE LevelsOf(market) \in Books
        <3>1. ASSUME NEW side \in Sides
              PROVE  Minima(BookOf(market)[side],
                            IF covered THEN BookOf(market)[side] ELSE << >>)
                        \in Seq(BookLevels)
            <4> DEFINE before == IF covered THEN BookOf(market)[side] ELSE << >>
            <4>1. BookOf(market)[side] \in Seq(BookLevels) /\ << >> \in Seq(BookLevels)
                BY <2>2, <3>1, BooksHaveLevels, EmptySeq
            <4>2. before \in Seq(BookLevels)
                BY <4>1
            <4> HIDE DEF before
            <4>3. Minima(BookOf(market)[side], before) \in Seq(BookLevels)
                BY <4>1, <4>2, MinimaAreLevels
            <4> QED BY <4>3 DEF before
        <3> QED BY <3>1 DEF Books
    <2>3. \A i \in DOMAIN markets : Of(i) \in DOMAIN markets
        BY <1>1
    <2> HIDE DEF LevelsOf, Of
    <2>4. \A i \in DOMAIN markets :
             [market_id |-> markets[Of(i)].market_id, levels |-> LevelsOf(markets[Of(i)])]
                \in WindowEntries
        BY <1>1, <2>2, <2>3 DEF WindowEntries, Markets
    <2>5. entries \in [1..Len(markets) -> WindowEntries]
        BY <1>1, <2>4
    <2>6. entries \in Seq(WindowEntries) /\ Len(entries) = Len(markets)
        BY <1>1, <2>5, FunctionIsSeq
    <2>7. window' = [window_ms |-> window_ms, entries |-> entries]
        BY <2>1 DEF LevelsOf, Of
    <2>8. window_ms \in Nat
        BY <2>1, MarketAssumption
    <2> HIDE DEF entries
    <2>9. window' \in Windows /\ Len(window'.entries) = Len(markets)
        BY <2>6, <2>7, <2>8 DEF Windows
    <2>10. markets' = markets /\ strikes' = strikes
        BY <2>1
    <2> QED BY <1>2, <2>9, <2>10 DEF MarketInvariant, MarketTypeOK
<1>6. CASE BookResync
    <2>1. PICK i \in DOMAIN markets, slip \in BOOLEAN :
             /\ markets' = [markets EXCEPT ![i].book = None]
             /\ window' = IF slip \/ window = None THEN window
                          ELSE [window EXCEPT !.entries[i].levels = NoLevels]
             /\ UNCHANGED strikes
        BY <1>6 DEF BookResync
    <2> DEFINE market == [markets[i] EXCEPT !.book = None]
    <2>2. markets' = [markets EXCEPT ![i] = market]
        BY <2>1
    <2>3. market \in Markets /\ market.market_id = i
        BY <1>1 DEF Markets
    <2>4. window' = None \/ (window' \in Windows /\ Len(window'.entries) = Len(markets))
        <3>1. CASE slip \/ window = None
            BY <1>2, <2>1, <3>1 DEF MarketInvariant
        <3>2. CASE ~(slip \/ window = None)
            <4>1. NoLevels \in Books
                BY <1>1, BooksHaveLevels
            <4>2. window' = [window EXCEPT !.entries =
                                [window.entries EXCEPT ![i] =
                                    [window.entries[i] EXCEPT !.levels = NoLevels]]]
                BY <2>1, <3>2
            <4> QED BY <1>3, <3>2, <4>1, <4>2
        <3> QED BY <3>1, <3>2
    <2> HIDE DEF market
    <2> QED BY <1>2, <2>1, <2>2, <2>3, <2>4, MarketIsUpdated DEF MarketInvariant, MarketTypeOK
<1>7. CASE Traded
    <2>1. PICK i \in DOMAIN markets, quote \in Quotes, price \in Prices \cup {None} :
             /\ markets' = [markets EXCEPT ![i].ticker = [markets[i].ticker EXCEPT
                                                             ![quote] = price]]
             /\ UNCHANGED <<window, strikes>>
        BY <1>7 DEF Traded
    <2> DEFINE ticker == [markets[i].ticker EXCEPT ![quote] = price]
               market == [markets[i] EXCEPT !.ticker = ticker]
    <2>2. markets' = [markets EXCEPT ![i] = market]
        BY <2>1
    <2>3. market \in Markets /\ market.market_id = i
        <3>1. ticker \in Tickers
            BY <1>1 DEF Markets, Tickers
        <3> HIDE DEF ticker
        <3> QED BY <1>1, <3>1 DEF Markets
    <2> HIDE DEF market
    <2> QED BY <1>2, <2>1, <2>2, <2>3, MarketIsUpdated DEF MarketInvariant, MarketTypeOK
<1>8. CASE StrikesKnown
    <2>1. PICK floor_f \in Strikes \cup {None}, cap_f \in Strikes \cup {None},
               floor_c \in CelsiusStrikes \cup {None}, cap_c \in CelsiusStrikes \cup {None},
               swapped \in BOOLEAN :
             LET Of(i) == IF swapped THEN Len(markets) + 1 - i ELSE i
             IN  /\ markets' = [markets EXCEPT ![1] = [markets[1] EXCEPT
                                   !.floor_f = floor_f, !.floor_c = floor_c, !.cap_c = cap_c]]
                 /\ strikes' = [i \in DOMAIN markets |->
                       [market_id |-> markets[Of(i)].market_id,
                        cap_f |-> IF Of(i) = 1 THEN cap_f ELSE None]]
                 /\ UNCHANGED window
        BY <1>8 DEF StrikesKnown
    <2> DEFINE Of(i) == IF swapped THEN Len(markets) + 1 - i ELSE i
               entries == [i \in DOMAIN markets |->
                              [market_id |-> markets[Of(i)].market_id,
                               cap_f |-> IF Of(i) = 1 THEN cap_f ELSE None]]
    <2>2. \A i \in DOMAIN markets : Of(i) \in DOMAIN markets
        BY <1>1
    <2> HIDE DEF Of
    <2>3. entries \in [1..Len(markets) -> StrikeEntries]
        BY <1>1, <2>2 DEF StrikeEntries, Markets
    <2>4. entries \in Seq(StrikeEntries)
        BY <1>1, <2>3, FunctionIsSeq
    <2>5. strikes' \in {None} \cup Seq(StrikeEntries)
        BY <2>1, <2>4 DEF Of
    <2> DEFINE market == [markets[1] EXCEPT
                              !.floor_f = floor_f, !.floor_c = floor_c, !.cap_c = cap_c]
    <2>6. 1 \in DOMAIN markets
        <3>1. 1..Cardinality(MarketIds) = MarketIds /\ Cardinality(MarketIds) \in Nat
            BY MarketAssumption, FS_CardinalityType
        <3> QED BY <1>1, <3>1, MarketAssumption DEF MarketInvariant
    <2>7. markets' = [markets EXCEPT ![1] = market]
        BY <2>1
    <2>8. market \in Markets /\ market.market_id = 1
        <3>1. PICK old \in Markets : old = markets[1] /\ old.market_id = 1
            BY <1>1, <2>6
        <3> DEFINE floored == [old EXCEPT !.floor_f = floor_f]
                   both == [floored EXCEPT !.floor_c = floor_c]
        <3>2. floored \in Markets /\ floored.market_id = 1
            BY <3>1 DEF Markets
        <3>3. market = [both EXCEPT !.cap_c = cap_c]
            BY <3>1
        <3> HIDE DEF floored, market
        <3>4. both \in Markets /\ both.market_id = 1
            BY <3>2 DEF Markets
        <3> HIDE DEF both
        <3>5. [both EXCEPT !.cap_c = cap_c] \in Markets
            BY <3>4 DEF Markets
        <3>6. [both EXCEPT !.cap_c = cap_c].market_id = 1
            BY <3>4 DEF Markets
        <3> QED BY <3>3, <3>5, <3>6
    <2> HIDE DEF market, entries
    <2> QED BY <1>2, <2>1, <2>5, <2>6, <2>7, <2>8, MarketIsUpdated
        DEF MarketInvariant, MarketTypeOK
<1> QED BY <1>4, <1>5, <1>6, <1>7, <1>8 DEF MarketFold

\* What the checks say of the window and of the strikes reaches a kernel's reading of a market.
LEMMA ChecksBindTheWindow == MarketInvariant => WindowIsOfTheBook
<1> SUFFICES ASSUME MarketInvariant, ValidMarkets, NEW i \in DOMAIN markets
             PROVE  LET read == ReadMarket(markets[i])
                        NoMore(least, levels, asks) ==
                            /\ DOMAIN least = DOMAIN levels
                            /\ \A n \in DOMAIN levels :
                                  /\ least[n].price = levels[n].price
                                  /\ least[n].quantity =< levels[n].quantity
                                  /\ least[n].price + asks[n].price = One
                                  /\ least[n].quantity =< asks[n].quantity
                    IN  /\ read.window_min # None =>
                              /\ NoMore(read.window_min["yes_bids"], read.yes_bid_levels,
                                        read.no_ask_levels)
                              /\ NoMore(read.window_min["no_bids"], read.no_bid_levels,
                                        read.yes_ask_levels)
                        /\ window # None /\ markets[i].book # None => read.window_min # None
                        /\ markets[i].cap_c # None =>
                              read.cap_strike = StrikeRead(None, markets[i].cap_c)
                        /\ markets[i].floor_f # None /\ CapOf(markets[i]) # None =>
                              read.floor_strike =< read.cap_strike
    BY DEF WindowIsOfTheBook
<1> DEFINE book == BookOf(markets[i])
<1>1. /\ markets \in Seq(Markets) /\ Len(markets) \in Nat /\ DOMAIN markets = 1..Len(markets)
      /\ \A k \in DOMAIN markets : markets[k] \in Markets /\ markets[k].market_id = k
    BY LenProperties DEF MarketInvariant, MarketTypeOK
<1>2. /\ book \in Books
      /\ \A side \in Sides : book[side] \in Seq(BookLevels)
    BY <1>1, BooksHaveLevels
\* The window's entry of the market is the one in its place.
<1>3. ASSUME window # None
      PROVE  /\ window.entries[i] \in WindowEntries
             /\ FirstAt(window.entries, {k \in DOMAIN window.entries :
                            window.entries[k].market_id = markets[i].market_id}) =
                    window.entries[i]
             /\ \A side \in Sides : LevelsMatch(window.entries[i].levels[side], book[side])
    <2> DEFINE places == {k \in DOMAIN window.entries :
                              window.entries[k].market_id = markets[i].market_id}
    <2>1. window.entries \in Seq(WindowEntries) /\ Len(window.entries) = Len(markets)
        BY <1>3 DEF MarketInvariant, MarketTypeOK, Windows
    <2>2. DOMAIN window.entries = DOMAIN markets /\ window.entries[i] \in WindowEntries
        BY <1>1, <2>1, LenProperties
    <2>3. /\ \A j, k \in DOMAIN window.entries :
                j # k => window.entries[j].market_id # window.entries[k].market_id
          /\ window.entries[i].market_id = markets[i].market_id
          /\ \A side \in Sides : LevelsMatch(window.entries[i].levels[side], book[side])
        BY <1>3 DEF ValidMarkets, ValidWindow
    <2>4. i \in places /\ \A j \in places : j = i
        BY <2>2, <2>3
    <2> HIDE DEF places
    <2>5. places \subseteq DOMAIN window.entries
        BY DEF places
    <2>6. FirstAt(window.entries, places) = window.entries[i]
        BY <2>1, <2>4, <2>5, OnlyOneIsFound
    <2> QED BY <2>2, <2>3, <2>6 DEF places
<1>4. WindowOf(markets[i]) = IF markets[i].book = None \/ window = None THEN None
                             ELSE window.entries[i].levels
    <2>1. CASE window = None
        BY <2>1 DEF WindowOf
    <2>2. CASE window # None
        <3>1. window.entries[i] # None
            BY <1>3, <2>2, MarketNoneAssumption
        <3> QED BY <1>3, <2>2, <3>1 DEF WindowOf, FirstWhere
    <2> QED BY <2>1, <2>2
<1>5. window # None => window.entries[i].levels # None
    BY <1>3, MarketNoneAssumption DEF WindowEntries
\* Level for level on a side, and the ask that the side makes on the other.
<1>6. ASSUME window # None, NEW side \in Sides, NEW n \in DOMAIN book[side]
      PROVE  LET least == window.entries[i].levels[side]
                 asks == Inverted(book[side])
             IN  /\ DOMAIN least = DOMAIN book[side]
                 /\ least[n].price = book[side][n].price
                 /\ least[n].quantity =< book[side][n].quantity
                 /\ least[n].price + asks[n].price = One
                 /\ least[n].quantity =< asks[n].quantity
    <2> DEFINE least == window.entries[i].levels[side]
               levels == book[side]
    <2>1. LevelsMatch(least, levels)
        BY <1>3, <1>6
    <2>2. levels \in Seq(BookLevels) /\ least \in Seq(BookLevels)
        BY <1>2, <1>3, <1>6 DEF WindowEntries, Books
    <2>3. n \in DOMAIN levels
        BY <1>6
    <2> HIDE DEF least, levels
    <2>4. DOMAIN least = DOMAIN levels
        BY <2>1, <2>2, LenProperties DEF LevelsMatch
    <2>5. levels[n] \in BookLevels
        BY <2>2, <2>3, LenProperties
    <2>6. levels[n].price \in Int /\ levels[n].quantity \in Nat
        <3>1. levels[n].price \in Prices /\ levels[n].quantity \in Nat
            BY <2>5 DEF BookLevels
        <3>2. Prices \subseteq Int
            BY MarketAssumption
        <3> QED BY <3>1, <3>2
    <2>7. least[n].price = levels[n].price /\ least[n].quantity =< levels[n].quantity
        BY <2>1, <2>3 DEF LevelsMatch
    <2>8. /\ Inverted(levels)[n].price = One - levels[n].price
          /\ Inverted(levels)[n].quantity = levels[n].quantity
        BY <2>3 DEF Inverted
    <2>9. least[n].price + Inverted(levels)[n].price = One
        BY <2>6, <2>7, <2>8, MarketAssumption
    <2> QED BY <2>4, <2>7, <2>8, <2>9 DEF least, levels
<1>7. ASSUME window # None, NEW side \in Sides
      PROVE  DOMAIN window.entries[i].levels[side] = DOMAIN book[side]
    <2> DEFINE least == window.entries[i].levels[side]
               levels == book[side]
    <2>1. LevelsMatch(least, levels)
        BY <1>3, <1>7
    <2>2. levels \in Seq(BookLevels) /\ least \in Seq(BookLevels)
        BY <1>2, <1>3, <1>7 DEF WindowEntries, Books
    <2> HIDE DEF least, levels
    <2>3. DOMAIN least = DOMAIN levels
        BY <2>1, <2>2, LenProperties DEF LevelsMatch
    <2> QED BY <2>3 DEF least, levels
\* The cap is the one listed for the market, in one unit, and not below its floor.
<1>8. ASSUME CapOf(markets[i]) # None
      PROVE  /\ CapOf(markets[i]) \in Strikes
             /\ markets[i].cap_c = None
             /\ markets[i].floor_f # None => markets[i].floor_f =< CapOf(markets[i])
    <2> DEFINE places == {k \in DOMAIN strikes : strikes[k].market_id = markets[i].market_id}
    <2>1. strikes # None
        BY <1>8 DEF CapOf
    <2>2. /\ strikes \in Seq(StrikeEntries) /\ Len(strikes) = Len(markets)
          /\ \A k \in DOMAIN markets :
                /\ strikes[k].market_id = markets[k].market_id
                /\ ~(strikes[k].cap_f # None /\ markets[k].cap_c # None)
                /\ markets[k].floor_f # None /\ strikes[k].cap_f # None =>
                      markets[k].floor_f =< strikes[k].cap_f
        BY <2>1 DEF MarketInvariant, MarketTypeOK, ValidMarkets, ValidStrikes
    <2>3. DOMAIN strikes = DOMAIN markets
        BY <1>1, <2>2, LenProperties
    <2>4. i \in places /\ \A j \in places : j = i
        BY <1>1, <2>2, <2>3
    <2> HIDE DEF places
    <2>5. FirstAt(strikes, places) = strikes[i]
        <3>1. places \subseteq DOMAIN strikes
            BY DEF places
        <3> QED BY <2>2, <2>4, <3>1, OnlyOneIsFound
    <2>6. CapOf(markets[i]) = IF strikes[i] = None THEN None ELSE strikes[i].cap_f
        BY <2>1, <2>5 DEF CapOf, FirstWhere, places
    <2>7. CapOf(markets[i]) = strikes[i].cap_f
        BY <1>8, <2>6
    <2>8. strikes[i].cap_f \in Strikes \cup {None}
        <3>1. strikes \in Seq(StrikeEntries) /\ i \in DOMAIN strikes
            BY <2>2, <2>3
        <3>2. strikes[i] \in StrikeEntries
            BY <3>1, LenProperties
        <3> QED BY <3>2 DEF StrikeEntries
    <2> QED BY <1>8, <2>2, <2>7, <2>8
<1>9. /\ ReadMarket(markets[i]).window_min = WindowOf(markets[i])
      /\ ReadMarket(markets[i]).yes_bid_levels = book["yes_bids"]
      /\ ReadMarket(markets[i]).no_bid_levels = book["no_bids"]
      /\ ReadMarket(markets[i]).yes_ask_levels = Inverted(book["no_bids"])
      /\ ReadMarket(markets[i]).no_ask_levels = Inverted(book["yes_bids"])
      /\ ReadMarket(markets[i]).floor_strike =
            StrikeRead(markets[i].floor_f, markets[i].floor_c)
      /\ ReadMarket(markets[i]).cap_strike = StrikeRead(CapOf(markets[i]), markets[i].cap_c)
    BY DEF ReadMarket
<1>10. ASSUME markets[i].cap_c # None
       PROVE  ReadMarket(markets[i]).cap_strike = StrikeRead(None, markets[i].cap_c)
    <2>1. CapOf(markets[i]) = None
        BY <1>8, <1>10
    <2> QED BY <1>9, <2>1
<1>11. ASSUME markets[i].floor_f # None, CapOf(markets[i]) # None
       PROVE  ReadMarket(markets[i]).floor_strike =< ReadMarket(markets[i]).cap_strike
    <2>1. PICK floor \in Int : floor = markets[i].floor_f
        BY <1>1, <1>11, MarketAssumption DEF Markets
    <2>2. PICK cap \in Int : cap = CapOf(markets[i])
        BY <1>8, <1>11, MarketAssumption
    <2>3. floor =< cap
        BY <1>8, <1>11, <2>1, <2>2
    <2>4. /\ ReadMarket(markets[i]).floor_strike = 5 * floor
          /\ ReadMarket(markets[i]).cap_strike = 5 * cap
        BY <1>9, <1>11, <2>1, <2>2 DEF StrikeRead
    <2> QED BY <2>3, <2>4
<1>12. "yes_bids" \in Sides /\ "no_bids" \in Sides
    BY DEF Sides
<1> HIDE DEF book
<1>13. ASSUME WindowOf(markets[i]) # None
       PROVE  window # None /\ WindowOf(markets[i]) = window.entries[i].levels
    BY <1>4, <1>13
<1> QED BY <1>4, <1>5, <1>6, <1>7, <1>9, <1>10, <1>11, <1>12, <1>13

-----------------------------------------------------------------------------
(* The station: temperatures and keys *)

\* Rounding gives a whole number, and finds a whole milli-degree again.
LEMMA RoundedToWhole ==
    /\ \A c \in Int : Rounded(c) \in Int
    /\ \A value \in Int : Ninths(value) \in Int /\ Rounded(Ninths(value)) = value
    /\ DerivedValues \subseteq Int
    /\ \A c \in Temperatures : c \in Int /\ Rounded(c) \in DerivedValues
<1>1. ASSUME NEW c \in Int PROVE Rounded(c) \in Int
    BY DEF Rounded
<1>2. ASSUME NEW value \in Int PROVE Ninths(value) \in Int /\ Rounded(Ninths(value)) = value
    BY DEF Rounded, Ninths
<1>3. \A c \in Temperatures : c \in Int
    BY StationAssumption
<1> QED BY <1>1, <1>2, <1>3 DEF DerivedValues

\* A temperature told in some unit rounds to the owner's value, in the units it is told in
\* and converted.
LEMMA OriginalTells ==
    ASSUME NEW v \in Int, NEW units \in SUBSET {"c", "f"}, units # {}
    PROVE  LET original == OriginalOf(v, units)
           IN  /\ original \in Originals
               /\ original.c # None \/ original.f # None
               /\ Tells(original, Rounded(v))
               /\ Tells(SuppliedExtreme(original).value, Rounded(v))
<1>1. FahrenheitOf(v) \in Int /\ None \notin Int
    BY TimesAssumption DEF FahrenheitOf
<1>2. CelsiusOf(FahrenheitOf(v)) = v
    BY <1>1 DEF CelsiusOf, FahrenheitOf
<1>3. "c" \in units \/ "f" \in units
    OBVIOUS
<1> DEFINE original == OriginalOf(v, units)
<1>4. /\ original.c = IF "c" \in units THEN v ELSE None
      /\ original.f = IF "f" \in units THEN FahrenheitOf(v) ELSE None
      /\ original = [c |-> original.c, f |-> original.f]
    BY DEF OriginalOf
<1> HIDE DEF original
<1>5. /\ original \in Originals /\ (original.c # None \/ original.f # None)
      /\ Tells(original, Rounded(v))
    <2>1. original \in Originals /\ (original.c # None \/ original.f # None)
        BY <1>1, <1>3, <1>4 DEF Originals
    <2>2. Tells(original, Rounded(v))
        BY <1>2, <1>4, <2>1 DEF Tells
    <2> QED BY <2>1, <2>2
<1>6. SuppliedExtreme(original).value =
          [c |-> IF original.c # None THEN original.c ELSE CelsiusOf(original.f),
           f |-> IF original.f # None THEN original.f ELSE FahrenheitOf(original.c)]
    BY DEF SuppliedExtreme
<1>7. SuppliedExtreme(original).value = [c |-> v, f |-> FahrenheitOf(v)]
    BY <1>1, <1>2, <1>3, <1>4, <1>6
<1>8. Tells(SuppliedExtreme(original).value, Rounded(v))
    BY <1>1, <1>2, <1>7 DEF Tells
<1> QED BY <1>5, <1>8 DEF original

\* A derived value is told in both units.
LEMMA DerivedTells ==
    ASSUME NEW v \in DerivedValues PROVE Tells(InBothUnits(v), v)
<1>1. {"c", "f"} \in SUBSET {"c", "f"} /\ {"c", "f"} # {}
    OBVIOUS
<1>2. v \in Int /\ Ninths(v) \in Int /\ Rounded(Ninths(v)) = v
    BY RoundedToWhole
<1>3. Tells(OriginalOf(Ninths(v), {"c", "f"}), Rounded(Ninths(v)))
    BY <1>1, <1>2, OriginalTells
<1> QED BY <1>2, <1>3 DEF InBothUnits

\* A key of one component precedes another as its component does.
LEMMA OneComponent ==
    ASSUME NEW a \in Int, NEW b \in Int
    PROVE  Precedes(<<a>>, <<b>>) <=> a < b
<1>1. DOMAIN <<a>> = {1} /\ <<a>>[1] = a /\ <<b>>[1] = b
    OBVIOUS
<1>2. ASSUME Precedes(<<a>>, <<b>>) PROVE a < b
    <2>1. PICK i \in DOMAIN <<a>> : <<a>>[i] < <<b>>[i]
        BY <1>2 DEF Precedes
    <2>2. i = 1
        BY <1>1, <2>1
    <2> QED BY <1>1, <2>1, <2>2
<1>3. ASSUME a < b PROVE Precedes(<<a>>, <<b>>)
    <2>1. <<a>>[1] < <<b>>[1] /\ 1 \in DOMAIN <<a>>
        BY <1>1, <1>3
    <2>2. \A j \in 1..(1 - 1) : <<a>>[j] = <<b>>[j]
        OBVIOUS
    <2> QED BY <2>1, <2>2 DEF Precedes
<1> QED BY <1>2, <1>3

\* Put in its place in a list of reports, a report replaces those of its type only.
ReportPlaced(list, item) == InPlace(list, item, TypeKey)

OfTypes(S) == \A r \in S : r.type \in Nat

PlacedByType(S, list, item, placed) ==
    /\ placed \in Seq(S)
    /\ \A k \in DOMAIN placed :
          \/ placed[k] = item
          \/ \E i \in DOMAIN list : list[i].type # item.type /\ placed[k] = list[i]
    /\ \E k \in DOMAIN placed : placed[k] = item
    /\ \A i \in DOMAIN list : list[i].type # item.type =>
          \E k \in DOMAIN placed : placed[k] = list[i]

\* A report takes the place of its type: no list ever has two of one type.
LEMMA ReportsInPlace ==
    ASSUME NEW S, OfTypes(S), NEW list \in Seq(S), NEW item \in S
    PROVE  PlacedByType(S, list, item, ReportPlaced(list, item))
<1> DEFINE before == {i \in DOMAIN list : list[i].type < item.type}
           after == {i \in DOMAIN list : item.type < list[i].type}
           spliced == Spliced(list, before, item, after)
<1>3. \A i \in DOMAIN list : list[i].type \in Nat /\ item.type \in Nat
    BY LenProperties DEF OfTypes
<1>1. ReportPlaced(list, item) = spliced
    <2>1. \A i \in DOMAIN list :
             /\ Precedes(TypeKey(list[i]), TypeKey(item)) <=> list[i].type < item.type
             /\ Precedes(TypeKey(item), TypeKey(list[i])) <=> item.type < list[i].type
        BY <1>3, OneComponent DEF TypeKey
    <2>2. /\ {i \in DOMAIN list : Precedes(TypeKey(list[i]), TypeKey(item))} = before
          /\ {i \in DOMAIN list : Precedes(TypeKey(item), TypeKey(list[i]))} = after
        BY <2>1
    <2> HIDE DEF before, after
    <2> QED BY <2>2 DEF ReportPlaced, InPlace, Selected, Spliced
<1>2. /\ spliced \in Seq(S)
      /\ \A k \in DOMAIN spliced : \/ spliced[k] = item
                                   \/ \E i \in before \cup after : spliced[k] = list[i]
      /\ \E k \in DOMAIN spliced : spliced[k] = item
      /\ \A i \in before \cup after : \E k \in DOMAIN spliced : spliced[k] = list[i]
    <2>1. before \in SUBSET (DOMAIN list) /\ after \in SUBSET (DOMAIN list)
        OBVIOUS
    <2> HIDE DEF before, after
    <2>2. HoldsOf(S, list, before \cup after, item, spliced)
        BY <2>1, SplicedHolds
    <2> HIDE DEF spliced
    <2> QED BY <2>2 DEF HoldsOf
<1>4. \A i \in DOMAIN list : list[i].type # item.type <=> i \in before \cup after
    BY <1>3
<1> HIDE DEF before, after, spliced
<1>5. before \subseteq DOMAIN list /\ after \subseteq DOMAIN list
    BY DEF before, after
<1>6. \A k \in DOMAIN spliced :
         spliced[k] = item \/ \E i \in DOMAIN list : list[i].type # item.type
                                                    /\ spliced[k] = list[i]
    BY <1>2, <1>4, <1>5
<1>7. \A i \in DOMAIN list : list[i].type # item.type =>
         \E k \in DOMAIN spliced : spliced[k] = list[i]
    BY <1>2, <1>4
<1> QED BY <1>1, <1>2, <1>6, <1>7 DEF PlacedByType

\* Put in its place in a list of episodes, of forecasts, of issuances or of tables, an item
\* leaves a list of the same kind.
LEMMA ItemsInPlace ==
    ASSUME NEW S, NEW list \in Seq(S), NEW item \in S
    PROVE  /\ InPlace(list, item, EpisodeKey) \in Seq(S)
           /\ InPlace(list, item, RankKey) \in Seq(S)
           /\ ElementsAt(list, {i \in DOMAIN list : list[i].id # item.id}) \in Seq(S)
<1>1. ASSUME NEW before \in SUBSET (DOMAIN list), NEW after \in SUBSET (DOMAIN list)
      PROVE  ElementsAt(list, before) \o <<item>> \o ElementsAt(list, after) \in Seq(S)
    BY SplicedHolds DEF Spliced, HoldsOf
<1>2. InPlace(list, item, EpisodeKey) \in Seq(S)
    BY <1>1 DEF InPlace, Selected
<1>3. InPlace(list, item, RankKey) \in Seq(S)
    BY <1>1 DEF InPlace, Selected
<1> QED BY <1>2, <1>3, ElementsAreSelected

-----------------------------------------------------------------------------
(* The station: its invariant *)

CountersStarted(s) ==
    /\ s.generation # 0 /\ s.sequence # 0 /\ s.revision # 0
    /\ \A kind \in Components : s.metas[kind].revision # 0 /\ s.metas[kind].generation # 0

\* An original is of a report the owner has, of its revision or an earlier one; the one of its
\* revision tells its value.
TellsReport(original, report) ==
    report.type = original.type =>
        /\ original.revision =< report.revision
        /\ original.revision = report.revision => Tells(original.value, report.value)

OriginalsAreOfReports(s) ==
    \A i \in DOMAIN s.supplied.reports :
        /\ \E k \in DOMAIN s.reports : s.reports[k].type = s.supplied.reports[i].type
        /\ \A k \in DOMAIN s.reports : TellsReport(s.supplied.reports[i], s.reports[k])

DailyIsOriginal(s) ==
    s.supplied.daily # None =>
        /\ s.running_high # None
        /\ \E v \in Temperatures : s.supplied.daily \in DailyOriginals(v)

StationInvariant ==
    /\ StationTypeOK
    /\ CountersStarted(station)
    /\ AcceptedStaysCurrent
    /\ OriginalsAreOfReports(station)
    /\ DailyIsOriginal(station)
    /\ CapturedStaysDeliverable

\* What the parts of a station are of, by name.
StationMetas == [Components -> Metas]
Observations == {None} \cup [at : Times, value : DerivedValues]
RunningHighs == {None} \cup DerivedValues
OptionalTables == {None} \cup OracleTables

\* A station is a record of these parts.
LEMMA StationParts ==
    StationRecords =
        [generation : Nat, sequence : Nat, revision : Nat, metas : StationMetas,
         observation : Observations, running_high : RunningHighs, high : Observations,
         reports : Seq(StationReports), episodes : Seq(StationEpisodes),
         forecast : Seq(ForecastVersions), issuance : Seq(ForecastIssuances),
         oracle : OptionalTables, oracles : Seq(OracleInputs), facts : WeatherFacts,
         supplied : SuppliedStations]
BY DEF StationRecords, StationMetas, Observations, RunningHighs, OptionalTables

\* A later station of the owner: its counters went on, or its connection started over.
Follows(s, t) ==
    \/ s.generation < t.generation
    \/ /\ s.generation = t.generation
       /\ s.revision =< t.revision
       /\ \A kind \in Components :
             /\ s.metas[kind].revision =< t.metas[kind].revision
             /\ s.metas[kind].generation =< t.metas[kind].generation

\* What an advance changes, and what it leaves.
AdvancedFrom(s, kind, t) ==
    /\ t \in StationRecords
    /\ t.generation = s.generation
    /\ t.sequence = s.sequence + 1
    /\ t.revision = s.revision + 1
    /\ t.metas[kind].revision = s.metas[kind].revision + 1
    /\ \A k \in Components : k # kind => t.metas[k].revision = s.metas[k].revision
    /\ \A k \in Components : t.metas[k].generation = s.metas[k].generation
    /\ t.observation = s.observation /\ t.running_high = s.running_high /\ t.high = s.high
    /\ t.reports = s.reports /\ t.episodes = s.episodes
    /\ t.forecast = s.forecast /\ t.issuance = s.issuance
    /\ t.oracle = s.oracle /\ t.oracles = s.oracles
    /\ t.facts = s.facts /\ t.supplied = s.supplied

\* An update advances the counters of the station and of the part it is about, no other's.
LEMMA Advancing ==
    ASSUME NEW s \in StationRecords, NEW kind \in Components
    PROVE  AdvancedFrom(s, kind, Advanced(s, kind)) /\ Follows(s, Advanced(s, kind))
<1> DEFINE meta == [s.metas[kind] EXCEPT !.revision = s.metas[kind].revision + 1]
           metas == [s.metas EXCEPT ![kind] = meta]
           t == [s EXCEPT !.sequence = s.sequence + 1, !.revision = s.revision + 1,
                          !.metas = metas]
<1>1. Advanced(s, kind) = t
    BY DEF Advanced
<1>2. /\ s.generation \in Nat /\ s.sequence \in Nat /\ s.revision \in Nat
      /\ s.metas \in [Components -> Metas]
      /\ \A k \in Components : /\ s.metas[k] \in Metas
                               /\ s.metas[k].revision \in Nat /\ s.metas[k].generation \in Nat
    BY DEF StationRecords, Metas
<1>3. /\ meta \in Metas
      /\ meta.revision = s.metas[kind].revision + 1
      /\ meta.generation = s.metas[kind].generation
    BY <1>2 DEF Metas
<1> HIDE DEF meta
<1>4. /\ metas \in [Components -> Metas]
      /\ metas[kind] = meta
      /\ \A k \in Components : k # kind => metas[k] = s.metas[k]
    BY <1>2, <1>3
<1> HIDE DEF metas
<1>5. /\ t \in StationRecords
      /\ t.generation = s.generation
      /\ t.sequence = s.sequence + 1
      /\ t.revision = s.revision + 1
      /\ t.metas = metas
      /\ t.observation = s.observation /\ t.running_high = s.running_high /\ t.high = s.high
      /\ t.reports = s.reports /\ t.episodes = s.episodes
      /\ t.forecast = s.forecast /\ t.issuance = s.issuance
      /\ t.oracle = s.oracle /\ t.oracles = s.oracles
      /\ t.facts = s.facts /\ t.supplied = s.supplied
    <2>1. metas \in StationMetas
        BY <1>4 DEF StationMetas
    <2>2. s.sequence + 1 \in Nat /\ s.revision + 1 \in Nat
        BY <1>2
    <2>3. t \in StationRecords
        BY <2>1, <2>2, StationParts
    <2>4. /\ t.generation = s.generation /\ t.sequence = s.sequence + 1
          /\ t.revision = s.revision + 1 /\ t.metas = metas
        BY StationParts
    <2> QED BY <2>3, <2>4, StationParts
<1> HIDE DEF t
<1>6. AdvancedFrom(s, kind, t)
    BY <1>3, <1>4, <1>5 DEF AdvancedFrom
<1>7. Follows(s, t)
    BY <1>2, <1>3, <1>4, <1>5 DEF Follows
<1> QED BY <1>1, <1>6, <1>7

\* What was not ahead of the station stays so.
LEMMA NotAheadLasts ==
    ASSUME NEW s \in StationRecords, NEW t \in StationRecords, Follows(s, t),
           NEW generation \in Nat, NEW revision \in Nat, NotAhead(generation, revision, s)
    PROVE  NotAhead(generation, revision, t)
<1>1. /\ s.generation \in Nat /\ t.generation \in Nat
      /\ s.revision \in Nat /\ t.revision \in Nat
    BY DEF StationRecords
<1> QED BY <1>1 DEF NotAhead, Follows

\* A packet tells its own update, and may be delivered beside a station.
TellsItself(packet) ==
    IF packet.data.kind = "weather_events"
    THEN PacketEvent(packet).told.state = packet.data.state
    ELSE Tells(PacketEvent(packet).told.value, packet.data.value)

TriggerOf(packet) ==
    [generation |-> packet.source_generation, sequence |-> packet.source_sequence]

Deliverable(packet, s) ==
    /\ ValidPacket(packet, TriggerOf(packet), s)
    /\ TellsItself(packet)
    /\ PacketEvent(packet).acceptance.generation =< s.generation

\* All captured packets can be delivered just if each one can.
LEMMA AllDeliverable ==
    CapturedStaysDeliverable <=> \A i \in DOMAIN captured : Deliverable(captured[i], station)
BY DEF CapturedStaysDeliverable, Deliverable, TellsItself, TriggerOf

\* A packet that waits may be delivered beside every later station.
LEMMA PacketsLast ==
    ASSUME NEW s \in StationRecords, NEW t \in StationRecords, Follows(s, t),
           NEW packet \in Packets, Deliverable(packet, s)
    PROVE  Deliverable(packet, t)
<1>1. /\ packet.cursor.generation \in Nat /\ packet.station_revision \in Nat
      /\ packet.meta.revision \in Nat /\ packet.meta.generation \in Nat
    BY DEF Packets, Metas
<1>2. packet.data.kind \in Components
    BY DEF Packets, PacketData, Components
<1>3. /\ s.generation \in Nat /\ t.generation \in Nat
      /\ \A k \in Components : /\ s.metas[k].revision \in Nat /\ s.metas[k].generation \in Nat
                               /\ t.metas[k].revision \in Nat /\ t.metas[k].generation \in Nat
    <2>1. s.metas \in StationMetas /\ t.metas \in StationMetas
        BY StationParts
    <2>2. s.generation \in Nat /\ t.generation \in Nat
        BY StationParts
    <2> QED BY <2>1, <2>2 DEF StationMetas, Metas
<1>4. ValidPacket(packet, TriggerOf(packet), s)
    BY DEF Deliverable
<1>5. NotAhead(packet.cursor.generation, packet.station_revision, t)
    <2>1. NotAhead(packet.cursor.generation, packet.station_revision, s)
        BY <1>4 DEF ValidPacket
    <2> QED BY <1>1, <2>1, NotAheadLasts
<1>6. packet.cursor.generation = t.generation =>
          /\ packet.meta.revision =< t.metas[packet.data.kind].revision
          /\ packet.meta.generation =< t.metas[packet.data.kind].generation
    <2> SUFFICES ASSUME packet.cursor.generation = t.generation
                 PROVE  /\ packet.meta.revision =< t.metas[packet.data.kind].revision
                        /\ packet.meta.generation =< t.metas[packet.data.kind].generation
        OBVIOUS
    <2>1. packet.cursor.generation =< s.generation
        BY <1>4 DEF ValidPacket, NotAhead
    <2>2. /\ s.generation = t.generation
          /\ s.metas[packet.data.kind].revision =< t.metas[packet.data.kind].revision
          /\ s.metas[packet.data.kind].generation =< t.metas[packet.data.kind].generation
        BY <1>1, <1>2, <1>3, <2>1 DEF Follows
    <2>3. /\ packet.meta.revision =< s.metas[packet.data.kind].revision
          /\ packet.meta.generation =< s.metas[packet.data.kind].generation
        BY <1>4, <2>2 DEF ValidPacket
    <2> QED BY <1>1, <1>2, <1>3, <2>2, <2>3
<1>7. ValidPacket(packet, TriggerOf(packet), t)
    BY <1>4, <1>5, <1>6 DEF ValidPacket
<1>8. PacketEvent(packet).acceptance.generation = packet.cursor.generation
    BY DEF PacketEvent
<1>9. packet.cursor.generation =< t.generation
    BY <1>5 DEF NotAhead
<1> QED BY <1>7, <1>8, <1>9 DEF Deliverable

\* The issuance of a forecast stays admissible while the forecast stays as it is.
LEMMA IssuanceLasts ==
    ASSUME NEW s \in StationRecords, NEW t \in StationRecords, Follows(s, t),
           t.forecast = s.forecast, t.issuance = s.issuance, ValidIssuance(s)
    PROVE  ValidIssuance(t)
<1>1. /\ s.issuance \in Seq(ForecastIssuances)
      /\ s.generation \in Nat /\ t.generation \in Nat
      /\ s.metas \in StationMetas /\ t.metas \in StationMetas
      /\ s.forecast \in Seq(ForecastVersions)
    BY StationParts
<1>2. /\ s.metas["forecast"].generation \in Nat /\ t.metas["forecast"].generation \in Nat
      /\ "forecast" \in Components
    BY <1>1 DEF StationMetas, Metas, Components
<1>3. Len(s.issuance) = Len(s.forecast)
    BY DEF ValidIssuance
<1>4. ASSUME NEW i \in DOMAIN s.forecast
      PROVE  /\ NotAhead(s.issuance[i].station_generation, s.issuance[i].station_revision, t)
             /\ s.issuance[i].station_generation = t.generation =>
                   s.issuance[i].forecast_generation =< t.metas["forecast"].generation
    <2> DEFINE issued == s.issuance[i]
    <2>1. issued \in ForecastIssuances
        BY <1>1, <1>3, <1>4, LenProperties
    <2>2. /\ issued.station_generation \in Nat /\ issued.station_revision \in Nat
          /\ issued.forecast_generation \in Nat
        BY <2>1 DEF ForecastIssuances
    <2>3. /\ NotAhead(issued.station_generation, issued.station_revision, s)
          /\ issued.station_generation = s.generation =>
                issued.forecast_generation =< s.metas["forecast"].generation
        BY <1>4 DEF ValidIssuance
    <2>4. NotAhead(issued.station_generation, issued.station_revision, t)
        <3> HIDE DEF issued
        <3> QED BY <2>2, <2>3, NotAheadLasts
    <2>5. issued.station_generation = t.generation =>
              issued.forecast_generation =< t.metas["forecast"].generation
        <3> HIDE DEF issued
        <3> SUFFICES ASSUME issued.station_generation = t.generation
                     PROVE  issued.forecast_generation =< t.metas["forecast"].generation
            OBVIOUS
        <3>1. issued.station_generation =< s.generation
            BY <2>3 DEF NotAhead
        <3>2. /\ s.generation = t.generation
              /\ s.metas["forecast"].generation =< t.metas["forecast"].generation
            BY <1>1, <1>2, <2>2, <3>1 DEF Follows
        <3> QED BY <1>2, <2>2, <2>3, <3>2
    <2> QED BY <2>4, <2>5
<1> QED BY <1>4 DEF ValidIssuance

\* A winner is kept, or wins with the station's own counters.
HasAUnit(value) == value \in Originals /\ (value.c # None \/ value.f # None)

KeptOrWon(s, t) ==
    \A field \in WeatherFields :
        \/ t.facts[field] = s.facts[field]
        \/ \E v \in Originals : HasAUnit(v) /\ t.facts[field] = FactOf(v, t.generation, t.revision)

\* The winners of a station stay admissible when they are kept or win now.
LEMMA WinnersLast ==
    ASSUME NEW s \in StationRecords, NEW t \in StationRecords, Follows(s, t),
           t.generation # 0, t.revision # 0, ValidCurrentWeather(s), KeptOrWon(s, t)
    PROVE  ValidCurrentWeather(t)
<1>1. s.facts \in WeatherFacts /\ t.generation \in Nat /\ t.revision \in Nat
    BY StationParts
<1>2. ASSUME NEW field \in WeatherFields, t.facts[field] # None
      PROVE  /\ t.facts[field].value.c # None \/ t.facts[field].value.f # None
             /\ t.facts[field].owner_generation # 0 /\ t.facts[field].owner_revision # 0
             /\ NotAhead(t.facts[field].owner_generation, t.facts[field].owner_revision, t)
    <2>1. CASE t.facts[field] = s.facts[field]
        <3> DEFINE fact == s.facts[field]
        <3>1. fact \in Facts
            BY <1>1, <1>2, <2>1 DEF WeatherFacts
        <3>2. fact.owner_generation \in Nat /\ fact.owner_revision \in Nat
            BY <3>1 DEF Facts
        <3>3. /\ fact.value.c # None \/ fact.value.f # None
              /\ fact.owner_generation # 0 /\ fact.owner_revision # 0
              /\ NotAhead(fact.owner_generation, fact.owner_revision, s)
            BY <1>2, <2>1 DEF ValidCurrentWeather, ValuesAreValid
        <3>4. NotAhead(fact.owner_generation, fact.owner_revision, t)
            <4> HIDE DEF fact
            <4> QED BY <3>2, <3>3, NotAheadLasts
        <3> QED BY <2>1, <3>3, <3>4
    <2>2. ASSUME NEW v \in Originals, HasAUnit(v),
                 t.facts[field] = FactOf(v, t.generation, t.revision)
          PROVE  /\ t.facts[field].value.c # None \/ t.facts[field].value.f # None
                 /\ t.facts[field].owner_generation # 0 /\ t.facts[field].owner_revision # 0
                 /\ NotAhead(t.facts[field].owner_generation, t.facts[field].owner_revision, t)
        <3>1. /\ t.facts[field].value = v
              /\ t.facts[field].owner_generation = t.generation
              /\ t.facts[field].owner_revision = t.revision
            BY <2>2 DEF FactOf
        <3> QED BY <1>1, <2>2, <3>1 DEF NotAhead, HasAUnit
    <2> QED BY <2>1, <2>2 DEF KeptOrWon
<1> QED BY <1>2 DEF ValidCurrentWeather, ValuesAreValid

\* What winners an update of some fields leaves, and what is then last accepted.
WinnersKept(facts, won, told, value, generation, revision) ==
    /\ won \in WeatherFacts
    /\ told \in [WeatherFields -> {None} \cup Originals]
    /\ \A field \in WeatherFields :
          \/ won[field] = facts[field]
          \/ HasAUnit(value) /\ won[field] = FactOf(value, generation, revision)
    /\ \A field \in WeatherFields :
          told[field] = IF won[field] = None THEN None ELSE won[field].value

\* The fields an update wins show what it told of them; the others show what they showed.
LEMMA WinnersAccept ==
    ASSUME NEW facts \in WeatherFacts, NEW generation \in Nat, NEW revision \in Nat,
           NEW fields \in SUBSET WeatherFields, NEW value, fields # {} => HasAUnit(value),
           accepted \in [WeatherFields -> {None} \cup Originals],
           \A field \in WeatherFields :
              accepted[field] = IF facts[field] = None THEN None ELSE facts[field].value
    PROVE  WinnersKept(facts, AcceptFacts(facts, Telling(fields, value), generation, revision),
                       AcceptedValues(Telling(fields, value)), value, generation, revision)
<1> DEFINE fact == FactOf(value, generation, revision)
           update == Telling(fields, value)
           won == AcceptFacts(facts, update, generation, revision)
           told == AcceptedValues(update)
<1>1. DOMAIN update = fields /\ \A field \in fields : update[field] = value
    BY DEF Telling
<1>2. fields # {} => fact \in Facts /\ fact.value = value /\ fact # None
    BY StationNoneAssumption DEF Facts, FactOf, HasAUnit
<1>3. \A field \in WeatherFields : /\ won[field] = IF field \in fields THEN fact ELSE facts[field]
                                  /\ told[field] = IF field \in fields THEN value
                                                   ELSE accepted[field]
    BY <1>1 DEF AcceptFacts, AcceptedValues
<1>4. \A field \in WeatherFields : facts[field] \in {None} \cup Facts
    BY DEF WeatherFacts
<1>5. DOMAIN won = WeatherFields /\ DOMAIN told = WeatherFields
    BY DEF AcceptFacts, AcceptedValues
<1>6. /\ won = [field \in WeatherFields |-> won[field]]
      /\ told = [field \in WeatherFields |-> told[field]]
    BY DEF AcceptFacts, AcceptedValues
<1> HIDE DEF fact, update, won, told
<1>7. won \in WeatherFacts
    BY <1>2, <1>3, <1>4, <1>6 DEF WeatherFacts
<1>8. told \in [WeatherFields -> {None} \cup Originals]
    BY <1>3, <1>6 DEF HasAUnit
<1>9. \A field \in WeatherFields :
         \/ won[field] = facts[field]
         \/ HasAUnit(value) /\ won[field] = FactOf(value, generation, revision)
    BY <1>3 DEF fact
<1>10. \A field \in WeatherFields :
          told[field] = IF won[field] = None THEN None ELSE won[field].value
    BY <1>2, <1>3
<1> QED BY <1>7, <1>8, <1>9, <1>10 DEF WinnersKept, won, told, update

\* What every update leaves the station with, but for what it is about.
StaysCurrent ==
    /\ station' \in StationRecords
    /\ accepted' \in [WeatherFields -> {None} \cup Originals]
    /\ CountersStarted(station')
    /\ AcceptedStaysCurrent'

\* An update of the winners, beside a change of what they do not tell.
LEMMA WinnersStay ==
    ASSUME StationTypeOK, CountersStarted(station), AcceptedStaysCurrent,
           NEW t \in StationRecords, Follows(station, t), CountersStarted(t),
           t.facts = station.facts, t.forecast = station.forecast,
           t.issuance = station.issuance,
           NEW fields \in SUBSET WeatherFields, NEW value, fields # {} => HasAUnit(value),
           station' = [t EXCEPT !.facts =
               AcceptFacts(t.facts, Telling(fields, value), t.generation, t.revision)],
           accepted' = AcceptedValues(Telling(fields, value))
    PROVE  /\ StaysCurrent
           /\ Follows(station, station')
           /\ station'.generation = t.generation /\ station'.sequence = t.sequence
           /\ station'.revision = t.revision /\ station'.metas = t.metas
           /\ station'.reports = t.reports /\ station'.supplied = t.supplied
           /\ station'.running_high = t.running_high
<1> DEFINE won == AcceptFacts(t.facts, Telling(fields, value), t.generation, t.revision)
<1>1. /\ station.facts \in WeatherFacts /\ t.generation \in Nat /\ t.revision \in Nat
      /\ station \in StationRecords
    BY StationParts DEF StationTypeOK
<1>2. WinnersKept(station.facts, won, accepted', value, t.generation, t.revision)
    <2>1. accepted \in [WeatherFields -> {None} \cup Originals]
        BY DEF StationTypeOK
    <2>2. \A field \in WeatherFields :
             accepted[field] = IF station.facts[field] = None THEN None
                               ELSE station.facts[field].value
        BY DEF AcceptedStaysCurrent
    <2> QED BY <1>1, <2>1, <2>2, WinnersAccept
<1> HIDE DEF won
<1>3. station' = [t EXCEPT !.facts = won]
    BY DEF won
<1>4. won \in WeatherFacts
    BY <1>2 DEF WinnersKept
<1>5. station' \in StationRecords
    BY <1>3, <1>4, StationParts
<1>6. /\ station'.generation = t.generation /\ station'.sequence = t.sequence
      /\ station'.revision = t.revision /\ station'.metas = t.metas
      /\ station'.facts = won
      /\ station'.forecast = t.forecast /\ station'.issuance = t.issuance
      /\ station'.reports = t.reports /\ station'.supplied = t.supplied
      /\ station'.running_high = t.running_high
    BY <1>3, StationParts
<1> DEFINE u == station'
<1> HIDE DEF u
<1>7. u = station'
    BY DEF u
<1>8. Follows(station, u)
    BY <1>6, <1>7 DEF Follows
<1>9. CountersStarted(u)
    BY <1>6, <1>7 DEF CountersStarted
<1>10. ValidIssuance(u)
    <2>1. ValidIssuance(station) /\ u.forecast = station.forecast /\ u.issuance = station.issuance
        BY <1>6, <1>7 DEF AcceptedStaysCurrent
    <2> QED BY <1>1, <1>5, <1>7, <1>8, <2>1, IssuanceLasts
<1>11. ValidCurrentWeather(u)
    <2>1. ValidCurrentWeather(station)
        BY DEF AcceptedStaysCurrent
    <2>2. u.generation # 0 /\ u.revision # 0
        BY <1>9 DEF CountersStarted
    <2>3. KeptOrWon(station, u)
        BY <1>2, <1>6, <1>7 DEF WinnersKept, HasAUnit, KeptOrWon
    <2> QED BY <1>1, <1>5, <1>7, <1>8, <2>1, <2>2, <2>3, WinnersLast
<1>12. \A field \in WeatherFields :
          accepted'[field] = IF station'.facts[field] = None THEN None
                             ELSE station'.facts[field].value
    BY <1>2, <1>6 DEF WinnersKept
<1>13. accepted' \in [WeatherFields -> {None} \cup Originals]
    BY <1>2 DEF WinnersKept
<1>14. AcceptedStaysCurrent'
    BY <1>7, <1>10, <1>11, <1>12 DEF AcceptedStaysCurrent
<1> QED BY <1>5, <1>6, <1>7, <1>8, <1>9, <1>13, <1>14 DEF StaysCurrent

\* The packet of an update: it tells what it is about, with the counters of the station that
\* accepted it.
AsTold(data, original) ==
    \A packet : packet.data = data /\ packet.original = original => TellsItself(packet)

IsOf(data, original, sequence) ==
    original # None => SameSubject(data, original) /\ original.sequence = sequence

PacketOf(data, original, update, s) ==
    [data |-> data, original |-> original,
     source_generation |-> s.generation, source_sequence |-> s.sequence,
     cursor |-> [generation |-> s.generation, sequence |-> s.sequence],
     station_revision |-> s.revision, meta |-> s.metas[data.kind],
     facts |-> [field \in WeatherFields |->
         IF field \in DOMAIN update
         THEN FactOf(update[field], s.generation, s.revision) ELSE None]]

\* The packet of an update can be delivered to the station that update leaves.
LEMMA PacketIsDeliverable ==
    ASSUME NEW s \in StationRecords, NEW t \in StationRecords,
           CountersStarted(t), t.generation = s.generation, t.sequence = s.sequence,
           t.revision = s.revision, t.metas = s.metas,
           NEW data \in PacketData, NEW original \in {None} \cup PacketOriginals,
           IsOf(data, original, s.sequence), AsTold(data, original),
           NEW fields \in SUBSET WeatherFields, NEW value, fields # {} => HasAUnit(value)
    PROVE  /\ PacketOf(data, original, Telling(fields, value), s) \in Packets
           /\ Deliverable(PacketOf(data, original, Telling(fields, value), s), t)
<1> DEFINE packet == PacketOf(data, original, Telling(fields, value), s)
           fact == FactOf(value, s.generation, s.revision)
           facts == [field \in WeatherFields |-> IF field \in fields THEN fact ELSE None]
<1>1. /\ s.generation \in Nat /\ s.sequence \in Nat /\ s.revision \in Nat
      /\ s.metas \in StationMetas /\ data.kind \in Components
    <2>1. data.kind \in Components
        BY DEF PacketData, Components
    <2> QED BY <2>1, StationParts
<1>2. s.metas[data.kind] \in Metas
    BY <1>1 DEF StationMetas
<1>3. /\ s.generation # 0 /\ s.sequence # 0 /\ s.revision # 0
      /\ s.metas[data.kind].revision # 0 /\ s.metas[data.kind].generation # 0
    BY <1>1 DEF CountersStarted
<1>4. fields # {} => /\ fact \in Facts /\ fact.value = value /\ HasAUnit(value)
                     /\ fact.owner_generation = s.generation
                     /\ fact.owner_revision = s.revision
    BY <1>1 DEF Facts, FactOf, HasAUnit
<1>5. packet = [data |-> data, original |-> original,
                source_generation |-> s.generation, source_sequence |-> s.sequence,
                cursor |-> [generation |-> s.generation, sequence |-> s.sequence],
                station_revision |-> s.revision, meta |-> s.metas[data.kind],
                facts |-> facts]
    BY DEF PacketOf, Telling
<1> HIDE DEF packet, fact
<1>6. facts \in WeatherFacts
    BY <1>4 DEF WeatherFacts
<1>7. \A field \in WeatherFields : facts[field] = IF field \in fields THEN fact ELSE None
    OBVIOUS
<1> HIDE DEF facts
<1>8. packet \in Packets
    BY <1>1, <1>2, <1>5, <1>6 DEF Packets
<1>9. /\ packet.data = data /\ packet.original = original
      /\ packet.source_generation = s.generation /\ packet.source_sequence = s.sequence
      /\ packet.cursor = [generation |-> s.generation, sequence |-> s.sequence]
      /\ packet.station_revision = s.revision /\ packet.meta = s.metas[data.kind]
      /\ packet.facts = facts
    BY <1>5
<1>10. /\ packet.cursor.generation = s.generation /\ packet.cursor.sequence = s.sequence
    BY <1>9
<1>11. TellsItself(packet)
    BY <1>9 DEF AsTold
<1>12. PacketEvent(packet).acceptance.generation =< t.generation
    <2>1. PacketEvent(packet).acceptance.generation = packet.cursor.generation
        BY DEF PacketEvent
    <2> QED BY <1>1, <1>10, <2>1
<1>13. ValuesAreValid(facts)
    BY <1>4, <1>7 DEF ValuesAreValid, HasAUnit
<1>14. \A field \in WeatherFields : facts[field] # None =>
          /\ facts[field].owner_generation = s.generation
          /\ facts[field].owner_revision = s.revision
    BY <1>4, <1>7
<1>15. NotAhead(s.generation, s.revision, t)
    BY <1>1 DEF NotAhead
<1>16. /\ s.metas[data.kind].revision =< t.metas[data.kind].revision
       /\ s.metas[data.kind].generation =< t.metas[data.kind].generation
    BY <1>2 DEF Metas
<1>17. original # None => SameSubject(data, original) /\ original.sequence = s.sequence
    BY DEF IsOf
<1>18. ValidPacket(packet, TriggerOf(packet), t)
    BY <1>3, <1>9, <1>10, <1>13, <1>14, <1>15, <1>16, <1>17 DEF ValidPacket, TriggerOf
<1> QED BY <1>8, <1>11, <1>12, <1>18 DEF Deliverable, packet

\* An update that is captured leaves the station current, and every packet deliverable.
LEMMA AcceptKeeps ==
    ASSUME StationInvariant, NEW changed \in StationRecords,
           changed.generation = station.generation, changed.sequence = station.sequence,
           changed.revision = station.revision, changed.metas = station.metas,
           changed.facts = station.facts, changed.forecast = station.forecast,
           changed.issuance = station.issuance,
           NEW data \in PacketData, NEW original \in {None} \cup PacketOriginals,
           IsOf(data, original, station.sequence + 1), AsTold(data, original),
           NEW fields \in SUBSET WeatherFields, NEW value, fields # {} => HasAUnit(value),
           Accept(changed, data, original, Telling(fields, value))
    PROVE  /\ StaysCurrent
           /\ captured' \in Seq(Packets)
           /\ CapturedStaysDeliverable'
           /\ station'.reports = changed.reports /\ station'.supplied = changed.supplied
           /\ station'.running_high = changed.running_high
<1> DEFINE t == Advanced(changed, data.kind)
           packet == PacketOf(data, original, Telling(fields, value), t)
<1>1. data.kind \in Components
    BY DEF PacketData, Components
<1>2. AdvancedFrom(changed, data.kind, t)
    BY <1>1, Advancing
<1>3. Follows(changed, t)
    BY <1>1, Advancing
<1>4. /\ station' = [t EXCEPT !.facts =
             AcceptFacts(t.facts, Telling(fields, value), t.generation, t.revision)]
      /\ captured' = Append(captured, packet)
      /\ accepted' = AcceptedValues(Telling(fields, value))
    BY DEF Accept, PacketOf
<1> HIDE DEF t, packet
<1>5. /\ StationTypeOK /\ CountersStarted(station) /\ AcceptedStaysCurrent
      /\ CapturedStaysDeliverable /\ station \in StationRecords /\ captured \in Seq(Packets)
    BY DEF StationInvariant, StationTypeOK
<1>6. /\ t \in StationRecords /\ t.facts = station.facts /\ t.forecast = station.forecast
      /\ t.issuance = station.issuance /\ t.sequence = station.sequence + 1
      /\ t.reports = changed.reports /\ t.supplied = changed.supplied
      /\ t.running_high = changed.running_high
    BY <1>2 DEF AdvancedFrom
<1>7. Follows(station, t)
    BY <1>3 DEF Follows
<1>8. CountersStarted(t)
    <2>1. /\ station.generation \in Nat /\ station.sequence \in Nat /\ station.revision \in Nat
          /\ station.metas \in StationMetas
        BY <1>5, StationParts
    <2>2. \A k \in Components : station.metas[k].revision \in Nat
        BY <2>1 DEF StationMetas, Metas
    <2> QED BY <1>2, <1>5, <2>1, <2>2 DEF CountersStarted, AdvancedFrom
<1>9. /\ StaysCurrent
      /\ Follows(station, station')
      /\ station'.generation = t.generation /\ station'.sequence = t.sequence
      /\ station'.revision = t.revision /\ station'.metas = t.metas
      /\ station'.reports = t.reports /\ station'.supplied = t.supplied
      /\ station'.running_high = t.running_high
    BY <1>4, <1>5, <1>6, <1>7, <1>8, WinnersStay
<1> DEFINE u == station'
<1> HIDE DEF u
<1>10. u \in StationRecords /\ CountersStarted(u) /\ u = station'
    BY <1>9 DEF StaysCurrent, u
<1>11. packet \in Packets /\ Deliverable(packet, u)
    <2>1. IsOf(data, original, t.sequence)
        BY <1>6
    <2>2. /\ u.generation = t.generation /\ u.sequence = t.sequence
          /\ u.revision = t.revision /\ u.metas = t.metas
        BY <1>9, <1>10
    <2> QED BY <1>6, <1>10, <2>1, <2>2, PacketIsDeliverable DEF packet
<1>12. captured' \in Seq(Packets)
    BY <1>4, <1>5, <1>11
<1>13. ASSUME NEW i \in DOMAIN captured' PROVE Deliverable(captured'[i], u)
    <2>1. /\ DOMAIN captured = 1..Len(captured) /\ Len(captured) \in Nat
          /\ DOMAIN captured' = 1..(Len(captured) + 1)
          /\ captured'[Len(captured) + 1] = packet
          /\ \A k \in 1..Len(captured) : captured'[k] = captured[k]
        BY <1>4, <1>5, <1>11, AppendProperties, LenProperties
    <2>2. CASE i = Len(captured) + 1
        BY <1>11, <2>1, <2>2
    <2>3. CASE i \in DOMAIN captured
        <3>1. captured[i] \in Packets
            BY <1>5, <2>3, LenProperties
        <3>2. Deliverable(captured[i], station)
            BY <1>5, <2>3, AllDeliverable
        <3>3. Follows(station, u)
            BY <1>9, <1>10
        <3>4. Deliverable(captured[i], u)
            BY <1>5, <1>10, <3>1, <3>2, <3>3, PacketsLast
        <3> QED BY <2>1, <2>3, <3>4
    <2> QED BY <1>13, <2>1, <2>2, <2>3
<1>14. CapturedStaysDeliverable'
    BY <1>10, <1>13 DEF CapturedStaysDeliverable, Deliverable, TellsItself, TriggerOf
<1> QED BY <1>6, <1>9, <1>12, <1>14

\* A supplied station is a record of these parts.
LEMMA SuppliedParts ==
    SuppliedStations =
        [high : {None} \cup Originals,
         observation : {None} \cup [at : Times, value : Originals],
         daily : {None} \cup Originals,
         reports : Seq(SuppliedReports), episodes : Seq(StationEpisodes)]
BY DEF SuppliedStations

\* What a station's invariant is made of after an update.
LEMMA StationStays ==
    ASSUME StaysCurrent, captured' \in Seq(Packets), CapturedStaysDeliverable',
           OriginalsAreOfReports(station'), DailyIsOriginal(station')
    PROVE  StationInvariant'
<1>1. /\ StationTypeOK' /\ CountersStarted(station)' /\ AcceptedStaysCurrent'
    BY DEF StaysCurrent, StationTypeOK
<1>2. OriginalsAreOfReports(station)' /\ DailyIsOriginal(station)'
    OBVIOUS
<1> QED BY <1>1, <1>2 DEF StationInvariant

\* What an update is captured with tells what it is about.
LEMMA ObservationIsTold ==
    ASSUME NEW c \in Int, NEW v \in DerivedValues, v = Rounded(c), NEW at,
           NEW original, original = None \/ original.value = OriginalOf(c, {"f"})
    PROVE  AsTold([kind |-> "observation", at |-> at, value |-> v], original)
<1> DEFINE data == [kind |-> "observation", at |-> at, value |-> v]
<1>1. data.kind = "observation" /\ data.value = v
    OBVIOUS
<1> HIDE DEF data
<1>2. ASSUME NEW packet, packet.data = data, packet.original = original
      PROVE  TellsItself(packet)
    <2>1. PacketEvent(packet).told = IF original = None THEN DerivedObservation(data)
                                     ELSE SuppliedObservation(original)
        BY <1>1, <1>2 DEF PacketEvent
    <2>2. Tells(PacketEvent(packet).told.value, v)
        <3>1. CASE original = None
            <4>1. PacketEvent(packet).told.value = InBothUnits(v)
                BY <1>1, <2>1, <3>1 DEF DerivedObservation
            <4> QED BY <4>1, DerivedTells
        <3>2. CASE original # None
            <4>1. PacketEvent(packet).told.value = OriginalOf(c, {"f"})
                BY <2>1, <3>2 DEF SuppliedObservation
            <4>2. {"f"} \in SUBSET {"c", "f"} /\ {"f"} # {}
                OBVIOUS
            <4> QED BY <4>1, <4>2, OriginalTells
        <3> QED BY <3>1, <3>2
    <2> QED BY <1>1, <1>2, <2>2 DEF TellsItself
<1> QED BY <1>2 DEF AsTold, data

\* A report's packet tells the report, with its original in Fahrenheit.
LEMMA ReportIsTold ==
    ASSUME NEW c \in Int, NEW v \in DerivedValues, v = Rounded(c), NEW type, NEW id, NEW revision,
           NEW original, original = None \/ original.value = OriginalOf(c, {"f"})
    PROVE  AsTold([kind |-> "reports", type |-> type, id |-> id, value |-> v,
                   revision |-> revision], original)
<1> DEFINE data == [kind |-> "reports", type |-> type, id |-> id, value |-> v,
                    revision |-> revision]
<1>1. data.kind = "reports" /\ data.value = v
    OBVIOUS
<1> HIDE DEF data
<1>2. ASSUME NEW packet, packet.data = data, packet.original = original
      PROVE  TellsItself(packet)
    <2>1. PacketEvent(packet).told = IF original = None THEN DerivedReport(data)
                                     ELSE SuppliedReport(original)
        BY <1>1, <1>2 DEF PacketEvent
    <2>2. Tells(PacketEvent(packet).told.value, v)
        <3>1. CASE original = None
            <4>1. PacketEvent(packet).told.value = InBothUnits(v)
                BY <1>1, <2>1, <3>1 DEF DerivedReport
            <4> QED BY <4>1, DerivedTells
        <3>2. CASE original # None
            <4>1. PacketEvent(packet).told.value = OriginalOf(c, {"f"})
                BY <2>1, <3>2 DEF SuppliedReport
            <4>2. {"f"} \in SUBSET {"c", "f"} /\ {"f"} # {}
                OBVIOUS
            <4> QED BY <4>1, <4>2, OriginalTells
        <3> QED BY <3>1, <3>2
    <2> QED BY <1>1, <1>2, <2>2 DEF TellsItself
<1> QED BY <1>2 DEF AsTold, data

\* An extreme's packet tells the extreme, with its original in Fahrenheit.
LEMMA ExtremeIsTold ==
    ASSUME NEW c \in Int, NEW v \in DerivedValues, v = Rounded(c), NEW at,
           NEW original, original = None \/ original.value = OriginalOf(c, {"f"})
    PROVE  AsTold([kind |-> "extrema", at |-> at, value |-> v], original)
<1> DEFINE data == [kind |-> "extrema", at |-> at, value |-> v]
<1>1. data.kind = "extrema" /\ data.value = v
    OBVIOUS
<1> HIDE DEF data
<1>2. ASSUME NEW packet, packet.data = data, packet.original = original
      PROVE  TellsItself(packet)
    <2>1. PacketEvent(packet).told = IF original = None THEN DerivedExtreme(data.value)
                                     ELSE SuppliedExtreme(original.value)
        BY <1>1, <1>2 DEF PacketEvent
    <2>2. Tells(PacketEvent(packet).told.value, v)
        <3>1. CASE original = None
            <4>1. PacketEvent(packet).told.value = InBothUnits(v)
                BY <1>1, <2>1, <3>1 DEF DerivedExtreme
            <4> QED BY <4>1, DerivedTells
        <3>2. CASE original # None
            <4>1. PacketEvent(packet).told = SuppliedExtreme(OriginalOf(c, {"f"}))
                BY <2>1, <3>2
            <4>2. {"f"} \in SUBSET {"c", "f"} /\ {"f"} # {}
                OBVIOUS
            <4> QED BY <4>1, <4>2, OriginalTells
        <3> QED BY <3>1, <3>2
    <2> QED BY <1>1, <1>2, <2>2 DEF TellsItself
<1> QED BY <1>2 DEF AsTold, data

\* An episode's packet tells the state it is in.
LEMMA EpisodeIsTold ==
    ASSUME NEW id, NEW state, NEW original, original = None \/ original.state = state
    PROVE  AsTold([kind |-> "weather_events", id |-> id, state |-> state], original)
<1> DEFINE data == [kind |-> "weather_events", id |-> id, state |-> state]
<1>1. data.kind = "weather_events" /\ data.state = state
    OBVIOUS
<1> HIDE DEF data
<1>2. ASSUME NEW packet, packet.data = data, packet.original = original
      PROVE  TellsItself(packet)
    <2>1. PacketEvent(packet).told = IF original = None THEN DerivedEpisode(data)
                                     ELSE SuppliedEpisode(original)
        BY <1>1, <1>2 DEF PacketEvent
    <2>2. PacketEvent(packet).told.state = state
        BY <1>1, <2>1 DEF DerivedEpisode, SuppliedEpisode
    <2> QED BY <1>1, <1>2, <2>2 DEF TellsItself
<1> QED BY <1>2 DEF AsTold, data

\* A time the host's feeds give is a time.
LEMMA NowIsATime ==
    ASSUME now \in Times PROVE Later(1) \in Times
<1>1. MaxTime \in Nat /\ now \in Int /\ 0 =< now /\ now =< MaxTime
    BY TimesAssumption DEF Times
<1> QED BY <1>1 DEF Later, SaturatingAdd, Times

\* An original in the provider's unit of a temperature.
LEMMA FahrenheitTells ==
    ASSUME NEW v \in Int
    PROVE  /\ OriginalOf(v, {"f"}) \in Originals /\ HasAUnit(OriginalOf(v, {"f"}))
           /\ Tells(OriginalOf(v, {"f"}), Rounded(v))
<1>1. {"f"} \in SUBSET {"c", "f"} /\ {"f"} # {}
    OBVIOUS
<1> QED BY <1>1, OriginalTells DEF HasAUnit

\* An accepted observation keeps the station's invariant, its running high with it.
LEMMA ObservationsStay ==
    ASSUME StationInvariant, now \in Times, AcceptObservation PROVE StationInvariant'
<1>1. /\ station \in StationRecords /\ station.supplied \in SuppliedStations
      /\ station.sequence \in Nat /\ station.running_high \in RunningHighs
    BY StationParts DEF StationInvariant, StationTypeOK
<1>2. PICK told \in Temperatures, at \in {now, Later(1)}, units \in {{}, {"f"}} :
        LET value == Rounded(told)
            original == IF units = {} THEN None
                        ELSE [at |-> at, value |-> OriginalOf(told, units),
                              sequence |-> station.sequence + 1]
            fact == IF units = {} THEN OriginalOf(Ninths(value), {"c"})
                    ELSE OriginalOf(told, units)
            raises == Higher(value, station.running_high)
            retained == IF original = None THEN station.supplied.observation
                        ELSE [at |-> at, value |-> original.value]
            changed == [station EXCEPT
                !.observation = [at |-> at, value |-> value],
                !.running_high = IF raises THEN value ELSE @,
                !.supplied.observation = retained]
        IN  /\ station.observation # None => at >= station.observation.at
            /\ Accept(changed, [kind |-> "observation", at |-> at, value |-> value], original,
                      Telling({"Temperature"} \cup (IF raises THEN {"RunningHigh"} ELSE {}),
                              fact))
    BY DEF AcceptObservation
<1> DEFINE value == Rounded(told)
           given == OriginalOf(told, {"f"})
           original == IF units = {} THEN None
                       ELSE [at |-> at, value |-> OriginalOf(told, units),
                             sequence |-> station.sequence + 1]
           fact == IF units = {} THEN OriginalOf(Ninths(value), {"c"})
                   ELSE OriginalOf(told, units)
           raises == Higher(value, station.running_high)
           retained == IF original = None THEN station.supplied.observation
                       ELSE [at |-> at, value |-> original.value]
           supplied == [station.supplied EXCEPT !.observation = retained]
           high == IF raises THEN value ELSE station.running_high
           changed == [station EXCEPT !.observation = [at |-> at, value |-> value],
                                      !.running_high = high, !.supplied = supplied]
           data == [kind |-> "observation", at |-> at, value |-> value]
           fields == {"Temperature"} \cup (IF raises THEN {"RunningHigh"} ELSE {})
<1>3. Accept(changed, data, original, Telling(fields, fact))
    BY <1>2
<1>4. at \in Times /\ told \in Int /\ value \in DerivedValues /\ value \in Int
    BY NowIsATime, RoundedToWhole
<1>5. given \in Originals /\ HasAUnit(given) /\ HasAUnit(fact)
    <2>1. /\ {"c"} \in SUBSET {"c", "f"} /\ {"c"} # {}
        OBVIOUS
    <2>2. HasAUnit(OriginalOf(Ninths(value), {"c"}))
        <3>1. Ninths(value) \in Int
            BY <1>4, RoundedToWhole
        <3> QED BY <2>1, <3>1, OriginalTells DEF HasAUnit
    <2>3. fact = OriginalOf(Ninths(value), {"c"}) \/ fact = OriginalOf(told, {"f"})
        OBVIOUS
    <2>4. given \in Originals /\ HasAUnit(given)
        BY <1>4, FahrenheitTells
    <2> HIDE DEF fact, given
    <2> QED BY <2>2, <2>3, <2>4 DEF given
<1>6. \/ original = None
      \/ original = [at |-> at, value |-> given, sequence |-> station.sequence + 1]
    OBVIOUS
<1> HIDE DEF given, fact, value
<1>7. original \in {None} \cup PacketOriginals
    <2>1. station.sequence + 1 \in Nat
        BY <1>1
    <2> HIDE DEF original
    <2> QED BY <1>4, <1>5, <1>6, <2>1 DEF PacketOriginals
<1>8. data \in PacketData
    BY <1>4 DEF PacketData
<1>9. IsOf(data, original, station.sequence + 1)
    <2>1. original # None => original.at = at /\ original.sequence = station.sequence + 1
        OBVIOUS
    <2>2. data.kind = "observation" /\ data.at = at
        OBVIOUS
    <2> HIDE DEF data, original
    <2> QED BY <2>1, <2>2 DEF IsOf, SameSubject
<1>10. AsTold(data, original)
    <2>1. original = None \/ original.value = given
        BY <1>6
    <2> HIDE DEF original
    <2> QED BY <1>4, <2>1, ObservationIsTold DEF given, data, value
<1>11. /\ supplied \in SuppliedStations
       /\ supplied.reports = station.supplied.reports
       /\ supplied.daily = station.supplied.daily
    <2>1. retained = station.supplied.observation \/ retained = [at |-> at, value |-> given]
        BY <1>6
    <2>2. retained \in {None} \cup [at : Times, value : Originals]
        <3> HIDE DEF retained
        <3> QED BY <1>1, <1>4, <1>5, <2>1, SuppliedParts
    <2> HIDE DEF retained
    <2> QED BY <1>1, <2>2, SuppliedParts
<1>12. (high \in RunningHighs /\ high # None) \/ high = station.running_high
    <2>1. None \notin Int
        BY TimesAssumption
    <2> QED BY <1>1, <1>4, <2>1 DEF RunningHighs
<1>13. [at |-> at, value |-> value] \in Observations
    BY <1>4 DEF Observations
<1>14. fields \in SUBSET WeatherFields
    BY DEF WeatherFields
<1> HIDE DEF supplied, high, fields, raises, retained, original
<1>15. /\ changed \in StationRecords
       /\ changed.generation = station.generation /\ changed.sequence = station.sequence
       /\ changed.revision = station.revision /\ changed.metas = station.metas
       /\ changed.facts = station.facts /\ changed.forecast = station.forecast
       /\ changed.issuance = station.issuance /\ changed.reports = station.reports
       /\ changed.supplied = supplied /\ changed.running_high = high
    BY <1>1, <1>11, <1>12, <1>13, StationParts
<1> HIDE DEF changed, data
<1>16. /\ StaysCurrent /\ captured' \in Seq(Packets) /\ CapturedStaysDeliverable'
       /\ station'.reports = changed.reports /\ station'.supplied = changed.supplied
       /\ station'.running_high = changed.running_high
    BY <1>3, <1>5, <1>7, <1>8, <1>9, <1>10, <1>14, <1>15, AcceptKeeps
<1>17. OriginalsAreOfReports(station')
    BY <1>11, <1>15, <1>16 DEF StationInvariant, OriginalsAreOfReports
<1>18. DailyIsOriginal(station')
    BY <1>11, <1>12, <1>15, <1>16 DEF StationInvariant, DailyIsOriginal
<1> QED BY <1>16, <1>17, <1>18, StationStays

\* Each report of a station is of its type's place in the list, and has an original at most of
\* its revision.
LEMMA ReportsStayReports ==
    ASSUME OriginalsAreOfReports(station), NEW t,
           station.reports \in Seq(StationReports),
           station.supplied.reports \in Seq(SuppliedReports),
           NEW report \in StationReports, NEW original \in SuppliedReports,
           original.type = report.type, original.revision = report.revision,
           Tells(original.value, report.value),
           \A k \in DOMAIN station.reports : station.reports[k].type = report.type =>
              \E m \in DOMAIN station.reports :
                 /\ station.reports[m].type = report.type
                 /\ station.reports[m].revision < report.revision,
           t.reports = ReportPlaced(station.reports, report),
           \/ t.supplied.reports = station.supplied.reports
           \/ t.supplied.reports = ReportPlaced(station.supplied.reports, original)
    PROVE  OriginalsAreOfReports(t)
<1> DEFINE reports == t.reports
           originals == t.supplied.reports
<1>1. /\ \A r \in StationReports : r.type \in Nat /\ r.revision \in Nat
      /\ \A r \in SuppliedReports : r.type \in Nat /\ r.revision \in Nat
    BY StationAssumption DEF StationReports, SuppliedReports
<1>2. /\ \A k \in DOMAIN reports :
            \/ reports[k] = report
            \/ \E i \in DOMAIN station.reports : /\ station.reports[i].type # report.type
                                                 /\ reports[k] = station.reports[i]
      /\ \E k \in DOMAIN reports : reports[k] = report
      /\ \A i \in DOMAIN station.reports : station.reports[i].type # report.type =>
            \E k \in DOMAIN reports : reports[k] = station.reports[i]
    <2>1. OfTypes(StationReports)
        BY <1>1 DEF OfTypes
    <2>2. PlacedByType(StationReports, station.reports, report, reports)
        BY <2>1, ReportsInPlace
    <2> QED BY <2>2 DEF PlacedByType
<1>3. /\ \A k \in DOMAIN station.reports : station.reports[k] \in StationReports
      /\ \A k \in DOMAIN station.supplied.reports :
            station.supplied.reports[k] \in SuppliedReports
    BY LenProperties
\* An original that was held is still of a report the owner has.
<1>4. ASSUME NEW i \in DOMAIN station.supplied.reports
      PROVE  LET held == station.supplied.reports[i]
             IN  /\ \E k \in DOMAIN reports : reports[k].type = held.type
                 /\ \A k \in DOMAIN reports : TellsReport(held, reports[k])
    <2> DEFINE held == station.supplied.reports[i]
    <2>1. /\ \E k \in DOMAIN station.reports : station.reports[k].type = held.type
          /\ \A k \in DOMAIN station.reports : TellsReport(held, station.reports[k])
        BY <1>4 DEF OriginalsAreOfReports
    <2>2. held \in SuppliedReports /\ held.revision \in Nat /\ held.type \in Nat
        BY <1>1, <1>3, <1>4
    <2> HIDE DEF held
    <2>3. \E k \in DOMAIN reports : reports[k].type = held.type
        BY <1>2, <2>1
    <2>4. TellsReport(held, report)
        <3> SUFFICES ASSUME report.type = held.type
                     PROVE  held.revision < report.revision
            BY <1>1, <2>2 DEF TellsReport
        <3>1. PICK m \in DOMAIN station.reports :
                  /\ station.reports[m].type = report.type
                  /\ station.reports[m].revision < report.revision
            BY <2>1
        <3>2. held.revision =< station.reports[m].revision
            BY <2>1, <3>1 DEF TellsReport
        <3>3. station.reports[m].revision \in Nat /\ report.revision \in Nat
            BY <1>1, <1>3
        <3> QED BY <2>2, <3>1, <3>2, <3>3
    <2>5. \A k \in DOMAIN reports : TellsReport(held, reports[k])
        BY <1>2, <2>1, <2>4
    <2> QED BY <2>3, <2>5 DEF held
<1>5. ASSUME t.supplied.reports = station.supplied.reports
      PROVE  OriginalsAreOfReports(t)
    BY <1>4, <1>5 DEF OriginalsAreOfReports
<1>6. ASSUME t.supplied.reports = ReportPlaced(station.supplied.reports, original)
      PROVE  OriginalsAreOfReports(t)
    <2>1. \A i \in DOMAIN originals :
             \/ originals[i] = original
             \/ \E n \in DOMAIN station.supplied.reports :
                   /\ station.supplied.reports[n].type # original.type
                   /\ originals[i] = station.supplied.reports[n]
        <3>1. OfTypes(SuppliedReports)
            BY <1>1 DEF OfTypes
        <3>2. PlacedByType(SuppliedReports, station.supplied.reports, original, originals)
            BY <1>6, <3>1, ReportsInPlace
        <3> QED BY <3>2 DEF PlacedByType
    <2>2. /\ \E k \in DOMAIN reports : reports[k].type = original.type
          /\ \A k \in DOMAIN reports : TellsReport(original, reports[k])
        <3>1. TellsReport(original, report)
            BY <1>1 DEF TellsReport
        <3>2. ASSUME NEW k \in DOMAIN reports PROVE TellsReport(original, reports[k])
            <4>1. reports[k] = report \/ reports[k].type # report.type
                BY <1>2, <3>2
            <4> QED BY <3>1, <4>1 DEF TellsReport
        <3> QED BY <1>2, <3>2
    <2>3. ASSUME NEW i \in DOMAIN originals
          PROVE  /\ \E k \in DOMAIN reports : reports[k].type = originals[i].type
                 /\ \A k \in DOMAIN reports : TellsReport(originals[i], reports[k])
        <3>1. CASE originals[i] = original
            BY <2>2, <3>1
        <3>2. ASSUME NEW n \in DOMAIN station.supplied.reports,
                     originals[i] = station.supplied.reports[n]
              PROVE  /\ \E k \in DOMAIN reports : reports[k].type = originals[i].type
                     /\ \A k \in DOMAIN reports : TellsReport(originals[i], reports[k])
            BY <1>4, <3>2
        <3> QED BY <2>1, <3>1, <3>2
    <2> QED BY <2>3 DEF OriginalsAreOfReports
<1> QED BY <1>5, <1>6

\* An accepted report keeps the station's invariant.
LEMMA ReportsStay ==
    ASSUME StationInvariant, AcceptReport PROVE StationInvariant'
<1>1. /\ station \in StationRecords /\ station.supplied \in SuppliedStations
      /\ station.sequence \in Nat
      /\ station.reports \in Seq(StationReports)
    BY StationParts DEF StationInvariant, StationTypeOK
<1>2. station.supplied.reports \in Seq(SuppliedReports)
    BY <1>1, SuppliedParts
<1>3. PICK type \in ReportTypes, degrees \in Temperatures, told \in BOOLEAN :
        LET value == Rounded(degrees)
            OfType(report) == report.type = type
            held == FirstWhere(station.reports, OfType)
            report == [type |-> type, id |-> type, value |-> value,
                       revision |-> IF held = None THEN 0 ELSE held.revision + 1]
            fact == OriginalOf(degrees, {"f"})
            original == [type |-> type, id |-> type, revision |-> report.revision, value |-> fact]
            packed == [type |-> type, id |-> type, revision |-> report.revision, value |-> fact,
                       sequence |-> station.sequence + 1]
            changed == [station EXCEPT
                !.reports = InPlace(@, report, TypeKey),
                !.supplied.reports = IF told THEN InPlace(@, original, TypeKey) ELSE @]
        IN  Accept(changed,
                   [kind |-> "reports", type |-> type, id |-> type, value |-> value,
                    revision |-> report.revision],
                   IF told THEN packed ELSE None,
                   Telling({"DsmHigh"}, fact))
    BY DEF AcceptReport
<1> DEFINE value == Rounded(degrees)
           places == {i \in DOMAIN station.reports : station.reports[i].type = type}
           held == FirstAt(station.reports, places)
           revision == IF held = None THEN 0 ELSE held.revision + 1
           report == [type |-> type, id |-> type, value |-> value, revision |-> revision]
           fact == OriginalOf(degrees, {"f"})
           original == [type |-> type, id |-> type, revision |-> revision, value |-> fact]
           packed == [type |-> type, id |-> type, revision |-> revision, value |-> fact,
                      sequence |-> station.sequence + 1]
           sent == IF told THEN packed ELSE None
           reports == ReportPlaced(station.reports, report)
           originals == IF told THEN ReportPlaced(station.supplied.reports, original)
                        ELSE station.supplied.reports
           supplied == [station.supplied EXCEPT !.reports = originals]
           changed == [station EXCEPT !.reports = reports, !.supplied = supplied]
           data == [kind |-> "reports", type |-> type, id |-> type, value |-> value,
                    revision |-> revision]
           fields == {"DsmHigh"}
<1>4. Accept(changed, data, sent, Telling(fields, fact))
    BY <1>3 DEF FirstWhere, ReportPlaced
<1> HIDE DEF fact
<1>5. /\ degrees \in Int /\ value \in DerivedValues
      /\ fact \in Originals /\ HasAUnit(fact) /\ Tells(fact, value)
    BY RoundedToWhole, FahrenheitTells DEF fact
<1> HIDE DEF value
<1>6. places # {} => \E m \in places : /\ held = station.reports[m]
                                       /\ held \in StationReports /\ held # None
                                       /\ held.revision \in Nat
    <2> SUFFICES ASSUME places # {}
                 PROVE  \E m \in places : /\ held = station.reports[m]
                                          /\ held \in StationReports /\ held # None
                                          /\ held.revision \in Nat
        OBVIOUS
    <2>1. places \in SUBSET (DOMAIN station.reports)
        OBVIOUS
    <2> HIDE DEF places
    <2>2. PICK m \in places : held = station.reports[m]
        BY <1>1, <2>1, FirstIsThere
    <2>3. held \in StationReports
        BY <1>1, <2>1, <2>2, LenProperties
    <2> HIDE DEF held
    <2> QED BY <2>2, <2>3, StationNoneAssumption DEF StationReports
<1>7. places = {} => held = None
    BY DEF FirstAt
<1> HIDE DEF held
<1>8. revision \in Nat /\ (places # {} => \E m \in places :
                                             station.reports[m].revision < revision)
    BY <1>6, <1>7
<1> HIDE DEF revision
<1>9. type \in Nat
    BY StationAssumption
<1>10. report \in StationReports /\ original \in SuppliedReports
    BY <1>5, <1>8, <1>9 DEF StationReports, SuppliedReports
<1>11. sent \in {None} \cup PacketOriginals
    <2>1. packed \in PacketOriginals
        BY <1>1, <1>5, <1>8, <1>9 DEF PacketOriginals
    <2> HIDE DEF packed
    <2> QED BY <2>1
<1>12. data \in PacketData
    BY <1>5, <1>8, <1>9 DEF PacketData
<1>13. IsOf(data, sent, station.sequence + 1)
    <2>1. /\ packed.type = type /\ packed.id = type /\ packed.revision = revision
          /\ packed.sequence = station.sequence + 1
          /\ data.kind = "reports" /\ data.type = type /\ data.id = type
          /\ data.revision = revision
        OBVIOUS
    <2> HIDE DEF data, packed
    <2> QED BY <2>1 DEF IsOf, SameSubject
<1>14. AsTold(data, sent)
    <2>1. sent = None \/ sent.value = OriginalOf(degrees, {"f"})
        BY DEF fact
    <2> HIDE DEF sent
    <2> QED BY <1>5, <2>1, ReportIsTold DEF value
<1>15. /\ reports \in Seq(StationReports)
       /\ originals \in Seq(SuppliedReports)
    <2>1. OfTypes(StationReports) /\ OfTypes(SuppliedReports)
        BY StationAssumption DEF StationReports, SuppliedReports, OfTypes
    <2> HIDE DEF report, original
    <2>2. reports \in Seq(StationReports)
        BY <1>1, <1>10, <2>1, ReportsInPlace DEF PlacedByType
    <2>3. ReportPlaced(station.supplied.reports, original) \in Seq(SuppliedReports)
        BY <1>2, <1>10, <2>1, ReportsInPlace DEF PlacedByType
    <2> QED BY <1>2, <2>2, <2>3
<1>16. /\ original.type = report.type /\ original.revision = report.revision
       /\ Tells(original.value, report.value) /\ report.type = type
       /\ report.revision = revision
    BY <1>5
<1>17. \/ originals = station.supplied.reports
       \/ originals = ReportPlaced(station.supplied.reports, original)
    OBVIOUS
<1> HIDE DEF reports, originals
<1>18. /\ supplied \in SuppliedStations /\ supplied.reports = originals
       /\ supplied.daily = station.supplied.daily
    BY <1>1, <1>15, SuppliedParts
<1> HIDE DEF supplied
<1>19. /\ changed \in StationRecords
       /\ changed.generation = station.generation /\ changed.sequence = station.sequence
       /\ changed.revision = station.revision /\ changed.metas = station.metas
       /\ changed.facts = station.facts /\ changed.forecast = station.forecast
       /\ changed.issuance = station.issuance /\ changed.reports = reports
       /\ changed.supplied = supplied /\ changed.running_high = station.running_high
    BY <1>1, <1>15, <1>18, StationParts
<1>20. fields \in SUBSET WeatherFields
    BY DEF WeatherFields
<1> HIDE DEF changed, data, sent, fields, report, original
<1>21. /\ StaysCurrent /\ captured' \in Seq(Packets) /\ CapturedStaysDeliverable'
       /\ station'.reports = changed.reports /\ station'.supplied = changed.supplied
       /\ station'.running_high = changed.running_high
    BY <1>4, <1>5, <1>11, <1>12, <1>13, <1>14, <1>19, <1>20, AcceptKeeps
<1>22. OriginalsAreOfReports(station')
    <2>1. OriginalsAreOfReports(station)
        BY DEF StationInvariant
    <2>2. \A k \in DOMAIN station.reports : station.reports[k].type = report.type =>
              \E m \in DOMAIN station.reports :
                 /\ station.reports[m].type = report.type
                 /\ station.reports[m].revision < report.revision
        BY <1>8, <1>16
    <2>3. station'.reports = ReportPlaced(station.reports, report)
        BY <1>19, <1>21 DEF reports
    <2>4. \/ station'.supplied.reports = station.supplied.reports
          \/ station'.supplied.reports = ReportPlaced(station.supplied.reports, original)
        BY <1>17, <1>18, <1>19, <1>21
    <2> DEFINE t == station'
    <2> HIDE DEF t, places
    <2>5. OriginalsAreOfReports(t)
        <3>1. /\ t.reports = ReportPlaced(station.reports, report)
              /\ \/ t.supplied.reports = station.supplied.reports
                 \/ t.supplied.reports = ReportPlaced(station.supplied.reports, original)
            BY <2>3, <2>4 DEF t
        <3> QED BY <1>1, <1>2, <1>10, <1>16, <2>1, <2>2, <3>1, ReportsStayReports
    <2> QED BY <2>5 DEF t
<1>23. DailyIsOriginal(station')
    BY <1>18, <1>19, <1>21 DEF StationInvariant, DailyIsOriginal
<1> QED BY <1>21, <1>22, <1>23, StationStays

\* An accepted extreme keeps the station's invariant.
LEMMA ExtremesStay ==
    ASSUME StationInvariant, now \in Times, AcceptExtreme PROVE StationInvariant'
<1>1. /\ station \in StationRecords /\ station.supplied \in SuppliedStations
      /\ station.sequence \in Nat
    BY StationParts DEF StationInvariant, StationTypeOK
<1>2. PICK degrees \in Temperatures, told \in BOOLEAN :
        LET value == Rounded(degrees)
            fact == OriginalOf(degrees, {"f"})
            changed == [station EXCEPT
                !.high = [at |-> now, value |-> value],
                !.supplied.high = IF told THEN fact ELSE None]
        IN  /\ station.high # None => value > station.high.value
            /\ Accept(changed, [kind |-> "extrema", at |-> now, value |-> value],
                      IF told THEN [at |-> now, value |-> fact,
                                    sequence |-> station.sequence + 1]
                      ELSE None,
                      Telling({"ExtremeHigh"}, fact))
    BY DEF AcceptExtreme
<1> DEFINE value == Rounded(degrees)
           fact == OriginalOf(degrees, {"f"})
           original == IF told THEN [at |-> now, value |-> fact,
                                     sequence |-> station.sequence + 1]
                       ELSE None
           high == IF told THEN fact ELSE None
           supplied == [station.supplied EXCEPT !.high = high]
           changed == [station EXCEPT !.high = [at |-> now, value |-> value],
                                      !.supplied = supplied]
           data == [kind |-> "extrema", at |-> now, value |-> value]
           fields == {"ExtremeHigh"}
<1>3. Accept(changed, data, original, Telling(fields, fact))
    BY <1>2
<1> HIDE DEF fact
<1>4. /\ degrees \in Int /\ value \in DerivedValues
      /\ fact \in Originals /\ HasAUnit(fact)
    BY RoundedToWhole, FahrenheitTells DEF fact
<1> HIDE DEF value
<1>5. original \in {None} \cup PacketOriginals
    <2>1. original = None \/ original = [at |-> now, value |-> fact,
                                         sequence |-> station.sequence + 1]
        OBVIOUS
    <2>2. station.sequence + 1 \in Nat
        BY <1>1
    <2> HIDE DEF original
    <2> QED BY <1>4, <2>1, <2>2 DEF PacketOriginals
<1>6. data \in PacketData
    BY <1>4 DEF PacketData
<1>7. IsOf(data, original, station.sequence + 1)
    <2>1. original # None => original.at = now /\ original.sequence = station.sequence + 1
        OBVIOUS
    <2>2. data.kind = "extrema" /\ data.at = now
        OBVIOUS
    <2> HIDE DEF data, original
    <2> QED BY <2>1, <2>2 DEF IsOf, SameSubject
<1>8. AsTold(data, original)
    <2>1. original = None \/ original.value = OriginalOf(degrees, {"f"})
        BY DEF fact
    <2> HIDE DEF original
    <2> QED BY <1>4, <2>1, ExtremeIsTold DEF value
<1>9. /\ supplied \in SuppliedStations
      /\ supplied.reports = station.supplied.reports
      /\ supplied.daily = station.supplied.daily
    <2>1. high \in {None} \cup Originals
        BY <1>4
    <2> HIDE DEF high
    <2> QED BY <1>1, <2>1, SuppliedParts
<1>10. [at |-> now, value |-> value] \in Observations
    BY <1>4 DEF Observations
<1>11. fields \in SUBSET WeatherFields
    BY DEF WeatherFields
<1> HIDE DEF supplied, high, fields, original
<1>12. /\ changed \in StationRecords
       /\ changed.generation = station.generation /\ changed.sequence = station.sequence
       /\ changed.revision = station.revision /\ changed.metas = station.metas
       /\ changed.facts = station.facts /\ changed.forecast = station.forecast
       /\ changed.issuance = station.issuance /\ changed.reports = station.reports
       /\ changed.supplied = supplied /\ changed.running_high = station.running_high
    BY <1>1, <1>9, <1>10, StationParts
<1> HIDE DEF changed, data
<1>13. /\ StaysCurrent /\ captured' \in Seq(Packets) /\ CapturedStaysDeliverable'
       /\ station'.reports = changed.reports /\ station'.supplied = changed.supplied
       /\ station'.running_high = changed.running_high
    BY <1>3, <1>4, <1>5, <1>6, <1>7, <1>8, <1>11, <1>12, AcceptKeeps
<1>14. OriginalsAreOfReports(station')
    BY <1>9, <1>12, <1>13 DEF StationInvariant, OriginalsAreOfReports
<1>15. DailyIsOriginal(station')
    BY <1>9, <1>12, <1>13 DEF StationInvariant, DailyIsOriginal
<1> QED BY <1>13, <1>14, <1>15, StationStays

\* An episode that opens, changes or closes keeps the station's invariant.
LEMMA EpisodesStay ==
    ASSUME StationInvariant, AcceptEpisode PROVE StationInvariant'
<1>1. /\ station \in StationRecords /\ station.supplied \in SuppliedStations
      /\ station.sequence \in Nat /\ station.episodes \in Seq(StationEpisodes)
    BY StationParts DEF StationInvariant, StationTypeOK
<1>2. station.supplied.episodes \in Seq(StationEpisodes)
    BY <1>1, SuppliedParts
<1>3. PICK id \in Episodes, state \in EpisodeStates, told \in BOOLEAN :
        LET Others(e) == e.id # id
            held == \E i \in DOMAIN station.episodes : station.episodes[i].id = id
            episode == [id |-> id, state |-> state]
            changed ==
                IF state = "ended"
                THEN [station EXCEPT !.episodes = Selected(@, Others),
                                     !.supplied.episodes = Selected(@, Others)]
                ELSE [station EXCEPT !.episodes = InPlace(@, episode, EpisodeKey),
                                     !.supplied.episodes =
                                        IF told THEN InPlace(@, episode, EpisodeKey) ELSE @]
        IN  /\ (state = "active") # held
            /\ Accept(changed, [kind |-> "weather_events", id |-> id, state |-> state],
                      IF told THEN [id |-> id, state |-> state,
                                    sequence |-> station.sequence + 1]
                      ELSE None,
                      Telling({}, None))
    BY DEF AcceptEpisode
<1> DEFINE episode == [id |-> id, state |-> state]
           others(list) == ElementsAt(list, {i \in DOMAIN list : list[i].id # episode.id})
           placed(list) == InPlace(list, episode, EpisodeKey)
           episodes == IF state = "ended" THEN others(station.episodes)
                       ELSE placed(station.episodes)
           originals == IF state = "ended" THEN others(station.supplied.episodes)
                        ELSE IF told THEN placed(station.supplied.episodes)
                        ELSE station.supplied.episodes
           supplied == [station.supplied EXCEPT !.episodes = originals]
           changed == [station EXCEPT !.episodes = episodes, !.supplied = supplied]
           data == [kind |-> "weather_events", id |-> id, state |-> state]
           original == IF told THEN [id |-> id, state |-> state,
                                     sequence |-> station.sequence + 1]
                       ELSE None
<1>4. Accept(changed, data, original, Telling({}, None))
    <2>1. episode.id = id
        OBVIOUS
    <2>2. CASE state = "ended"
        BY <1>3, <2>1, <2>2 DEF Selected
    <2>3. CASE state # "ended"
        BY <1>3, <2>1, <2>3
    <2> QED BY <2>2, <2>3
<1>5. original \in {None} \cup PacketOriginals
    <2>1. original = None \/ original = [id |-> id, state |-> state,
                                         sequence |-> station.sequence + 1]
        OBVIOUS
    <2>2. station.sequence + 1 \in Nat
        BY <1>1
    <2> HIDE DEF original
    <2> QED BY <2>1, <2>2 DEF PacketOriginals
<1>6. data \in PacketData
    BY DEF PacketData
<1>7. IsOf(data, original, station.sequence + 1)
    <2>1. original # None => /\ original.id = id /\ original.state = state
                             /\ original.sequence = station.sequence + 1
        OBVIOUS
    <2>2. data.kind = "weather_events" /\ data.id = id /\ data.state = state
        OBVIOUS
    <2> HIDE DEF data, original
    <2> QED BY <2>1, <2>2 DEF IsOf, SameSubject
<1>8. AsTold(data, original)
    <2>1. original = None \/ original.state = state
        OBVIOUS
    <2> HIDE DEF original
    <2> QED BY <2>1, EpisodeIsTold
<1>9. episodes \in Seq(StationEpisodes) /\ originals \in Seq(StationEpisodes)
    <2>1. ASSUME NEW list \in Seq(StationEpisodes) PROVE others(list) \in Seq(StationEpisodes)
        BY ElementsAreSelected
    <2>2. ASSUME NEW list \in Seq(StationEpisodes), state # "ended"
          PROVE  placed(list) \in Seq(StationEpisodes)
        <3>1. episode \in StationEpisodes
            BY <2>2 DEF StationEpisodes, EpisodeStates
        <3> HIDE DEF episode
        <3> QED BY <2>2, <3>1, ItemsInPlace
    <2> HIDE DEF others, placed
    <2> QED BY <1>1, <1>2, <2>1, <2>2
<1> HIDE DEF episodes, originals, original
<1>10. /\ supplied \in SuppliedStations
       /\ supplied.reports = station.supplied.reports
       /\ supplied.daily = station.supplied.daily
    BY <1>1, <1>9, SuppliedParts
<1> HIDE DEF supplied
<1>11. /\ changed \in StationRecords
       /\ changed.generation = station.generation /\ changed.sequence = station.sequence
       /\ changed.revision = station.revision /\ changed.metas = station.metas
       /\ changed.facts = station.facts /\ changed.forecast = station.forecast
       /\ changed.issuance = station.issuance /\ changed.reports = station.reports
       /\ changed.supplied = supplied /\ changed.running_high = station.running_high
    BY <1>1, <1>9, <1>10, StationParts
<1> HIDE DEF changed, data
<1>12. /\ StaysCurrent /\ captured' \in Seq(Packets) /\ CapturedStaysDeliverable'
       /\ station'.reports = changed.reports /\ station'.supplied = changed.supplied
       /\ station'.running_high = changed.running_high
    <2>1. {} \in SUBSET WeatherFields
        OBVIOUS
    <2>2. {} # {} => HasAUnit(None)
        OBVIOUS
    <2> QED BY <1>4, <1>5, <1>6, <1>7, <1>8, <1>11, <2>1, <2>2, AcceptKeeps
<1>13. OriginalsAreOfReports(station')
    BY <1>10, <1>11, <1>12 DEF StationInvariant, OriginalsAreOfReports
<1>14. DailyIsOriginal(station')
    BY <1>10, <1>11, <1>12 DEF StationInvariant, DailyIsOriginal
<1> QED BY <1>12, <1>13, <1>14, StationStays

\* What waits for delivery stays deliverable when nothing is captured.
LEMMA PacketsStay ==
    ASSUME StationInvariant, captured' = captured, NEW t, station' = t, t \in StationRecords,
           Follows(station, t)
    PROVE  captured' \in Seq(Packets) /\ CapturedStaysDeliverable'
<1>1. station \in StationRecords /\ captured \in Seq(Packets) /\ CapturedStaysDeliverable
    BY DEF StationInvariant, StationTypeOK
<1>2. ASSUME NEW i \in DOMAIN captured PROVE Deliverable(captured[i], t)
    <2>1. captured[i] \in Packets
        BY <1>1, <1>2, LenProperties
    <2>2. Deliverable(captured[i], station)
        BY <1>1, <1>2, AllDeliverable
    <2> QED BY <1>1, <2>1, <2>2, PacketsLast
<1>3. CapturedStaysDeliverable'
    BY <1>2 DEF CapturedStaysDeliverable, Deliverable, TellsItself, TriggerOf
<1> QED BY <1>1, <1>3

\* What is left of the station when its winners are.
LEMMA WinnersUntouched ==
    ASSUME StationInvariant, NEW t, station' = t, t \in StationRecords, Follows(station, t),
           CountersStarted(t), t.facts = station.facts, accepted' = accepted, ValidIssuance(t)
    PROVE  StaysCurrent
<1>1. /\ station \in StationRecords /\ AcceptedStaysCurrent
      /\ accepted \in [WeatherFields -> {None} \cup Originals]
    BY DEF StationInvariant, StationTypeOK
<1>2. ValidCurrentWeather(t)
    <2>1. KeptOrWon(station, t)
        BY DEF KeptOrWon
    <2>2. ValidCurrentWeather(station) /\ t.generation # 0 /\ t.revision # 0
        BY <1>1 DEF AcceptedStaysCurrent, CountersStarted
    <2> QED BY <1>1, <2>1, <2>2, WinnersLast
<1>3. \A field \in WeatherFields :
         accepted'[field] = IF t.facts[field] = None THEN None ELSE t.facts[field].value
    BY <1>1 DEF AcceptedStaysCurrent
<1>4. AcceptedStaysCurrent'
    BY <1>2, <1>3 DEF AcceptedStaysCurrent
<1> QED BY <1>1, <1>4 DEF StaysCurrent

\* A station that advances has started counters, and its forecast's issuance stays admissible.
LEMMA AdvancedStays ==
    ASSUME StationInvariant, NEW kind \in Components, NEW s, s = Advanced(station, kind)
    PROVE  /\ AdvancedFrom(station, kind, s) /\ Follows(station, s)
           /\ s \in StationRecords /\ CountersStarted(s) /\ ValidIssuance(s)
<1>1. station \in StationRecords /\ CountersStarted(station) /\ ValidIssuance(station)
    BY DEF StationInvariant, StationTypeOK, AcceptedStaysCurrent
<1>2. AdvancedFrom(station, kind, s) /\ Follows(station, s)
    BY <1>1, Advancing
<1>3. CountersStarted(s)
    <2>1. /\ station.generation \in Nat /\ station.sequence \in Nat /\ station.revision \in Nat
          /\ station.metas \in StationMetas
        BY <1>1, StationParts
    <2>2. \A k \in Components : station.metas[k].revision \in Nat
        BY <2>1 DEF StationMetas, Metas
    <2> QED BY <1>1, <1>2, <2>1, <2>2 DEF CountersStarted, AdvancedFrom
<1>4. s \in StationRecords /\ s.forecast = station.forecast /\ s.issuance = station.issuance
    BY <1>2 DEF AdvancedFrom
<1>5. ValidIssuance(s)
    BY <1>1, <1>2, <1>4, IssuanceLasts
<1> QED BY <1>2, <1>3, <1>4, <1>5

\* An original of the day's extremes has a unit.
LEMMA DailyHasAUnit ==
    ASSUME NEW v \in Temperatures, NEW original \in DailyOriginals(v)
    PROVE  original \in Originals /\ HasAUnit(original)
<1>1. v \in Int /\ None \notin Int
    BY RoundedToWhole, TimesAssumption
<1>2. ASSUME NEW units \in SUBSET {"c", "f"}, units # {}
      PROVE  OriginalOf(v, units) \in Originals /\ HasAUnit(OriginalOf(v, units))
    BY <1>1, <1>2, OriginalTells DEF HasAUnit
<1>3. ASSUME NEW other \in Temperatures
      PROVE  [c |-> v, f |-> FahrenheitOf(other)] \in Originals
             /\ HasAUnit([c |-> v, f |-> FahrenheitOf(other)])
    <2>1. FahrenheitOf(other) \in Int
        BY RoundedToWhole DEF FahrenheitOf
    <2> QED BY <1>1, <2>1 DEF Originals, HasAUnit
<1>4. /\ {"c"} \in SUBSET {"c", "f"} /\ {"c"} # {}
      /\ {"f"} \in SUBSET {"c", "f"} /\ {"f"} # {}
    OBVIOUS
<1>5. \/ original = OriginalOf(v, {"c"}) \/ original = OriginalOf(v, {"f"})
      \/ \E other \in Temperatures : original = [c |-> v, f |-> FahrenheitOf(other)]
    BY DEF DailyOriginals
<1> QED BY <1>2, <1>3, <1>4, <1>5

\* A new daily original keeps the station's invariant: it is the original of what is held.
LEMMA DailyStays ==
    ASSUME StationInvariant, DailyOriginal PROVE StationInvariant'
<1>1. PICK degrees \in Temperatures : \E original \in DailyOriginals(degrees) :
        LET s == Advanced(station, "observation")
            update == Telling({"RunningHigh"}, original)
        IN  /\ station' = [s EXCEPT
                  !.running_high = Rounded(degrees), !.supplied.daily = original,
                  !.facts = AcceptFacts(@, update, s.generation, s.revision)]
            /\ accepted' = AcceptedValues(update)
            /\ UNCHANGED captured
    BY DEF DailyOriginal
<1>2. PICK original \in DailyOriginals(degrees) :
        LET s == Advanced(station, "observation")
            update == Telling({"RunningHigh"}, original)
        IN  /\ station' = [s EXCEPT
                  !.running_high = Rounded(degrees), !.supplied.daily = original,
                  !.facts = AcceptFacts(@, update, s.generation, s.revision)]
            /\ accepted' = AcceptedValues(update)
            /\ UNCHANGED captured
    BY <1>1
<1> DEFINE s == Advanced(station, "observation")
           value == Rounded(degrees)
           supplied == [s.supplied EXCEPT !.daily = original]
           t == [s EXCEPT !.running_high = value, !.supplied = supplied]
           fields == {"RunningHigh"}
           won == AcceptFacts(s.facts, Telling(fields, original), s.generation, s.revision)
<1>3. /\ station' = [s EXCEPT !.running_high = value, !.supplied = supplied, !.facts = won]
      /\ accepted' = AcceptedValues(Telling(fields, original))
      /\ captured' = captured
    BY <1>2
<1>4. /\ AdvancedFrom(station, "observation", s) /\ Follows(station, s)
      /\ s \in StationRecords /\ CountersStarted(s)
    <2>1. "observation" \in Components
        BY DEF Components
    <2> HIDE DEF s
    <2>2. s = Advanced(station, "observation")
        BY DEF s
    <2> QED BY <2>1, <2>2, AdvancedStays
<1>5. original \in Originals /\ HasAUnit(original)
    BY DailyHasAUnit
<1> HIDE DEF s
<1>6. /\ supplied \in SuppliedStations /\ supplied.reports = s.supplied.reports
      /\ supplied.daily = original
    <2>1. s.supplied \in SuppliedStations
        BY <1>4, StationParts
    <2> QED BY <1>5, <2>1, SuppliedParts
<1>7. value \in RunningHighs /\ value # None
    BY RoundedToWhole, TimesAssumption DEF RunningHighs
<1> HIDE DEF supplied, won, value
<1>8. /\ t \in StationRecords
      /\ t.generation = s.generation /\ t.sequence = s.sequence /\ t.revision = s.revision
      /\ t.metas = s.metas /\ t.facts = s.facts /\ t.forecast = s.forecast
      /\ t.issuance = s.issuance /\ t.reports = s.reports
      /\ t.supplied = supplied /\ t.running_high = value
    BY <1>4, <1>6, <1>7, StationParts
<1>9. station' = [t EXCEPT !.facts = won]
    BY <1>3, <1>4, StationParts
<1> HIDE DEF t
<1>10. station' = [t EXCEPT !.facts =
            AcceptFacts(t.facts, Telling(fields, original), t.generation, t.revision)]
    BY <1>8, <1>9 DEF won
<1>11. /\ s.facts = station.facts /\ s.forecast = station.forecast
       /\ s.issuance = station.issuance /\ s.reports = station.reports
       /\ s.supplied = station.supplied
    BY <1>4 DEF AdvancedFrom
<1>12. Follows(station, t) /\ CountersStarted(t)
    BY <1>4, <1>8 DEF Follows, CountersStarted
<1>13. /\ StaysCurrent /\ Follows(station, station')
       /\ station'.reports = t.reports /\ station'.supplied = t.supplied
       /\ station'.running_high = t.running_high
    <2>1. fields \in SUBSET WeatherFields
        BY DEF WeatherFields
    <2>2. StationTypeOK /\ CountersStarted(station) /\ AcceptedStaysCurrent
        BY DEF StationInvariant
    <2> HIDE DEF fields
    <2> QED BY <1>3, <1>5, <1>8, <1>10, <1>11, <1>12, <2>1, <2>2, WinnersStay
<1>14. captured' \in Seq(Packets) /\ CapturedStaysDeliverable'
    <2> DEFINE u == station'
    <2>1. u \in StationRecords
        BY <1>13 DEF StaysCurrent
    <2>2. Follows(station, u) /\ station' = u
        BY <1>13
    <2> HIDE DEF u
    <2> QED BY <1>3, <2>1, <2>2, PacketsStay
<1>15. OriginalsAreOfReports(station')
    BY <1>6, <1>8, <1>11, <1>13 DEF StationInvariant, OriginalsAreOfReports
<1>16. DailyIsOriginal(station')
    <2>1. station'.supplied.daily = original /\ station'.running_high = value
        BY <1>6, <1>8, <1>13
    <2> QED BY <1>7, <2>1 DEF DailyIsOriginal
<1> QED BY <1>13, <1>14, <1>15, <1>16, StationStays

\* An update that tells no winner and no report leaves the rest of the invariant.
LEMMA QuietlyStays ==
    ASSUME StationInvariant, NEW t, station' = t, t \in StationRecords, Follows(station, t),
           CountersStarted(t), t.facts = station.facts, ValidIssuance(t),
           t.reports = station.reports, t.supplied = station.supplied,
           t.running_high = station.running_high,
           captured' = captured, accepted' = accepted
    PROVE  StationInvariant'
<1>1. StaysCurrent
    BY WinnersUntouched
<1>2. captured' \in Seq(Packets) /\ CapturedStaysDeliverable'
    BY PacketsStay
<1>3. OriginalsAreOfReports(station') /\ DailyIsOriginal(station')
    BY DEF StationInvariant, OriginalsAreOfReports, DailyIsOriginal
<1> QED BY <1>1, <1>2, <1>3, StationStays

\* A station whose counters are those of another has its issuance.
LEMMA SameIssuance ==
    ASSUME NEW s, NEW t, ValidIssuance(s), t.generation = s.generation,
           t.revision = s.revision, t.metas = s.metas,
           t.forecast = s.forecast, t.issuance = s.issuance
    PROVE  ValidIssuance(t)
BY DEF ValidIssuance, NotAhead

\* A new settlement table keeps the station's invariant.
LEMMA OraclesStay ==
    ASSUME StationInvariant, OracleUpdate PROVE StationInvariant'
<1>1. PICK rank \in Ranks, rows \in {1, 2}, supplied \in {None, 1},
           slip \in {"none", "appended", "stale"} :
        LET s == Advanced(station, "oracle")
            table == [rank_by |-> rank, rows |-> rows, meta |-> s.metas["oracle"]]
            input == [table |-> table, supplied |-> supplied]
        IN  /\ station' = [s EXCEPT
                  !.oracle = IF rank = "high" THEN table ELSE @,
                  !.oracles = IF slip = "none" THEN InPlace(@, input, RankKey)
                              ELSE IF slip = "stale" THEN @ ELSE Append(@, input)]
            /\ UNCHANGED <<captured, accepted>>
    BY DEF OracleUpdate
<1> DEFINE s == Advanced(station, "oracle")
           table == [rank_by |-> rank, rows |-> rows, meta |-> s.metas["oracle"]]
           input == [table |-> table, supplied |-> supplied]
           oracle == IF rank = "high" THEN table ELSE s.oracle
           oracles == IF slip = "none" THEN InPlace(s.oracles, input, RankKey)
                      ELSE IF slip = "stale" THEN s.oracles ELSE Append(s.oracles, input)
           t == [s EXCEPT !.oracle = oracle, !.oracles = oracles]
<1>2. station' = t /\ captured' = captured /\ accepted' = accepted
    BY <1>1
<1>3. /\ AdvancedFrom(station, "oracle", s) /\ Follows(station, s)
      /\ s \in StationRecords /\ CountersStarted(s) /\ ValidIssuance(s)
    <2>1. "oracle" \in Components
        BY DEF Components
    <2> HIDE DEF s
    <2>2. s = Advanced(station, "oracle")
        BY DEF s
    <2> QED BY <2>1, <2>2, AdvancedStays
<1> HIDE DEF s
<1>4. /\ s.oracle \in OptionalTables /\ s.oracles \in Seq(OracleInputs)
      /\ s.metas["oracle"] \in Metas
    <2>1. s.metas \in StationMetas
        BY <1>3, StationParts
    <2> QED BY <1>3, <2>1, StationParts DEF StationMetas, Components
<1>5. table \in OracleTables /\ input \in OracleInputs
    <2> HIDE DEF oracle, oracles, t
    <2>1. table \in OracleTables
        BY <1>4 DEF OracleTables
    <2> HIDE DEF table
    <2> QED BY <2>1 DEF OracleInputs
<1> HIDE DEF table, input
<1>6. oracle \in OptionalTables /\ oracles \in Seq(OracleInputs)
    <2>1. InPlace(s.oracles, input, RankKey) \in Seq(OracleInputs)
        BY <1>4, <1>5, ItemsInPlace
    <2>2. Append(s.oracles, input) \in Seq(OracleInputs)
        BY <1>4, <1>5, AppendProperties
    <2> QED BY <1>4, <1>5, <2>1, <2>2 DEF OptionalTables
<1> HIDE DEF oracle, oracles
<1>7. /\ t \in StationRecords
      /\ t.generation = s.generation /\ t.sequence = s.sequence /\ t.revision = s.revision
      /\ t.metas = s.metas /\ t.facts = s.facts /\ t.forecast = s.forecast
      /\ t.issuance = s.issuance /\ t.reports = s.reports
      /\ t.supplied = s.supplied /\ t.running_high = s.running_high
    BY <1>3, <1>6, StationParts
<1> HIDE DEF t
<1>8. Follows(station, t) /\ CountersStarted(t)
    BY <1>3, <1>7 DEF Follows, CountersStarted
<1>9. ValidIssuance(t)
    BY <1>3, <1>7, SameIssuance
<1>10. /\ s.facts = station.facts /\ s.reports = station.reports
       /\ s.supplied = station.supplied /\ s.running_high = station.running_high
    BY <1>3 DEF AdvancedFrom
<1> QED BY <1>2, <1>7, <1>8, <1>9, <1>10, QuietlyStays

\* A connection that starts over keeps the station's invariant: nothing issued before is
\* ahead of it.
LEMMA ReconnectStays ==
    ASSUME StationInvariant, Reconnect PROVE StationInvariant'
<1>1. PICK restarts \in BOOLEAN :
          station' = [station EXCEPT
              !.generation = @ + 1, !.sequence = 1,
              !.oracle = None, !.oracles = << >>,
              !.revision = IF restarts THEN 1 ELSE @ + 1,
              !.metas = [kind \in Components |->
                  [revision |-> IF restarts THEN 1 ELSE @[kind].revision,
                   generation |-> @[kind].generation + 1]]]
    BY DEF Reconnect
<1> DEFINE metas == [kind \in Components |->
                      [revision |-> IF restarts THEN 1 ELSE station.metas[kind].revision,
                       generation |-> station.metas[kind].generation + 1]]
           revision == IF restarts THEN 1 ELSE station.revision + 1
           generation == station.generation + 1
           t == [station EXCEPT !.generation = generation, !.sequence = 1,
                                !.oracle = None, !.oracles = << >>,
                                !.revision = revision, !.metas = metas]
<1>2. station' = t /\ captured' = captured /\ accepted' = accepted
    BY <1>1 DEF Reconnect
<1>3. /\ station \in StationRecords /\ CountersStarted(station) /\ ValidIssuance(station)
      /\ station.metas \in StationMetas /\ station.generation \in Nat
      /\ station.revision \in Nat
    BY StationParts DEF StationInvariant, StationTypeOK, AcceptedStaysCurrent
<1>4. \A kind \in Components :
         /\ station.metas[kind].revision \in Nat /\ station.metas[kind].generation \in Nat
         /\ station.metas[kind].revision # 0
    BY <1>3 DEF StationMetas, Metas, CountersStarted
<1>5. /\ metas \in StationMetas
      /\ \A kind \in Components : metas[kind].revision # 0 /\ metas[kind].generation # 0
    BY <1>4 DEF StationMetas, Metas
<1>6. /\ revision \in Nat /\ revision # 0 /\ generation \in Nat /\ generation # 0
      /\ station.generation < generation /\ None \in OptionalTables
      /\ << >> \in Seq(OracleInputs)
    BY <1>3 DEF OptionalTables
<1> HIDE DEF metas, revision, generation
<1>7. t \in StationRecords
    BY <1>3, <1>5, <1>6, StationParts
<1>8. /\ t.generation = generation /\ t.sequence = 1 /\ t.revision = revision
      /\ t.metas = metas /\ t.facts = station.facts /\ t.forecast = station.forecast
      /\ t.issuance = station.issuance /\ t.reports = station.reports
      /\ t.supplied = station.supplied /\ t.running_high = station.running_high
    BY <1>3, StationParts
<1> HIDE DEF t
<1>9. Follows(station, t) /\ CountersStarted(t)
    BY <1>5, <1>6, <1>8 DEF Follows, CountersStarted
<1>10. ValidIssuance(t)
    BY <1>3, <1>7, <1>8, <1>9, IssuanceLasts
<1> QED BY <1>2, <1>7, <1>8, <1>9, <1>10, QuietlyStays

\* A model's version and its issuance, as they are checked.
IssuedAs(issued, version, s) ==
    /\ issued.station_generation # 0 /\ issued.station_revision # 0
    /\ issued.forecast_generation # 0
    /\ issued.model_id = version.model_id /\ issued.version = version.version
    /\ NotAhead(issued.station_generation, issued.station_revision, s)
    /\ issued.station_generation = s.generation =>
          issued.forecast_generation =< s.metas["forecast"].generation

\* A forecast is validly issued just if every model's version is, one by one.
LEMMA IssuedModelByModel ==
    ASSUME NEW s
    PROVE  ValidIssuance(s) <=>
              /\ Len(s.issuance) = Len(s.forecast)
              /\ \A i \in DOMAIN s.forecast : IssuedAs(s.issuance[i], s.forecast[i], s)
BY DEF ValidIssuance, IssuedAs

\* A version put between others is issued with what is put between their issuances.
LEMMA IssuanceSpliced ==
    ASSUME NEW s, s.forecast \in Seq(ForecastVersions), s.issuance \in Seq(ForecastIssuances),
           ValidIssuance(s), NEW version \in ForecastVersions, NEW issued \in ForecastIssuances,
           IssuedAs(issued, version, s),
           NEW before \in SUBSET (DOMAIN s.forecast), NEW after \in SUBSET (DOMAIN s.forecast)
    PROVE  /\ Len(Spliced(s.issuance, before, issued, after))
                = Len(Spliced(s.forecast, before, version, after))
           /\ \A k \in DOMAIN Spliced(s.forecast, before, version, after) :
                 IssuedAs(Spliced(s.issuance, before, issued, after)[k],
                          Spliced(s.forecast, before, version, after)[k], s)
<1> DEFINE b == Cardinality(before)
           a == Cardinality(after)
           versions == Spliced(s.forecast, before, version, after)
           issuances == Spliced(s.issuance, before, issued, after)
<1>1. /\ DOMAIN s.issuance = DOMAIN s.forecast
      /\ \A i \in DOMAIN s.forecast : IssuedAs(s.issuance[i], s.forecast[i], s)
    BY IssuedModelByModel, LenProperties
<1>2. SplicedFrom(ForecastVersions, s.forecast, before, version, after, b, a, versions)
    BY SplicedElements
<1>3. SplicedFrom(ForecastIssuances, s.issuance, before, issued, after, b, a, issuances)
    BY <1>1, SplicedElements
<1> HIDE DEF b, a, versions, issuances
<1>4. /\ b \in Nat /\ a \in Nat
      /\ Len(versions) = b + 1 + a /\ Len(issuances) = b + 1 + a
      /\ DOMAIN versions = 1..(b + 1 + a)
    BY <1>2, <1>3 DEF SplicedFrom
<1>5. ASSUME NEW k \in DOMAIN versions PROVE IssuedAs(issuances[k], versions[k], s)
    <2>1. k \in 1..b \/ k = b + 1 \/ \E n \in 1..a : k = b + 1 + n
        <3>1. k \in 1..b \/ k = b + 1 \/ k - (b + 1) \in 1..a
            BY <1>4, <1>5
        <3>2. k \in Int /\ k = b + 1 + (k - (b + 1))
            BY <1>4, <1>5
        <3> QED BY <3>1, <3>2
    <2>2. CASE k \in 1..b
        <3>1. /\ versions[k] = s.forecast[NthPlace(before, k)]
              /\ issuances[k] = s.issuance[NthPlace(before, k)]
              /\ NthPlace(before, k) \in DOMAIN s.forecast
            BY <1>2, <1>3, <2>2 DEF SplicedFrom
        <3> QED BY <1>1, <3>1
    <2>3. CASE k = b + 1
        BY <1>2, <1>3, <2>3 DEF SplicedFrom
    <2>4. ASSUME NEW n \in 1..a, k = b + 1 + n PROVE IssuedAs(issuances[k], versions[k], s)
        <3>1. /\ versions[k] = s.forecast[NthPlace(after, n)]
              /\ issuances[k] = s.issuance[NthPlace(after, n)]
              /\ NthPlace(after, n) \in DOMAIN s.forecast
            BY <1>2, <1>3, <2>4 DEF SplicedFrom
        <3> QED BY <1>1, <3>1
    <2> QED BY <2>1, <2>2, <2>3, <2>4
<1> QED BY <1>4, <1>5 DEF versions, issuances

\* A new forecast keeps the station's invariant: every version is issued at counters
\* already reached.
LEMMA ForecastsStay ==
    ASSUME StationInvariant, ForecastUpdate PROVE StationInvariant'
<1>1. PICK model \in ForecastModels, version \in {1, 2} :
        LET s == Advanced(station, "forecast")
            Key(f) == <<f.model_id>>
        IN  /\ station' = [s EXCEPT
                  !.forecast = InPlace(@, [model_id |-> model, version |-> version], Key),
                  !.issuance = InPlace(@,
                      [model_id |-> model, version |-> version,
                       station_generation |-> s.generation,
                       station_revision |-> s.revision,
                       forecast_generation |-> s.metas["forecast"].generation], Key)]
            /\ UNCHANGED <<captured, accepted>>
    BY DEF ForecastUpdate
<1> DEFINE s == Advanced(station, "forecast")
           told == [model_id |-> model, version |-> version]
           issued == [model_id |-> model, version |-> version,
                      station_generation |-> s.generation,
                      station_revision |-> s.revision,
                      forecast_generation |-> s.metas["forecast"].generation]
           before(list) == {i \in DOMAIN list : Precedes(<<list[i].model_id>>, <<model>>)}
           after(list) == {i \in DOMAIN list : Precedes(<<model>>, <<list[i].model_id>>)}
           forecast == Spliced(s.forecast, before(s.forecast), told, after(s.forecast))
           issuance == Spliced(s.issuance, before(s.issuance), issued, after(s.issuance))
           t == [s EXCEPT !.forecast = forecast, !.issuance = issuance]
<1>2. station' = t /\ captured' = captured /\ accepted' = accepted
    BY <1>1 DEF InPlace, Selected, Spliced
<1>3. /\ AdvancedFrom(station, "forecast", s) /\ Follows(station, s)
      /\ s \in StationRecords /\ CountersStarted(s) /\ ValidIssuance(s)
    <2>1. "forecast" \in Components
        BY DEF Components
    <2> HIDE DEF s
    <2>2. s = Advanced(station, "forecast")
        BY DEF s
    <2> QED BY <2>1, <2>2, AdvancedStays
<1> HIDE DEF s
<1>4. /\ s.forecast \in Seq(ForecastVersions) /\ s.issuance \in Seq(ForecastIssuances)
      /\ s.generation \in Nat /\ s.revision \in Nat
      /\ s.metas["forecast"].generation \in Nat /\ s.metas["forecast"].generation # 0
      /\ s.generation # 0 /\ s.revision # 0
    <2>1. s.metas \in StationMetas
        BY <1>3, StationParts
    <2>2. "forecast" \in Components
        BY DEF Components
    <2>3. s.metas["forecast"].generation \in Nat
        BY <2>1, <2>2 DEF StationMetas, Metas
    <2> QED BY <1>3, <2>2, <2>3, StationParts DEF CountersStarted
<1>5. version \in Nat
    OBVIOUS
<1>6. told \in ForecastVersions /\ issued \in ForecastIssuances /\ IssuedAs(issued, told, s)
    <2>1. told \in ForecastVersions
        BY <1>5 DEF ForecastVersions
    <2>2. issued \in ForecastIssuances
        BY <1>4, <1>5 DEF ForecastIssuances
    <2>3. IssuedAs(issued, told, s)
        BY <1>4 DEF IssuedAs, NotAhead
    <2> QED BY <2>1, <2>2, <2>3
<1>7. /\ before(s.issuance) = before(s.forecast) /\ after(s.issuance) = after(s.forecast)
    <2>1. /\ Len(s.issuance) = Len(s.forecast)
          /\ \A i \in DOMAIN s.forecast : s.issuance[i].model_id = s.forecast[i].model_id
        BY <1>3 DEF ValidIssuance
    <2>2. DOMAIN s.issuance = DOMAIN s.forecast
        BY <1>4, <2>1, LenProperties
    <2> QED BY <2>1, <2>2
<1> DEFINE low == before(s.forecast)
           high == after(s.forecast)
<1>8. low \in SUBSET (DOMAIN s.forecast) /\ high \in SUBSET (DOMAIN s.forecast)
    OBVIOUS
<1>9. /\ forecast = Spliced(s.forecast, low, told, high)
      /\ issuance = Spliced(s.issuance, low, issued, high)
    BY <1>7
<1> HIDE DEF before, after, low, high, told, issued, forecast, issuance
<1>10. /\ Len(issuance) = Len(forecast)
       /\ \A k \in DOMAIN forecast : IssuedAs(issuance[k], forecast[k], s)
    BY <1>3, <1>4, <1>6, <1>8, <1>9, IssuanceSpliced
<1>11. forecast \in Seq(ForecastVersions) /\ issuance \in Seq(ForecastIssuances)
    <2>1. DOMAIN s.issuance = DOMAIN s.forecast
        BY <1>3, <1>4, LenProperties DEF ValidIssuance
    <2>2. forecast \in Seq(ForecastVersions)
        BY <1>4, <1>6, <1>8, <1>9, SplicedHolds DEF HoldsOf
    <2>3. issuance \in Seq(ForecastIssuances)
        BY <1>4, <1>6, <1>8, <1>9, <2>1, SplicedHolds DEF HoldsOf
    <2> QED BY <2>2, <2>3
<1>12. /\ t \in StationRecords
       /\ t.generation = s.generation /\ t.sequence = s.sequence /\ t.revision = s.revision
       /\ t.metas = s.metas /\ t.facts = s.facts /\ t.forecast = forecast
       /\ t.issuance = issuance /\ t.reports = s.reports
       /\ t.supplied = s.supplied /\ t.running_high = s.running_high
    BY <1>3, <1>11, StationParts
<1> HIDE DEF t
<1>13. Follows(station, t) /\ CountersStarted(t)
    BY <1>3, <1>12 DEF Follows, CountersStarted
<1>14. ValidIssuance(t)
    <2>1. \A k \in DOMAIN t.forecast : IssuedAs(t.issuance[k], t.forecast[k], t)
        BY <1>10, <1>12 DEF IssuedAs, NotAhead
    <2> QED BY <1>10, <1>12, <2>1, IssuedModelByModel
<1>15. /\ s.facts = station.facts /\ s.reports = station.reports
       /\ s.supplied = station.supplied /\ s.running_high = station.running_high
    BY <1>3 DEF AdvancedFrom
<1> QED BY <1>2, <1>12, <1>13, <1>14, <1>15, QuietlyStays

\* The station's invariant holds at the start, and every update keeps it.
LEMMA StationStarts ==
    StationInit => StationInvariant
<1> SUFFICES ASSUME StationInit PROVE StationInvariant
    OBVIOUS
<1>1. station = FreshStation /\ captured = << >> /\ accepted = NoFacts
    BY DEF StationInit
<1>2. station \in StationRecords
    <2> DEFINE metas == [kind \in Components |-> [revision |-> 1, generation |-> 1]]
               supplied == [observation |-> None, high |-> None, daily |-> None,
                            reports |-> << >>, episodes |-> << >>]
    <2>1. metas \in StationMetas
        BY DEF StationMetas, Metas
    <2>2. supplied \in SuppliedStations
        BY SuppliedParts
    <2>3. NoFacts \in WeatherFacts
        BY DEF NoFacts, WeatherFacts
    <2>4. None \in Observations /\ None \in RunningHighs /\ None \in OptionalTables
        BY DEF Observations, RunningHighs, OptionalTables
    <2>5. /\ << >> \in Seq(StationReports) /\ << >> \in Seq(StationEpisodes)
          /\ << >> \in Seq(ForecastVersions) /\ << >> \in Seq(ForecastIssuances)
          /\ << >> \in Seq(OracleInputs)
        OBVIOUS
    <2>6. FreshStation =
              [generation |-> 1, sequence |-> 1, revision |-> 1, metas |-> metas,
               observation |-> None, running_high |-> None, high |-> None,
               reports |-> << >>, episodes |-> << >>, forecast |-> << >>, issuance |-> << >>,
               oracle |-> None, oracles |-> << >>, facts |-> NoFacts, supplied |-> supplied]
        BY DEF FreshStation
    <2> HIDE DEF metas, supplied
    <2> QED BY <1>1, <2>1, <2>2, <2>3, <2>4, <2>5, <2>6, StationParts
<1>3. /\ station.generation = 1 /\ station.sequence = 1 /\ station.revision = 1
      /\ station.metas = [kind \in Components |-> [revision |-> 1, generation |-> 1]]
      /\ station.facts = NoFacts /\ station.forecast = << >> /\ station.issuance = << >>
      /\ station.reports = << >>
      /\ station.supplied.reports = << >> /\ station.supplied.daily = None
    BY <1>1 DEF FreshStation
<1>4. \A kind \in Components : station.metas[kind] = [revision |-> 1, generation |-> 1]
    BY <1>3
<1>5. CountersStarted(station)
    BY <1>3, <1>4 DEF CountersStarted
<1>6. \A field \in WeatherFields : station.facts[field] = None /\ accepted[field] = None
    BY <1>1, <1>3 DEF NoFacts
<1>7. accepted \in [WeatherFields -> {None} \cup Originals]
    BY <1>1 DEF NoFacts
<1>8. DOMAIN << >> = {} /\ Len(<< >>) = 0 /\ captured \in Seq(Packets)
    BY <1>1
<1>9. ValidCurrentWeather(station) /\ ValidIssuance(station)
    BY <1>3, <1>6, <1>8 DEF ValidCurrentWeather, ValuesAreValid, ValidIssuance
<1>10. AcceptedStaysCurrent
    BY <1>6, <1>9 DEF AcceptedStaysCurrent
<1>11. CapturedStaysDeliverable
    BY <1>1, <1>8, AllDeliverable
<1>12. OriginalsAreOfReports(station) /\ DailyIsOriginal(station)
    BY <1>3, <1>8 DEF OriginalsAreOfReports, DailyIsOriginal
<1> QED BY <1>2, <1>5, <1>7, <1>8, <1>10, <1>11, <1>12 DEF StationInvariant, StationTypeOK

\* Every fold of the station's feed keeps its invariant.
LEMMA StationFolds ==
    ASSUME StationInvariant, now \in Times, StationFold PROVE StationInvariant'
<1>1. CASE AcceptObservation BY <1>1, ObservationsStay
<1>2. CASE AcceptReport BY <1>2, ReportsStay
<1>3. CASE AcceptExtreme BY <1>3, ExtremesStay
<1>4. CASE AcceptEpisode BY <1>4, EpisodesStay
<1>5. CASE DailyOriginal BY <1>5, DailyStays
<1>6. CASE ForecastUpdate BY <1>6, ForecastsStay
<1>7. CASE OracleUpdate BY <1>7, OraclesStay
<1>8. CASE Reconnect BY <1>8, ReconnectStays
<1> QED BY <1>1, <1>2, <1>3, <1>4, <1>5, <1>6, <1>7, <1>8 DEF StationFold

\* What is left to deliver is what waited.
LEMMA DeliveryKeepsStation ==
    ASSUME StationInvariant, Deliver PROVE StationInvariant'
<1>1. /\ captured \in Seq(Packets) /\ captured # << >> /\ captured' = Tail(captured)
      /\ station' = station /\ accepted' = accepted
    BY DEF Deliver, StationInvariant, StationTypeOK
<1>2. /\ captured' \in Seq(Packets) /\ Len(captured) \in Nat /\ Len(captured) # 0
      /\ DOMAIN captured = 1..Len(captured)
      /\ DOMAIN captured' = 1..(Len(captured) - 1)
      /\ \A i \in 1..(Len(captured) - 1) : captured'[i] = captured[i + 1]
    <2>1. captured' \in Seq(Packets) /\ Len(captured') = Len(captured) - 1
        BY <1>1, HeadTailProperties
    <2>2. \A i \in 1..(Len(captured) - 1) : captured'[i] = captured[i + 1]
        BY <1>1, HeadTailProperties
    <2>3. /\ DOMAIN captured' = 1..Len(captured')
          /\ DOMAIN captured = 1..Len(captured) /\ Len(captured) \in Nat
        BY <1>1, <2>1, LenProperties
    <2>4. Len(captured) # 0
        BY <1>1, EmptySeq
    <2> QED BY <2>1, <2>2, <2>3, <2>4
<1>3. \A i \in DOMAIN captured' : Deliverable(captured'[i], station)
    <2>1. \A i \in DOMAIN captured : Deliverable(captured[i], station)
        BY AllDeliverable DEF StationInvariant
    <2>2. \A i \in DOMAIN captured' : i + 1 \in DOMAIN captured
        BY <1>2
    <2> QED BY <1>2, <2>1, <2>2
<1>4. CapturedStaysDeliverable'
    BY <1>1, <1>3 DEF CapturedStaysDeliverable, Deliverable, TellsItself, TriggerOf
<1>5. AcceptedStaysCurrent'
    BY <1>1 DEF StationInvariant, AcceptedStaysCurrent
<1> QED BY <1>1, <1>2, <1>4, <1>5 DEF StationInvariant, StationTypeOK

-----------------------------------------------------------------------------
(* The station: what is read of it *)

\* Rounding moves a temperature by less than half a milli-degree.
LEMMA RoundedIsNear ==
    ASSUME NEW c \in Int
    PROVE  Rounded(c) \in Int /\ c - 9 * Rounded(c) \in -4..4
BY DEF Rounded

\* The running high that is shown is the owner's within the rounding of its precision; one
\* supplied in both units is so in Celsius, the unit it is compared in.
LEMMA HighIsCurrent ==
    ASSUME StationInvariant, station.running_high # None
    PROVE  LET daily == station.supplied.daily
               shown == LegacyHigh(station)
               Near(f) == f - FahrenheitOf(Ninths(station.running_high)) \in -13..13
           IN  /\ shown # None
               /\ \/ Near(shown)
                  \/ /\ daily # None /\ daily.c # None
                     /\ shown = daily.f /\ Near(FahrenheitOf(daily.c))
<1> DEFINE rh == station.running_high
           daily == station.supplied.daily
           derived == FahrenheitOf(Ninths(rh))
           shown == LegacyHigh(station)
           Near(f) == f - derived \in -13..13
<1>1. rh \in Int /\ derived = 9 * rh + 160000 /\ derived \in Int /\ None \notin Int
    <2>1. rh \in RunningHighs
        BY StationParts DEF StationInvariant, StationTypeOK
    <2>2. rh \in Int
        BY <2>1, RoundedToWhole DEF RunningHighs
    <2> HIDE DEF rh
    <2> QED BY <2>2, TimesAssumption DEF FahrenheitOf, Ninths
<1>2. shown = IF daily = None THEN derived
              ELSE IF ~CurrentDaily(daily, rh) THEN derived
              ELSE IF daily.f # None THEN daily.f
              ELSE IF daily.c # None THEN FahrenheitOf(daily.c)
              ELSE derived
    BY DEF LegacyHigh
<1>3. daily # None => \E v \in Temperatures : daily \in DailyOriginals(v)
    BY DEF StationInvariant, DailyIsOriginal
<1> HIDE DEF rh, daily, derived, shown
<1>4. ASSUME shown = derived PROVE shown # None /\ Near(shown)
    BY <1>1, <1>4
<1>5. ASSUME daily # None, CurrentDaily(daily, rh)
      PROVE  /\ shown # None
             /\ Near(shown) \/ (daily.c # None /\ shown = daily.f
                                /\ Near(FahrenheitOf(daily.c)))
    <2>1. PICK v \in Temperatures : daily \in DailyOriginals(v)
        BY <1>3, <1>5
    <2>2. /\ v \in Int /\ FahrenheitOf(v) = v + 160000 /\ FahrenheitOf(v) \in Int
          /\ CelsiusOf(FahrenheitOf(v)) = v
        BY RoundedToWhole DEF FahrenheitOf, CelsiusOf
    <2>3. LET c == IF daily.c # None THEN daily.c
                   ELSE IF daily.f # None THEN CelsiusOf(daily.f) ELSE None
          IN  c # None /\ Rounded(c) - rh \in -1..1
        BY <1>1, <1>5 DEF CurrentDaily
    <2>4. \/ daily = OriginalOf(v, {"c"}) \/ daily = OriginalOf(v, {"f"})
          \/ \E other \in Temperatures : daily = [c |-> v, f |-> FahrenheitOf(other)]
        BY <2>1 DEF DailyOriginals
    <2>5. Rounded(v) - rh \in -1..1 => Near(FahrenheitOf(v))
        <3>1. Rounded(v) \in Int /\ v - 9 * Rounded(v) \in -4..4
            BY <2>2, RoundedIsNear
        <3> QED BY <1>1, <2>2, <3>1
    <2>6. CASE daily = OriginalOf(v, {"c"})
        <3>1. daily.c = v /\ daily.f = None
            BY <2>6 DEF OriginalOf
        <3>2. shown = FahrenheitOf(v)
            BY <1>1, <1>2, <1>5, <2>2, <3>1
        <3>3. Rounded(v) - rh \in -1..1
            BY <1>1, <2>2, <2>3, <3>1
        <3> QED BY <1>1, <2>2, <2>5, <3>2, <3>3
    <2>7. CASE daily = OriginalOf(v, {"f"})
        <3>1. daily.c = None /\ daily.f = FahrenheitOf(v)
            BY <2>7 DEF OriginalOf
        <3>2. shown = FahrenheitOf(v)
            BY <1>1, <1>2, <1>5, <2>2, <3>1
        <3>3. Rounded(v) - rh \in -1..1
            BY <1>1, <2>2, <2>3, <3>1
        <3> QED BY <1>1, <2>2, <2>5, <3>2, <3>3
    <2>8. ASSUME NEW other \in Temperatures, daily = [c |-> v, f |-> FahrenheitOf(other)]
          PROVE  /\ shown # None
                 /\ daily.c # None /\ shown = daily.f /\ Near(FahrenheitOf(daily.c))
        <3>1. daily.c = v /\ daily.f = FahrenheitOf(other) /\ FahrenheitOf(other) \in Int
            BY <2>8, RoundedToWhole DEF FahrenheitOf
        <3>2. shown = daily.f
            BY <1>1, <1>2, <1>5, <3>1
        <3>3. Rounded(v) - rh \in -1..1
            BY <1>1, <2>2, <2>3, <3>1
        <3> QED BY <1>1, <2>2, <2>5, <3>1, <3>2, <3>3
    <2> QED BY <2>4, <2>6, <2>7, <2>8
<1> QED BY <1>2, <1>4, <1>5 DEF rh, daily, derived, shown

\* A report is told by the original of its own revision, or as it was derived.
LEMMA ReportIsCurrent ==
    ASSUME StationInvariant, NEW i \in DOMAIN station.reports
    PROVE  Tells(ReadReport(station, station.reports[i]).value, station.reports[i].value)
<1> DEFINE report == station.reports[i]
           originals == station.supplied.reports
           places == {k \in DOMAIN originals : originals[k].type = report.type}
           original == FirstAt(originals, places)
<1>1. /\ originals \in Seq(SuppliedReports) /\ report \in StationReports
      /\ report.value \in DerivedValues
    <2>1. station.supplied \in SuppliedStations /\ station.reports \in Seq(StationReports)
        BY StationParts DEF StationInvariant, StationTypeOK
    <2>2. originals \in Seq(SuppliedReports)
        BY <2>1, SuppliedParts
    <2>3. report \in StationReports
        BY <2>1, LenProperties
    <2> QED BY <2>2, <2>3 DEF StationReports
<1>2. ReadReport(station, report) =
          IF /\ original # None
             /\ original.id = report.id
             /\ original.revision = report.revision
          THEN SuppliedReport(original) ELSE DerivedReport(report)
    BY DEF ReadReport, FirstWhere
<1> HIDE DEF original
<1>3. ASSUME original # None, original.revision = report.revision
      PROVE  Tells(original.value, report.value)
    <2>1. places # {}
        BY <1>3 DEF original, FirstAt
    <2>2. PICK k \in places : original = originals[k]
        <3>1. places \in SUBSET (DOMAIN originals)
            OBVIOUS
        <3> HIDE DEF places, originals
        <3> QED BY <1>1, <2>1, <3>1, FirstIsThere DEF original
    <2>3. TellsReport(originals[k], report) /\ originals[k].type = report.type
        BY <2>2 DEF StationInvariant, OriginalsAreOfReports
    <2> QED BY <1>3, <2>2, <2>3 DEF TellsReport
<1>4. SuppliedReport(original).value = original.value
    BY DEF SuppliedReport
<1>5. /\ DerivedReport(report).value = InBothUnits(report.value)
      /\ Tells(InBothUnits(report.value), report.value)
    BY <1>1, DerivedTells DEF DerivedReport
<1> HIDE DEF report, originals, places
<1> QED BY <1>2, <1>3, <1>4, <1>5 DEF report

\* The table found in the owner's rank is that of the owner's table, as it is or by an
\* original in its place.
LEMMA OracleIsCurrent ==
    ASSUME StationInvariant, ValidOracles(station)
    PROVE  LET table == OracleTable(ReadStation(station, FALSE), "high")
           IN  /\ station.oracle = None => table = None
               /\ station.oracle # None =>
                     /\ table # None /\ table.meta = station.oracle.meta
                     /\ table.origin = "Derived" => table.rows = station.oracle.rows
<1> DEFINE oracles == station.oracles
           shown == [k \in DOMAIN oracles |-> ReadOracle(oracles[k])]
           places == {k \in DOMAIN shown : shown[k].rank_by = "high"}
           tables == {oracles[i].table : i \in DOMAIN oracles}
           Own == {table \in tables : table.rank_by = "high"}
           read == OracleTable(ReadStation(station, FALSE), "high")
           Records == {ReadOracle(input) : input \in OracleInputs}
<1>1. oracles \in Seq(OracleInputs)
    BY StationParts DEF StationInvariant, StationTypeOK
<1>2. ReadStation(station, FALSE).oracle_tables = shown
    BY DEF ReadStation
<1>3. read = FirstAt(shown, places)
    BY <1>2 DEF OracleTable, FirstWhere
<1>4. /\ station.oracle # None => Own = {station.oracle}
      /\ station.oracle = None => tables = {}
    BY DEF ValidOracles
<1> HIDE DEF read
<1>5. ASSUME station.oracle = None PROVE read = None
    <2>1. places = {}
        BY <1>4, <1>5
    <2> HIDE DEF places, shown
    <2> QED BY <1>3, <2>1 DEF FirstAt
<1>6. ASSUME station.oracle # None
      PROVE  /\ read # None /\ read.meta = station.oracle.meta
             /\ read.origin = "Derived" => read.rows = station.oracle.rows
    <2>1. \A k \in places : oracles[k].table = station.oracle
        <3> TAKE k \in places
        <3>1. k \in DOMAIN oracles /\ oracles[k].table.rank_by = "high"
            BY DEF ReadOracle
        <3>2. oracles[k].table \in Own
            BY <3>1
        <3> HIDE DEF Own
        <3> QED BY <1>4, <1>6, <3>2
    <2>2. places # {} /\ places \in SUBSET (DOMAIN shown)
        <3>1. station.oracle \in Own
            BY <1>4, <1>6
        <3>2. PICK k \in DOMAIN oracles : oracles[k].table.rank_by = "high"
            BY <3>1
        <3>3. k \in DOMAIN shown /\ shown[k].rank_by = "high"
            BY <3>2 DEF ReadOracle
        <3> QED BY <3>3
    <2>3. shown \in Seq(Records)
        <3>1. Len(oracles) \in Nat /\ DOMAIN oracles = 1..Len(oracles)
            BY <1>1, LenProperties
        <3>2. \A k \in DOMAIN oracles : ReadOracle(oracles[k]) \in Records
            BY <1>1, LenProperties
        <3> HIDE DEF oracles, Records
        <3>3. shown \in [1..Len(oracles) -> Records]
            BY <3>1, <3>2
        <3> HIDE DEF shown
        <3> QED BY <3>1, <3>3, FunctionIsSeq
    <2> HIDE DEF places, Records
    <2>4. PICK k \in places : FirstAt(shown, places) = shown[k]
        <3> HIDE DEF shown
        <3> QED BY <2>2, <2>3, FirstIsThere
    <2>5. read = ReadOracle(oracles[k]) /\ oracles[k] \in OracleInputs
        BY <1>1, <1>3, <2>2, <2>4, LenProperties
    <2> HIDE DEF shown, oracles
    <2>6. PICK input \in OracleInputs : read = ReadOracle(input) /\ input.table = station.oracle
        BY <2>1, <2>4, <2>5
    <2>7. /\ read.meta = station.oracle.meta
          /\ read.origin = "Derived" => read.rows = station.oracle.rows
        BY <2>6 DEF ReadOracle
    <2>8. read # None
        <3>1. input.table \in OracleTables /\ input.supplied \in {None} \cup Nat
            BY DEF OracleInputs
        <3>2. read \in ReadTables
            BY <2>6, <3>1 DEF ReadOracle, OracleTables, ReadTables
        <3> QED BY <3>2, StationNoneAssumption
    <2> QED BY <2>7, <2>8
<1> QED BY <1>5, <1>6 DEF read

\* What a station shows as current is what its owner has: the high within its rounding, each
\* report by its own revision, the table of the owner's query.
LEMMA OwnersIsShown ==
    StationInvariant => ShownIsTheOwners
<1> SUFFICES ASSUME StationInvariant PROVE ShownIsTheOwners
    OBVIOUS
<1> DEFINE read == ReadStation(station, FALSE)
           table == OracleTable(read, "high")
           daily == station.supplied.daily
           Near(f) == f - FahrenheitOf(Ninths(station.running_high)) \in -13..13
<1>1. /\ read.weather.running_high = LegacyHigh(station)
      /\ \A i \in DOMAIN station.reports :
            read.reports[i] = ReadReport(station, station.reports[i])
    BY DEF ReadStation, ReadWeather
<1>2. ValidStation(station) =>
          /\ table = None <=> station.oracle = None
          /\ table # None => table.meta = station.oracle.meta
          /\ table # None /\ table.origin = "Derived" => table.rows = station.oracle.rows
    BY OracleIsCurrent DEF ValidStation
<1> HIDE DEF read, table
<1>3. station.running_high # None =>
          /\ read.weather.running_high # None
          /\ \/ Near(read.weather.running_high)
             \/ /\ daily # None /\ daily.c # None
                /\ read.weather.running_high = daily.f /\ Near(FahrenheitOf(daily.c))
    BY <1>1, HighIsCurrent
<1>4. \A i \in DOMAIN station.reports :
         Tells(read.reports[i].value, station.reports[i].value)
    BY <1>1, ReportIsCurrent
<1> QED BY <1>2, <1>3, <1>4 DEF ShownIsTheOwners, read, table

-----------------------------------------------------------------------------
(* Lists in the order of their keys *)

\* The lexical order of tuples of one length is transitive.
LEMMA PrecedesIsTransitive ==
    ASSUME NEW n \in Nat, NEW a \in [1..n -> Int], NEW b \in [1..n -> Int],
           NEW c \in [1..n -> Int], Precedes(a, b), Precedes(b, c)
    PROVE  Precedes(a, c)
<1>1. PICK i \in 1..n : a[i] < b[i] /\ \A j \in 1..(i - 1) : a[j] = b[j]
    BY DEF Precedes
<1>2. PICK k \in 1..n : b[k] < c[k] /\ \A j \in 1..(k - 1) : b[j] = c[j]
    BY DEF Precedes
<1>3. CASE i < k
    <2>1. i \in 1..(k - 1) /\ 1..(i - 1) \subseteq 1..(k - 1)
        BY <1>3
    <2>2. a[i] < c[i] /\ \A j \in 1..(i - 1) : a[j] = c[j]
        BY <1>1, <1>2, <2>1
    <2> QED BY <2>2 DEF Precedes
<1>4. CASE i = k
    <2>1. a[i] < c[i]
        BY <1>1, <1>2, <1>4
    <2>2. \A j \in 1..(i - 1) : a[j] = c[j]
        BY <1>1, <1>2, <1>4
    <2> QED BY <2>1, <2>2 DEF Precedes
<1>5. CASE k < i
    <2>1. k \in 1..(i - 1) /\ 1..(k - 1) \subseteq 1..(i - 1)
        BY <1>5
    <2>2. a[k] < c[k] /\ \A j \in 1..(k - 1) : a[j] = c[j]
        BY <1>1, <1>2, <2>1
    <2> QED BY <2>2 DEF Precedes
<1> QED BY <1>3, <1>4, <1>5

\* A list that is sorted neighbour by neighbour is sorted.
LEMMA SortedIsOrdered ==
    ASSUME NEW len \in Nat, NEW n \in Nat, NEW keys \in [1..len -> [1..n -> Int]], Len(keys) = len
    PROVE  /\ StrictlySorted(keys) =>
                 \A i, j \in 1..len : i < j => Precedes(keys[i], keys[j])
           /\ NewestFirst(keys) =>
                 \A i, j \in 1..len : i < j => Precedes(keys[j], keys[i])
<1>1. ASSUME StrictlySorted(keys)
      PROVE  \A i, j \in 1..len : i < j => Precedes(keys[i], keys[j])
    <2> DEFINE R == {p \in (1..len) \X (1..len) : Precedes(keys[p[1]], keys[p[2]])}
    <2>1. \A i, j \in 1..len : <<i, j>> \in R <=> Precedes(keys[i], keys[j])
        OBVIOUS
    <2> HIDE DEF R
    <2>2. \A i \in 1..(len - 1) : <<i, i + 1>> \in R
        BY <1>1, <2>1 DEF StrictlySorted
    <2>3. \A i, j, k \in 1..len : <<i, j>> \in R /\ <<j, k>> \in R => <<i, k>> \in R
        <3> TAKE i, j, k \in 1..len
        <3>1. keys[i] \in [1..n -> Int] /\ keys[j] \in [1..n -> Int] /\ keys[k] \in [1..n -> Int]
            OBVIOUS
        <3> QED BY <2>1, <3>1, PrecedesIsTransitive
    <2>4. \A i, j \in 1..len : i < j => <<i, j>> \in R
        BY <2>2, <2>3, NeighboursOrderAll
    <2> QED BY <2>1, <2>4
<1>2. ASSUME NewestFirst(keys)
      PROVE  \A i, j \in 1..len : i < j => Precedes(keys[j], keys[i])
    <2> DEFINE R == {p \in (1..len) \X (1..len) : Precedes(keys[p[2]], keys[p[1]])}
    <2>1. \A i, j \in 1..len : <<i, j>> \in R <=> Precedes(keys[j], keys[i])
        OBVIOUS
    <2> HIDE DEF R
    <2>2. \A i \in 1..(len - 1) : <<i, i + 1>> \in R
        BY <1>2, <2>1 DEF NewestFirst
    <2>3. \A i, j, k \in 1..len : <<i, j>> \in R /\ <<j, k>> \in R => <<i, k>> \in R
        <3> TAKE i, j, k \in 1..len
        <3>1. keys[i] \in [1..n -> Int] /\ keys[j] \in [1..n -> Int] /\ keys[k] \in [1..n -> Int]
            OBVIOUS
        <3> QED BY <2>1, <3>1, PrecedesIsTransitive
    <2>4. \A i, j \in 1..len : i < j => <<i, j>> \in R
        BY <2>2, <2>3, NeighboursOrderAll
    <2> QED BY <2>1, <2>4
<1> QED BY <1>1, <1>2

\* Where the keys are numbers, so are the places in order of them.
Increasing(len, numbers) == \A i, j \in 1..len : i < j => numbers[i] < numbers[j]

Decreasing(len, numbers) == \A i, j \in 1..len : i < j => numbers[j] < numbers[i]

\* Lists of one-number keys are in order as their numbers are.
LEMMA NumbersInOrder ==
    ASSUME NEW len \in Nat, NEW numbers \in [1..len -> Int],
           NEW keys, keys = [i \in 1..len |-> <<numbers[i]>>]
    PROVE  /\ StrictlySorted(keys) => Increasing(len, numbers)
           /\ NewestFirst(keys) => Decreasing(len, numbers)
<1>1. \A i \in 1..len : numbers[i] \in Int /\ <<numbers[i]>> \in [1..1 -> Int]
    OBVIOUS
<1>2. keys \in [1..len -> [1..1 -> Int]] /\ \A i \in 1..len : keys[i] = <<numbers[i]>>
    BY <1>1
<1>3. Len(keys) = len
    BY <1>2, FunctionIsSeq
<1>4. /\ StrictlySorted(keys) =>
            \A i, j \in 1..len : i < j => Precedes(keys[i], keys[j])
      /\ NewestFirst(keys) =>
            \A i, j \in 1..len : i < j => Precedes(keys[j], keys[i])
    BY <1>2, <1>3, SortedIsOrdered
<1>5. \A i, j \in 1..len : Precedes(keys[i], keys[j]) <=> numbers[i] < numbers[j]
    BY <1>1, <1>2, OneComponent
<1> QED BY <1>4, <1>5 DEF Increasing, Decreasing

-----------------------------------------------------------------------------
(* The nowcast *)

\* A forecast's lead that is as long as the levels has the value of each; the feed's slip
\* leaves one out.
IsWhole(f) ==
    \A i \in DOMAIN f.leads : Len(f.leads[i].q) = Len(f.levels) => f.leads[i].q = f.levels

WholeStationForecasts == {f \in StationForecasts : IsWhole(f)}

WholeStations ==
    [station_id : Members \cup Strangers, issues : Seq(WholeStationForecasts)]

\* What the parts of a nowcast are of, by name.
ForecastLists == Seq(WholeStations)
ArtifactLists == Seq(Artifacts)
MetarLists == Seq(MemberMetars)
NumberLists == Seq(Int)
LastIssues == NowcastIssues \cup {None}
LastHeartbeats == Heartbeats \cup {None}
OptionalReasons == Reasons \cup {None}
Provenances == Seq(Times)

HeldNowcasts ==
    [seq : Nat, stations : NumberLists, forecasts : ForecastLists,
     artifacts : ArtifactLists, member_metars : MetarLists,
     last_issue : LastIssues, heartbeat : LastHeartbeats]

HeldInputs == [supplied : HeldNowcasts, feed : ComponentMetas, unavailable : OptionalReasons]

NowcastInvariant == nowcast \in HeldInputs

\* The decision time has a time before it, which the feeds may tell.
ClockInvariant == now \in 1..MaxTime

\* A list of elements of a set is a list of elements of a larger one.
LEMMA ListsOfMore ==
    ASSUME NEW S, NEW T, S \subseteq T, NEW s \in Seq(S)
    PROVE  s \in Seq(T)
<1>1. Len(s) \in Nat /\ s \in [1..Len(s) -> S]
    BY LenProperties
<1>2. s \in [1..Len(s) -> T]
    BY <1>1
<1> QED BY <1>1, <1>2, FunctionIsSeq

\* The strengthened type of the nowcast is what the contract's types can hold.
LEMMA NowcastIsTyped ==
    NowcastInvariant => NowcastTypeOK
<1> SUFFICES ASSUME NowcastInvariant PROVE NowcastTypeOK
    OBVIOUS
<1>1. Seq(WholeStationForecasts) \subseteq Seq(StationForecasts)
    BY ListsOfMore DEF WholeStationForecasts
<1>2. WholeStations \subseteq NowcastStations
    <2> DEFINE A == Seq(WholeStationForecasts)
               B == Seq(StationForecasts)
    <2>1. A \subseteq B
        BY <1>1
    <2>2. WholeStations = [station_id : Members \cup Strangers, issues : A]
        BY DEF WholeStations
    <2>3. NowcastStations = [station_id : Members \cup Strangers, issues : B]
        BY DEF NowcastStations
    <2> HIDE DEF A, B
    <2> QED BY <2>1, <2>2, <2>3
<1>3. ForecastLists \subseteq Seq(NowcastStations)
    BY <1>2, ListsOfMore DEF ForecastLists
<1>4. HeldNowcasts \subseteq SuppliedNowcasts
    <2> DEFINE F == Seq(NowcastStations)
    <2>1. SuppliedNowcasts =
              [seq : Nat, stations : NumberLists, forecasts : F,
               artifacts : ArtifactLists, member_metars : MetarLists,
               last_issue : LastIssues, heartbeat : LastHeartbeats]
        BY DEF SuppliedNowcasts, NumberLists, ArtifactLists, MetarLists, LastIssues,
               LastHeartbeats
    <2>2. ForecastLists \subseteq F
        BY <1>3
    <2> HIDE DEF F
    <2> QED BY <2>1, <2>2 DEF HeldNowcasts
<1> QED BY <1>4 DEF NowcastInvariant, NowcastTypeOK, HeldInputs, OptionalReasons

\* The times a feed may tell.
LEMMA TimesToTell ==
    ASSUME ClockInvariant
    PROVE  /\ now \in Times /\ now - 1 \in Times /\ now \in Int
           /\ \A d \in Nat : Later(d) \in Times
<1>1. MaxTime \in Nat /\ now \in Int /\ 1 =< now /\ now =< MaxTime
    BY TimesAssumption DEF ClockInvariant
<1>2. \A d \in Nat : Later(d) \in Times
    BY <1>1 DEF Later, SaturatingAdd, Times
<1> QED BY <1>1, <1>2 DEF Times

\* The owner's clock stays within its range.
LEMMA ClockRuns ==
    ASSUME ClockInvariant, UNCHANGED now \/ Tick PROVE ClockInvariant'
BY TimesAssumption DEF ClockInvariant, Tick

\* What is known of a nowcast's part is a record of these fields.
LEMMA MetasAre ==
    ComponentMetas =
        [authority : Authorities, revision : Nat, generation : Nat,
         updated_at : OptionalTimes, provenance : Provenances]
BY DEF ComponentMetas, OptionalTimes, Provenances

\* The metadata of a feed that is started, or stamped with a time.
LEMMA MetasAreStamped ==
    ASSUME NEW authority \in Authorities, NEW at \in Times, NEW meta \in ComponentMetas
    PROVE  /\ ComponentMeta(authority, None) \in ComponentMetas
           /\ ComponentMeta(authority, at) \in ComponentMetas
           /\ [meta EXCEPT !.updated_at = at, !.provenance = <<at>>] \in ComponentMetas
           /\ [meta EXCEPT !.authority = authority] \in ComponentMetas
<1>1. << >> \in Provenances /\ <<at>> \in Provenances
    BY DEF Provenances
<1>2. None \in OptionalTimes /\ at \in OptionalTimes
    BY DEF OptionalTimes
<1>3. at # None
    BY TimesAssumption DEF Times
<1>4. meta \in [authority : Authorities, revision : Nat, generation : Nat,
               updated_at : OptionalTimes, provenance : Provenances]
    BY MetasAre
<1>5. /\ ComponentMeta(authority, None) =
            [authority |-> authority, revision |-> 1, generation |-> 1,
             updated_at |-> None, provenance |-> << >>]
      /\ ComponentMeta(authority, at) =
            [authority |-> authority, revision |-> 1, generation |-> 1,
             updated_at |-> at, provenance |-> <<at>>]
    BY <1>3 DEF ComponentMeta
<1>6. ComponentMeta(authority, None) \in ComponentMetas
    BY <1>1, <1>2, <1>5, MetasAre
<1>7. ComponentMeta(authority, at) \in ComponentMetas
    BY <1>1, <1>2, <1>5, MetasAre
<1> DEFINE here == <<at>>
<1>8. here \in Provenances
    BY <1>1
<1> HIDE DEF here
<1>9. [meta EXCEPT !.updated_at = at, !.provenance = here] \in ComponentMetas
    BY <1>2, <1>4, <1>8, MetasAre
<1>10. [meta EXCEPT !.authority = authority] \in ComponentMetas
    BY <1>4, MetasAre
<1> QED BY <1>6, <1>7, <1>9, <1>10 DEF here

\* An event of the city that leaves a nowcast the host can hold.
LEMMA FoldedIsHeld ==
    ASSUME NowcastInvariant, ClockInvariant, NEW supplied \in HeldNowcasts,
           nowcast' = Folded(supplied, now)
    PROVE  NowcastInvariant'
<1>1. nowcast \in [supplied : HeldNowcasts, feed : ComponentMetas,
                   unavailable : OptionalReasons]
    BY DEF NowcastInvariant, HeldInputs
<1> DEFINE counted == [supplied EXCEPT !.seq = @ + 1]
           stamped == [nowcast.feed EXCEPT !.updated_at = now, !.provenance = <<now>>]
<1>2. counted \in HeldNowcasts
    BY DEF HeldNowcasts
<1>3. stamped \in ComponentMetas
    <2>1. "Current" \in Authorities /\ nowcast.feed \in ComponentMetas
        BY <1>1 DEF Authorities
    <2> QED BY <2>1, MetasAreStamped, TimesToTell
<1>4. nowcast' = [supplied |-> counted, feed |-> stamped,
                  unavailable |-> nowcast.unavailable]
    <2>1. nowcast.feed \in [authority : Authorities, revision : Nat, generation : Nat,
                            updated_at : OptionalTimes, provenance : Provenances]
        BY <1>1, MetasAre
    <2> HIDE DEF counted
    <2>2. nowcast' = [nowcast EXCEPT !.supplied = counted, !.feed.updated_at = now,
                                     !.feed.provenance = <<now>>]
        BY DEF Folded, counted
    <2> QED BY <1>1, <2>1, <2>2
<1> HIDE DEF counted, stamped
<1> QED BY <1>1, <1>2, <1>3, <1>4 DEF NowcastInvariant, HeldInputs

\* The envelope of an event now.
LEMMA EnvelopesAre ==
    ASSUME NowcastInvariant, ClockInvariant PROVE EnvelopeAt(now) \in Envelopes
<1>1. nowcast.supplied.seq \in Nat
    BY DEF NowcastInvariant, HeldInputs, HeldNowcasts
<1>2. now \in Times
    BY TimesToTell
<1> QED BY <1>1, <1>2 DEF EnvelopeAt, Envelopes

\* The lists a fold makes by putting an item in its place, or at the end.
LEMMA ItemIsPut ==
    ASSUME NEW S, NEW list \in Seq(S), NEW item \in S,
           NEW before \in SUBSET (DOMAIN list), NEW after \in SUBSET (DOMAIN list)
    PROVE  /\ ElementsAt(list, before) \o <<item>> \o ElementsAt(list, after) \in Seq(S)
           /\ Append(list, item) \in Seq(S)
BY SplicedHolds, AppendProperties DEF Spliced, HoldsOf

\* The issues held of a station, and what is kept of them with another one.
LEMMA IssuesAreHeld ==
    ASSUME NEW forecasts \in ForecastLists, NEW s, s.forecasts = forecasts, NEW member
    PROVE  IssuesOf(s, member) \in Seq(WholeStationForecasts)
<1> DEFINE places == {i \in DOMAIN forecasts : forecasts[i].station_id = member}
           found == FirstAt(forecasts, places)
<1>1. IssuesOf(s, member) = IF found = None THEN << >> ELSE found.issues
    BY DEF IssuesOf, FirstWhere
<1>2. CASE found = None
    BY <1>1, <1>2
<1>3. CASE found # None
    <2>1. places # {}
        BY <1>3 DEF FirstAt
    <2>2. forecasts \in Seq(WholeStations) /\ places \in SUBSET (DOMAIN forecasts)
        BY DEF ForecastLists
    <2> HIDE DEF places
    <2>3. PICK i \in places : found = forecasts[i]
        BY <2>1, <2>2, FirstIsThere
    <2>4. found \in WholeStations
        BY <2>2, <2>3, LenProperties
    <2> QED BY <1>1, <1>3, <2>4 DEF WholeStations
<1> QED BY <1>2, <1>3

\* The issues kept beside a new one are issues that were there.
LEMMA IssuesAreKept ==
    ASSUME NEW S, NEW issues \in Seq(S), NEW f \in S
    PROVE  KeptIssues(issues, f) \in Seq(S)
<1> DEFINE older == {i \in DOMAIN issues : issues[i].issue_time < f.issue_time}
           newer == {i \in DOMAIN issues : issues[i].issue_time > f.issue_time}
           all == ElementsAt(issues, older) \o <<f>> \o ElementsAt(issues, newer)
           from == IF Len(all) > MaxIssues THEN Len(all) - MaxIssues + 1 ELSE 1
<1>1. all \in Seq(S)
    BY ItemIsPut
<1>2. KeptIssues(issues, f) = SubSeq(all, from, Len(all))
    BY DEF KeptIssues, Selected
<1> HIDE DEF all
<1>3. Len(all) \in Nat /\ from \in 1..(Len(all) + 1)
    BY <1>1, NowcastAssumption, LenProperties
<1>4. \A i \in from..Len(all) : all[i] \in S
    BY <1>1, <1>3, LenProperties
<1> HIDE DEF from
<1> QED BY <1>2, <1>3, <1>4, SubSeqProperties

\* A forecast of the runner, whole or short of a level.
LEMMA ForecastIsWhole ==
    ASSUME NowcastInvariant, ClockInvariant, NEW member \in Members \cup Strangers,
           NEW at \in Times, NEW q \in {<< 2 >>, <<1, 2>>}
    PROVE  [station_id |-> member, issue_time |-> at, envelope |-> EnvelopeAt(now),
            levels |-> <<1, 2>>,
            leads |-> <<[lead_min |-> 1, target_time |-> now, q |-> q]>>]
               \in WholeStationForecasts
<1> DEFINE envelope == EnvelopeAt(now)
           lead == [lead_min |-> 1, target_time |-> now, q |-> q]
           levels == <<1, 2>>
           leads == <<lead>>
           f == [station_id |-> member, issue_time |-> at, envelope |-> envelope,
                 levels |-> levels, leads |-> leads]
<1>1. envelope \in Envelopes /\ now \in Times
    BY EnvelopesAre, TimesToTell
<1>2. q \in Seq(Nat) /\ levels \in Seq(Nat) /\ Len(levels) = 2
    <2>1. << 2 >> \in Seq(Nat) /\ <<1, 2>> \in Seq(Nat) /\ Len(<<1, 2>>) = 2
        OBVIOUS
    <2>2. q = << 2 >> \/ q = <<1, 2>>
        OBVIOUS
    <2> QED BY <2>1, <2>2 DEF levels
<1>3. Len(q) = 2 => q = levels
    BY DEF levels
<1> HIDE DEF levels, envelope
<1>4. lead \in Leads
    BY <1>1, <1>2 DEF Leads
<1>5. lead.q = q
    OBVIOUS
<1> HIDE DEF lead
<1>6. leads \in Seq(Leads) /\ DOMAIN leads = {1} /\ leads[1] = lead
    BY <1>4
<1> HIDE DEF leads
<1>7. f \in StationForecasts
    BY <1>1, <1>2, <1>6 DEF StationForecasts
<1>8. IsWhole(f)
    <2>1. f.leads = leads /\ f.levels = levels
        OBVIOUS
    <2> HIDE DEF f
    <2> QED BY <1>2, <1>3, <1>5, <1>6, <2>1 DEF IsWhole
<1> HIDE DEF f
<1>9. f \in WholeStationForecasts
    BY <1>7, <1>8 DEF WholeStationForecasts
<1> QED BY <1>9 DEF f, envelope, levels, leads, lead

\* A station's forecasts are of the types, however they are folded.
LEMMA StationForecastsStay ==
    ASSUME NowcastInvariant, ClockInvariant, StationForecast
    PROVE  NowcastInvariant'
<1> DEFINE s == nowcast.supplied
<1>1. PICK member \in Members \cup Strangers, issued \in {now - 1, now},
           slip \in {"none", "misfiled", "ahead", "appended", "short"} :
        LET f == [station_id |-> member,
                  issue_time |-> IF slip = "ahead" THEN Later(ObservedLead + 1)
                                 ELSE issued,
                  envelope |-> EnvelopeAt(now), levels |-> <<1, 2>>,
                  leads |-> <<[lead_min |-> 1, target_time |-> now,
                               q |-> IF slip = "short" THEN << 2 >> ELSE <<1, 2>>]>>]
            under == IF slip = "misfiled" THEN CHOOSE m \in Members : TRUE ELSE member
            Before(x) == x.station_id < under
            After(x) == x.station_id > under
            held == IssuesOf(nowcast.supplied, under)
            entry == [station_id |-> under,
                      issues |-> IF slip = "appended" THEN Append(held, f)
                                 ELSE KeptIssues(held, f)]
        IN  nowcast' = Folded([nowcast.supplied EXCEPT !.forecasts =
                Selected(@, Before) \o <<entry>> \o Selected(@, After)], now)
    BY DEF StationForecast
<1> DEFINE at == IF slip = "ahead" THEN Later(ObservedLead + 1) ELSE issued
           q == IF slip = "short" THEN << 2 >> ELSE <<1, 2>>
           f == [station_id |-> member, issue_time |-> at, envelope |-> EnvelopeAt(now),
                 levels |-> <<1, 2>>,
                 leads |-> <<[lead_min |-> 1, target_time |-> now, q |-> q]>>]
           under == IF slip = "misfiled" THEN CHOOSE m \in Members : TRUE ELSE member
           held == IssuesOf(s, under)
           issues == IF slip = "appended" THEN Append(held, f) ELSE KeptIssues(held, f)
           entry == [station_id |-> under, issues |-> issues]
           before == {i \in DOMAIN s.forecasts : s.forecasts[i].station_id < under}
           after == {i \in DOMAIN s.forecasts : s.forecasts[i].station_id > under}
           forecasts == ElementsAt(s.forecasts, before) \o <<entry>>
                            \o ElementsAt(s.forecasts, after)
<1>2. nowcast' = Folded([s EXCEPT !.forecasts = forecasts], now)
    BY <1>1 DEF Selected
<1>3. s \in HeldNowcasts /\ s.forecasts \in ForecastLists
    BY DEF NowcastInvariant, HeldInputs, HeldNowcasts
<1>4. at \in Times
    <2>1. ObservedLead + 1 \in Nat
        BY TimesAssumption
    <2> QED BY <2>1, TimesToTell
<1>5. f \in WholeStationForecasts
    <2>1. q \in {<< 2 >>, <<1, 2>>}
        OBVIOUS
    <2> HIDE DEF at, q
    <2> QED BY <1>4, <2>1, ForecastIsWhole
<1>6. under \in Members \cup Strangers
    BY NowcastAssumption
<1> HIDE DEF f, under, s
<1>7. held \in Seq(WholeStationForecasts)
    BY <1>3, IssuesAreHeld
<1> HIDE DEF held
<1>8. issues \in Seq(WholeStationForecasts)
    BY <1>5, <1>7, IssuesAreKept, AppendProperties
<1> HIDE DEF issues
<1>9. entry \in WholeStations
    BY <1>6, <1>8 DEF WholeStations
<1>10. before \in SUBSET (DOMAIN s.forecasts) /\ after \in SUBSET (DOMAIN s.forecasts)
    OBVIOUS
<1> HIDE DEF entry, before, after
<1>11. forecasts \in ForecastLists
    BY <1>3, <1>9, <1>10, ItemIsPut DEF ForecastLists
<1> HIDE DEF forecasts
<1>12. [s EXCEPT !.forecasts = forecasts] \in HeldNowcasts
    BY <1>3, <1>11 DEF HeldNowcasts
<1> QED BY <1>2, <1>12, FoldedIsHeld

\* A version of a model is of the types, where its place is.
LEMMA ArtifactsStay ==
    ASSUME NowcastInvariant, ClockInvariant, ModelArtifact
    PROVE  NowcastInvariant'
<1> DEFINE s == nowcast.supplied
<1>1. PICK model \in Models, from \in {now, Later(1)},
           slip \in {"none", "truncated", "appended"} :
        LET a == [model_id |-> model, valid_from |-> from, published_at |-> now,
                  sha256 |-> Sha256("published"),
                  body |-> IF slip = "truncated" THEN "truncated" ELSE "published",
                  envelope |-> EnvelopeAt(now)]
            Before(x) == Precedes(ArtifactKey(x), ArtifactKey(a))
            After(x) == Precedes(ArtifactKey(a), ArtifactKey(x))
        IN  nowcast' = Folded([nowcast.supplied EXCEPT !.artifacts =
                IF slip = "appended" THEN Append(@, a)
                ELSE Selected(@, Before) \o <<a>> \o Selected(@, After)], now)
    BY DEF ModelArtifact
<1> DEFINE body == IF slip = "truncated" THEN "truncated" ELSE "published"
           hash == Sha256("published")
           hashes == {Sha256(b) : b \in Bodies}
           a == [model_id |-> model, valid_from |-> from, published_at |-> now,
                 sha256 |-> hash, body |-> body, envelope |-> EnvelopeAt(now)]
           before == {i \in DOMAIN s.artifacts :
                         Precedes(ArtifactKey(s.artifacts[i]), ArtifactKey(a))}
           after == {i \in DOMAIN s.artifacts :
                        Precedes(ArtifactKey(a), ArtifactKey(s.artifacts[i]))}
           artifacts == IF slip = "appended" THEN Append(s.artifacts, a)
                        ELSE ElementsAt(s.artifacts, before) \o <<a>>
                                 \o ElementsAt(s.artifacts, after)
<1>2. nowcast' = Folded([s EXCEPT !.artifacts = artifacts], now)
    BY <1>1 DEF Selected
<1>3. s \in HeldNowcasts /\ s.artifacts \in ArtifactLists
    BY DEF NowcastInvariant, HeldInputs, HeldNowcasts
<1>4. /\ body \in Bodies /\ hash \in hashes
      /\ from \in Times /\ now \in OptionalTimes
      /\ EnvelopeAt(now) \in Envelopes
    BY EnvelopesAre, TimesToTell DEF Bodies, OptionalTimes
<1>5. a \in Artifacts
    <2>1. Artifacts = [model_id : Models, valid_from : Times, published_at : OptionalTimes,
                       sha256 : hashes, body : Bodies, envelope : Envelopes]
        BY DEF Artifacts, OptionalTimes
    <2> HIDE DEF body, hash, hashes
    <2> QED BY <1>4, <2>1
<1>6. before \in SUBSET (DOMAIN s.artifacts) /\ after \in SUBSET (DOMAIN s.artifacts)
    OBVIOUS
<1> HIDE DEF a, before, after, s
<1>7. artifacts \in ArtifactLists
    BY <1>3, <1>5, <1>6, ItemIsPut DEF ArtifactLists
<1> HIDE DEF artifacts
<1>8. [s EXCEPT !.artifacts = artifacts] \in HeldNowcasts
    BY <1>3, <1>7 DEF HeldNowcasts
<1> QED BY <1>2, <1>8, FoldedIsHeld

\* So is a METAR of a station.
LEMMA MetarsStay ==
    ASSUME NowcastInvariant, ClockInvariant, MemberMetar
    PROVE  NowcastInvariant'
<1> DEFINE s == nowcast.supplied
<1>1. PICK member \in Members \cup Strangers :
        LET m == [station_id |-> member, valid_time |-> now, first_seen |-> None,
                  envelope |-> EnvelopeAt(now)]
            Before(x) == Precedes(MetarKey(x), MetarKey(m))
            After(x) == Precedes(MetarKey(m), MetarKey(x))
        IN  nowcast' = Folded([nowcast.supplied EXCEPT !.member_metars =
                Selected(@, Before) \o <<m>> \o Selected(@, After)], now)
    BY DEF MemberMetar
<1> DEFINE m == [station_id |-> member, valid_time |-> now, first_seen |-> None,
                 envelope |-> EnvelopeAt(now)]
           before == {i \in DOMAIN s.member_metars :
                         Precedes(MetarKey(s.member_metars[i]), MetarKey(m))}
           after == {i \in DOMAIN s.member_metars :
                        Precedes(MetarKey(m), MetarKey(s.member_metars[i]))}
           metars == ElementsAt(s.member_metars, before) \o <<m>>
                         \o ElementsAt(s.member_metars, after)
<1>2. nowcast' = Folded([s EXCEPT !.member_metars = metars], now)
    BY <1>1 DEF Selected
<1>3. s \in HeldNowcasts /\ s.member_metars \in MetarLists
    BY DEF NowcastInvariant, HeldInputs, HeldNowcasts
<1>4. m \in MemberMetars
    BY EnvelopesAre, TimesToTell DEF MemberMetars
<1>5. before \in SUBSET (DOMAIN s.member_metars) /\ after \in SUBSET (DOMAIN s.member_metars)
    OBVIOUS
<1> HIDE DEF m, before, after, s
<1>6. metars \in MetarLists
    BY <1>3, <1>4, <1>5, ItemIsPut DEF MetarLists
<1> HIDE DEF metars
<1>7. [s EXCEPT !.member_metars = metars] \in HeldNowcasts
    BY <1>3, <1>6 DEF HeldNowcasts
<1> QED BY <1>2, <1>7, FoldedIsHeld

\* A completed issue is told with the stations it is of.
LEMMA IssuesComplete ==
    ASSUME NowcastInvariant, ClockInvariant, IssueComplete
    PROVE  NowcastInvariant'
<1> DEFINE s == nowcast.supplied
<1>1. s \in HeldNowcasts /\ s.stations \in NumberLists
    BY DEF NowcastInvariant, HeldInputs, HeldNowcasts
<1>2. PICK stations \in {nowcast.supplied.stations, <<2, 1>>} :
        nowcast' = Folded([nowcast.supplied EXCEPT !.last_issue =
            [issue_time |-> now, stations |-> stations, failed |-> << >>,
             envelope |-> EnvelopeAt(now)]], now)
    BY DEF IssueComplete
<1> DEFINE failed == << >>
           issue == [issue_time |-> now, stations |-> stations, failed |-> failed,
                     envelope |-> EnvelopeAt(now)]
<1>3. stations \in NumberLists /\ failed \in NumberLists
    <2>1. <<2, 1>> \in NumberLists /\ << >> \in NumberLists
        BY DEF NumberLists
    <2>2. stations = s.stations \/ stations = <<2, 1>>
        OBVIOUS
    <2> QED BY <1>1, <2>1, <2>2
<1>4. now \in Times /\ EnvelopeAt(now) \in Envelopes
    BY EnvelopesAre, TimesToTell
<1>5. nowcast' = Folded([s EXCEPT !.last_issue = issue], now)
    BY <1>2
<1> HIDE DEF failed, s
<1>6. issue \in LastIssues
    <2>1. NowcastIssues = [issue_time : Times, stations : NumberLists,
                           failed : NumberLists, envelope : Envelopes]
        BY DEF NowcastIssues, NumberLists
    <2> QED BY <1>3, <1>4, <2>1 DEF LastIssues
<1> HIDE DEF issue
<1>7. [s EXCEPT !.last_issue = issue] \in HeldNowcasts
    BY <1>1, <1>6 DEF HeldNowcasts
<1> QED BY <1>5, <1>7, FoldedIsHeld

\* A heartbeat and a withdrawal are not events of the city: nothing is counted.
LEMMA HeartbeatsStay ==
    ASSUME NowcastInvariant, ClockInvariant, Heartbeat
    PROVE  NowcastInvariant'
<1> DEFINE beat == [received_at |-> now, last_issue_time |-> None]
<1>1. nowcast' = [nowcast EXCEPT !.supplied.heartbeat = beat]
    BY DEF Heartbeat
<1>2. beat \in LastHeartbeats
    BY TimesToTell DEF LastHeartbeats, Heartbeats
<1> HIDE DEF beat
<1>3. nowcast \in [supplied : HeldNowcasts, feed : ComponentMetas,
                   unavailable : OptionalReasons]
    BY DEF NowcastInvariant, HeldInputs
<1>4. [nowcast.supplied EXCEPT !.heartbeat = beat] \in HeldNowcasts
    BY <1>2, <1>3 DEF HeldNowcasts
<1> DEFINE supplied == [nowcast.supplied EXCEPT !.heartbeat = beat]
<1>5. nowcast' = [nowcast EXCEPT !.supplied = supplied]
    <2>1. nowcast.supplied \in [seq : Nat, stations : NumberLists, forecasts : ForecastLists,
                                artifacts : ArtifactLists, member_metars : MetarLists,
                                last_issue : LastIssues, heartbeat : LastHeartbeats]
        BY <1>3 DEF HeldNowcasts
    <2> QED BY <1>1, <1>3, <2>1
<1> HIDE DEF supplied
<1>6. supplied \in HeldNowcasts
    BY <1>4 DEF supplied
<1> QED BY <1>3, <1>5, <1>6 DEF NowcastInvariant, HeldInputs

\* A snapshot that is withdrawn, whole or by a slip, keeps the nowcast's invariant.
LEMMA WithdrawalsStay ==
    ASSUME NowcastInvariant, Withdraw
    PROVE  NowcastInvariant'
<1>1. PICK reason \in Reasons \cup {None}, authority \in {"Current", "Unavailable"} :
         nowcast' = [nowcast EXCEPT !.unavailable = reason, !.feed.authority = authority]
    BY DEF Withdraw
<1>2. nowcast \in [supplied : HeldNowcasts, feed : ComponentMetas,
                   unavailable : OptionalReasons]
    BY DEF NowcastInvariant, HeldInputs
<1> DEFINE feed == [nowcast.feed EXCEPT !.authority = authority]
<1>3. nowcast' = [nowcast EXCEPT !.unavailable = reason, !.feed = feed]
    BY <1>1
<1>4. feed \in ComponentMetas
    <2>1. authority \in Authorities /\ nowcast.feed \in ComponentMetas
        BY <1>2 DEF Authorities
    <2> QED BY <2>1, MetasAre DEF Authorities
<1>5. reason \in OptionalReasons
    BY DEF OptionalReasons
<1> HIDE DEF feed
<1> QED BY <1>2, <1>3, <1>4, <1>5 DEF NowcastInvariant, HeldInputs

\* Without a snapshot, and with a fresh one.
LEMMA SnapshotsAre ==
    /\ NoSnapshot \in HeldInputs
    /\ ClockInvariant => CitySnapshot \in HeldInputs
<1> DEFINE none == << >>
           supplied == [seq |-> 0, stations |-> none, forecasts |-> none, artifacts |-> none,
                        member_metars |-> none, last_issue |-> None, heartbeat |-> None]
           feed == ComponentMeta("Unavailable", None)
<1>1. /\ none \in NumberLists /\ none \in ForecastLists /\ none \in ArtifactLists
      /\ none \in MetarLists
    BY DEF NumberLists, ForecastLists, ArtifactLists, MetarLists
<1>2. None \in LastIssues /\ None \in LastHeartbeats
    BY DEF LastIssues, LastHeartbeats
<1> HIDE DEF none
<1>3. supplied \in HeldNowcasts
    BY <1>1, <1>2 DEF HeldNowcasts
<1>4. feed \in ComponentMetas
    <2>1. None \in OptionalTimes /\ << >> \in Provenances /\ "Unavailable" \in Authorities
        BY DEF OptionalTimes, Provenances, Authorities
    <2>2. feed = [authority |-> "Unavailable", revision |-> 1, generation |-> 1,
                  updated_at |-> None, provenance |-> << >>]
        BY DEF ComponentMeta
    <2> QED BY <2>1, <2>2, MetasAre
<1>5. NoSnapshot = [supplied |-> supplied, feed |-> feed, unavailable |-> "NoSnapshot"]
    BY DEF NoSnapshot, none
<1>6. "NoSnapshot" \in OptionalReasons /\ None \in OptionalReasons
    BY NowcastAssumption DEF OptionalReasons
<1> HIDE DEF supplied, feed
<1>7. NoSnapshot \in HeldInputs
    BY <1>3, <1>4, <1>5, <1>6 DEF HeldInputs
<1>8. ASSUME ClockInvariant PROVE CitySnapshot \in HeldInputs
    <2> DEFINE three == <<1, 2, 3>>
               stations == ElementsAt(three, {i \in DOMAIN three : three[i] \in Members})
               fed == ComponentMeta("Current", now)
               snapshot == [supplied EXCEPT !.seq = 1, !.stations = stations]
    <2>1. stations \in NumberLists
        <3>1. three \in Seq(Int)
            OBVIOUS
        <3> HIDE DEF three
        <3> QED BY <3>1, ElementsAreSelected DEF NumberLists
    <2>2. fed \in ComponentMetas
        <3>1. "Current" \in Authorities /\ now \in Times
            BY <1>8, TimesToTell DEF Authorities
        <3> QED BY <1>4, <3>1, MetasAreStamped
    <2>3. CitySnapshot = [NoSnapshot EXCEPT !.supplied.seq = 1, !.supplied.stations = stations,
                                            !.feed = fed, !.unavailable = None]
        BY DEF CitySnapshot, Selected
    <2> HIDE DEF stations, fed
    <2>4. snapshot \in HeldNowcasts
        BY <1>3, <2>1 DEF HeldNowcasts
    <2>5. CitySnapshot = [supplied |-> snapshot, feed |-> fed, unavailable |-> None]
        <3>1. supplied \in [seq : Nat, stations : NumberLists, forecasts : ForecastLists,
                            artifacts : ArtifactLists, member_metars : MetarLists,
                            last_issue : LastIssues, heartbeat : LastHeartbeats]
            BY <1>3 DEF HeldNowcasts
        <3> QED BY <1>5, <2>3, <3>1
    <2> HIDE DEF snapshot
    <2> QED BY <1>6, <2>2, <2>4, <2>5 DEF HeldInputs
<1> QED BY <1>7, <1>8

\* The host's folds keep the nowcast of the types.
LEMMA NowcastStarts ==
    ClockInvariant /\ NowcastInit => NowcastInvariant
BY SnapshotsAre DEF NowcastInit, NowcastInvariant

\* Every fold of the nowcast channel keeps its invariant.
LEMMA NowcastFolds ==
    ASSUME NowcastInvariant, ClockInvariant, NowcastFold
    PROVE  NowcastInvariant'
<1>1. CASE Snapshot
    BY <1>1, SnapshotsAre DEF Snapshot, NowcastInvariant
<1> QED BY <1>1, StationForecastsStay, ArtifactsStay, MetarsStay, IssuesComplete,
           HeartbeatsStay, WithdrawalsStay DEF NowcastFold

\* What is available is the nowcast of a feed the host vouches for.
LEMMA ClosedFeedsFail ==
    NowcastFailsClosed
<1> SUFFICES ASSUME FailsClosed(nowcast)
             PROVE  Available(ReadNowcast(nowcast)) =
                        IF nowcast.feed.authority = "Current" THEN [ok |-> nowcast.supplied]
                        ELSE [err |-> nowcast.unavailable]
    BY DEF NowcastFailsClosed, ValidNowcast
<1> DEFINE read == ReadNowcast(nowcast)
<1>1. /\ read.unavailable = nowcast.unavailable
      /\ read.feed = nowcast.feed
      /\ read.supplied = nowcast.supplied
    BY DEF ReadNowcast
<1> HIDE DEF read
<1>2. Available(read) = IF nowcast.unavailable # None THEN [err |-> nowcast.unavailable]
                        ELSE IF nowcast.feed.authority = "Current"
                        THEN [ok |-> nowcast.supplied] ELSE [err |-> "Invalid"]
    BY <1>1 DEF Available
<1> QED BY <1>2 DEF FailsClosed, read

\* The issues of a checked station are its own, the newest last, each of them whole.
LEMMA IssuesAreRead ==
    ASSUME NEW held \in WholeStations, NEW clock, ValidNowcastStation(held, clock)
    PROVE  LET issues == held.issues
               newest == issues[Len(issues)]
           IN  \A i \in DOMAIN issues :
                  /\ issues[i].station_id = held.station_id
                  /\ issues[i].issue_time =< newest.issue_time
                  /\ \A n \in DOMAIN issues[i].leads :
                        issues[i].leads[n].q = issues[i].levels
<1> DEFINE issues == held.issues
           len == Len(issues)
           times == [i \in 1..len |-> issues[i].issue_time]
           keys == KeysOf(issues, IssueKey)
<1>1. issues \in Seq(WholeStationForecasts) /\ len \in Nat /\ DOMAIN issues = 1..len
    BY LenProperties DEF WholeStations
<1>2. /\ StrictlySorted(keys)
      /\ \A i \in DOMAIN issues : /\ issues[i].station_id = held.station_id
                                  /\ ValidStationForecast(issues[i], clock)
    BY DEF ValidNowcastStation
<1>3. \A i \in 1..len : issues[i] \in WholeStationForecasts
    BY <1>1, LenProperties
<1>4. times \in [1..len -> Int]
    BY <1>3, TimesAssumption DEF WholeStationForecasts, StationForecasts, Times
<1>5. keys = [i \in 1..len |-> <<times[i]>>]
    BY <1>1 DEF KeysOf, IssueKey
<1> HIDE DEF keys, len
<1>6. \A i, j \in 1..len : i < j => times[i] < times[j]
    <2>1. Increasing(len, times)
        <3> HIDE DEF times
        <3> QED BY <1>1, <1>2, <1>4, <1>5, NumbersInOrder
    <2> QED BY <2>1 DEF Increasing
<1>7. ASSUME NEW i \in DOMAIN issues
      PROVE  issues[i].issue_time =< issues[len].issue_time
    <2>1. i \in 1..len /\ len \in 1..len
        BY <1>1, <1>7
    <2>2. i < len \/ i = len
        BY <1>1, <2>1
    <2>3. times[i] \in Int /\ times[len] \in Int
        BY <1>4, <2>1
    <2>4. times[i] = issues[i].issue_time /\ times[len] = issues[len].issue_time
        BY <2>1
    <2> HIDE DEF times
    <2>5. times[i] =< times[len]
        BY <1>6, <2>1, <2>2, <2>3
    <2> QED BY <2>4, <2>5
<1>8. ASSUME NEW i \in DOMAIN issues, NEW n \in DOMAIN issues[i].leads
      PROVE  issues[i].leads[n].q = issues[i].levels
    <2>1. ValidStationForecast(issues[i], clock)
        BY <1>2, <1>8
    <2>2. IsWhole(issues[i])
        BY <1>1, <1>3, <1>8 DEF WholeStationForecasts
    <2>3. Len(issues[i].leads[n].q) = Len(issues[i].levels)
        BY <1>8, <2>1 DEF ValidStationForecast
    <2> QED BY <1>8, <2>2, <2>3 DEF IsWhole
<1> QED BY <1>2, <1>7, <1>8 DEF len

\* The versions of a model come by the time they apply from.
LEMMA VersionsAreRead ==
    ASSUME NEW artifacts \in ArtifactLists, StrictlySorted(KeysOf(artifacts, ArtifactKey)),
           NEW model, NEW s, s.artifacts = artifacts
    PROVE  LET versions == ArtifactsOf(s, model)
           IN  /\ \A i \in DOMAIN versions :
                     \E p \in DOMAIN artifacts : versions[i] = artifacts[p]
               /\ \A i, j \in DOMAIN versions :
                     i < j => versions[i].valid_from < versions[j].valid_from
<1> DEFINE len == Len(artifacts)
           keys == KeysOf(artifacts, ArtifactKey)
           places == {i \in DOMAIN artifacts : artifacts[i].model_id = model}
           versions == ElementsAt(artifacts, places)
           count == Cardinality(places)
<1>1. /\ artifacts \in Seq(Artifacts) /\ len \in Nat /\ DOMAIN artifacts = 1..len
      /\ \A p \in 1..len : artifacts[p] \in Artifacts
    BY LenProperties DEF ArtifactLists
<1>2. \A p \in 1..len :
         /\ artifacts[p].model_id \in Int /\ artifacts[p].valid_from \in Int
         /\ keys[p] = <<artifacts[p].model_id, artifacts[p].valid_from>>
    <2> TAKE p \in 1..len
    <2>1. artifacts[p] \in Artifacts
        BY <1>1
    <2>2. artifacts[p].model_id \in Models /\ artifacts[p].valid_from \in Times
        BY <2>1 DEF Artifacts
    <2>3. artifacts[p].model_id \in Int /\ artifacts[p].valid_from \in Int
        <3>1. Models \subseteq Int
            BY NowcastAssumption
        <3>2. Times \subseteq Int
            BY TimesAssumption DEF Times
        <3> QED BY <2>2, <3>1, <3>2
    <2>4. keys[p] = ArtifactKey(artifacts[p])
        BY <1>1 DEF KeysOf
    <2>5. keys[p] = <<artifacts[p].model_id, artifacts[p].valid_from>>
        BY <2>4 DEF ArtifactKey
    <2> QED BY <2>3, <2>5
<1>3. keys \in [1..len -> [1..2 -> Int]]
    <2>1. keys = [p \in 1..len |-> keys[p]]
        BY <1>1 DEF KeysOf
    <2>2. \A a, b \in Int : <<a, b>> \in [1..2 -> Int]
        OBVIOUS
    <2> HIDE DEF keys
    <2>3. ASSUME NEW p \in 1..len PROVE keys[p] \in [1..2 -> Int]
        <3>1. /\ artifacts[p].model_id \in Int /\ artifacts[p].valid_from \in Int
              /\ keys[p] = <<artifacts[p].model_id, artifacts[p].valid_from>>
            BY <1>2
        <3>2. <<artifacts[p].model_id, artifacts[p].valid_from>> \in [1..2 -> Int]
            BY <2>2, <3>1
        <3> QED BY <3>1, <3>2
    <2> QED BY <2>1, <2>3
<1>4. Len(keys) = len
    BY <1>1, <1>3, FunctionIsSeq
<1> HIDE DEF keys
<1>5. \A p, q \in 1..len : p < q => Precedes(keys[p], keys[q])
    <2>1. StrictlySorted(keys)
        BY DEF keys
    <2>2. 2 \in Nat
        OBVIOUS
    <2> HIDE DEF len
    <2> QED BY <1>1, <1>3, <1>4, <2>1, <2>2, SortedIsOrdered
<1>6. places \in SUBSET (1..len) /\ \A p \in places : artifacts[p].model_id = model
    BY <1>1
<1>7. ASSUME NEW p \in places, NEW q \in places, p < q
      PROVE  artifacts[p].valid_from < artifacts[q].valid_from
    <2>1. PICK i \in DOMAIN keys[p] : /\ keys[p][i] < keys[q][i]
                                      /\ \A j \in 1..(i - 1) : keys[p][j] = keys[q][j]
        BY <1>5, <1>6, <1>7 DEF Precedes
    <2>2. i \in {1, 2}
        BY <1>3, <1>6, <2>1
    <2>3. /\ keys[p] = <<model, artifacts[p].valid_from>>
          /\ keys[q] = <<model, artifacts[q].valid_from>>
          /\ model \in Int
        BY <1>2, <1>6
    <2> QED BY <2>1, <2>2, <2>3
<1> HIDE DEF places
<1>8. /\ DOMAIN versions = 1..count
      /\ \A k \in 1..count : /\ NthPlace(places, k) \in places
                             /\ versions[k] = artifacts[NthPlace(places, k)]
    BY <1>1, <1>6, ElementsAreSelected
<1>9. \A k, m \in 1..count : k < m => NthPlace(places, k) < NthPlace(places, m)
    BY <1>1, <1>6, PlacesAreInOrder
<1>10. ArtifactsOf(s, model) = versions
    BY DEF ArtifactsOf, Selected, places
<1> HIDE DEF versions, count
<1>11. \A k, m \in DOMAIN versions :
          k < m => versions[k].valid_from < versions[m].valid_from
    BY <1>7, <1>8, <1>9
<1>12. \A k \in DOMAIN versions : \E p \in DOMAIN artifacts : versions[k] = artifacts[p]
    BY <1>1, <1>6, <1>8
<1> QED BY <1>10, <1>11, <1>12

\* What a kernel reads of an admitted nowcast is whole.
LEMMA NowcastIsReadWhole ==
    NowcastInvariant => NowcastReadsAreWhole
<1> SUFFICES ASSUME NowcastInvariant, ValidNowcast(nowcast, now)
             PROVE  NowcastReadsAreWhole
    BY DEF NowcastReadsAreWhole
<1> DEFINE s == nowcast.supplied
           clock == Clock(now)
           listed == {s.stations[i] : i \in DOMAIN s.stations}
<1>1. s.forecasts \in ForecastLists /\ s.artifacts \in ArtifactLists
    BY DEF NowcastInvariant, HeldInputs, HeldNowcasts
<1>2. /\ \A i \in DOMAIN s.forecasts :
            /\ s.forecasts[i].station_id \in listed
            /\ ValidNowcastStation(s.forecasts[i], clock)
      /\ StrictlySorted(KeysOf(s.artifacts, ArtifactKey))
      /\ \A i \in DOMAIN s.artifacts : ValidArtifact(s.artifacts[i], clock)
    BY DEF ValidNowcast
<1> DEFINE held == {f.station_id : f \in {s.forecasts[i] : i \in DOMAIN s.forecasts}}
<1>3. ASSUME NEW member \in held
      PROVE  LET issues == IssuesOf(s, member)
                 newest == issues[Len(issues)]
             IN  /\ \E i \in DOMAIN s.stations : s.stations[i] = member
                 /\ \A i \in DOMAIN issues :
                       /\ issues[i].station_id = member
                       /\ issues[i].issue_time =< newest.issue_time
                       /\ \A n \in DOMAIN issues[i].leads :
                             issues[i].leads[n].q = issues[i].levels
    <2> DEFINE places == {i \in DOMAIN s.forecasts : s.forecasts[i].station_id = member}
               found == FirstAt(s.forecasts, places)
    <2>1. places # {} /\ places \in SUBSET (DOMAIN s.forecasts)
        BY <1>3
    <2>2. \E i \in DOMAIN s.stations : s.stations[i] = member
        <3>1. PICK i \in DOMAIN s.forecasts : s.forecasts[i].station_id = member
            BY <1>3
        <3>2. member \in listed
            BY <1>2, <3>1
        <3> QED BY <3>2
    <2>3. IssuesOf(s, member) = IF found = None THEN << >> ELSE found.issues
        BY DEF IssuesOf, FirstWhere
    <2> HIDE DEF listed, clock
    <2>4. PICK p \in places : found = s.forecasts[p]
        <3>1. s.forecasts \in Seq(WholeStations)
            BY <1>1 DEF ForecastLists
        <3> HIDE DEF places
        <3> QED BY <2>1, <3>1, FirstIsThere
    <2>5. found \in WholeStations /\ ValidNowcastStation(found, clock)
          /\ found.station_id = member
        BY <1>1, <1>2, <2>4, LenProperties DEF ForecastLists
    <2> HIDE DEF found, s
    <2>6. CASE found = None
        <3>1. IssuesOf(s, member) = << >>
            BY <2>3, <2>6
        <3> QED BY <2>2, <3>1
    <2>7. CASE found # None
        <3>1. IssuesOf(s, member) = found.issues
            BY <2>3, <2>7
        <3> QED BY <2>2, <2>5, <3>1, IssuesAreRead
    <2> QED BY <2>6, <2>7
<1>4. ASSUME NEW model \in Models
      PROVE  LET versions == ArtifactsOf(s, model)
             IN  \A i, j \in DOMAIN versions :
                     /\ i < j => versions[i].valid_from < versions[j].valid_from
                     /\ versions[i].sha256 = Sha256("published") =>
                           versions[i].body = "published"
    <2> DEFINE versions == ArtifactsOf(s, model)
    <2>1. /\ \A i \in DOMAIN versions :
                \E p \in DOMAIN s.artifacts : versions[i] = s.artifacts[p]
          /\ \A i, j \in DOMAIN versions :
                i < j => versions[i].valid_from < versions[j].valid_from
        <3> HIDE DEF s
        <3> QED BY <1>1, <1>2, VersionsAreRead
    <2> HIDE DEF versions, s
    <2>2. ASSUME NEW i \in DOMAIN versions, versions[i].sha256 = Sha256("published")
          PROVE  versions[i].body = "published"
        <3>1. PICK p \in DOMAIN s.artifacts : versions[i] = s.artifacts[p]
            BY <2>1, <2>2
        <3>2. versions[i].sha256 = Sha256(versions[i].body)
            BY <1>2, <3>1 DEF ValidArtifact
        <3> QED BY <2>2, <3>2 DEF Sha256
    <2> QED BY <2>1, <2>2 DEF versions
<1> HIDE DEF held
<1>5. /\ \A member \in held :
            LET issues == IssuesOf(s, member)
                newest == issues[Len(issues)]
            IN  /\ \E i \in DOMAIN s.stations : s.stations[i] = member
                /\ \A i \in DOMAIN issues :
                      /\ issues[i].station_id = member
                      /\ issues[i].issue_time =< newest.issue_time
                      /\ \A n \in DOMAIN issues[i].leads :
                            issues[i].leads[n].q = issues[i].levels
      /\ \A model \in Models :
            LET versions == ArtifactsOf(s, model)
            IN  \A i, j \in DOMAIN versions :
                    /\ i < j => versions[i].valid_from < versions[j].valid_from
                    /\ versions[i].sha256 = Sha256("published") =>
                          versions[i].body = "published"
    BY <1>3, <1>4
<1> QED BY <1>5 DEF NowcastReadsAreWhole, held

-----------------------------------------------------------------------------
(* The hourly index *)

\* An array of a forecast that is as long as the steps has the element of each; the fold's
\* slip leaves one out.
StepsAreWhole(f) ==
    /\ Len(f.value) = Len(f.steps) => f.value = f.steps
    /\ Len(f.quorum_met) = Len(f.steps) => f.quorum_met = f.steps
    /\ Len(f.partial) = Len(f.steps) => f.partial = f.steps

WholeForecasts == {f \in SuppliedForecasts : StepsAreWhole(f)}

\* What the parts of an index are of, by name.
OptionalMinutes == SuppliedMinutes \cup {None}
MinuteLists == Seq(SuppliedMinutes)
OptionalHours == SuppliedHours \cup {None}
OptionalForecasts == WholeForecasts \cup {None}
ModelForecasts == Seq(WholeForecasts)
SettlementLists == Seq(SuppliedSettlements)
OptionalCalibrations == SuppliedCalibrations \cup {None}
StreamMetas == [Streams -> ComponentMetas]
ModelLists == Seq(ModelComponents)

HeldIndexes ==
    [seq : Nat, latest : OptionalMinutes, latest_valued : OptionalMinutes,
     recent_minutes : MinuteLists, current_hour : OptionalHours,
     forecast : OptionalForecasts, forecasts : ModelForecasts,
     recent_settlements : SettlementLists, calibration : OptionalCalibrations]

HeldComponents == [streams : StreamMetas, models : ModelLists]

IndexInvariant == index \in [supplied : HeldIndexes, components : HeldComponents]

\* The strengthened type of the index is what the contract's types can hold.
LEMMA IndexIsTyped ==
    IndexInvariant => IndexTypeOK
<1> SUFFICES ASSUME IndexInvariant PROVE IndexTypeOK
    OBVIOUS
<1>1. WholeForecasts \subseteq SuppliedForecasts
    BY DEF WholeForecasts
<1> DEFINE F == Seq(SuppliedForecasts)
           O == SuppliedForecasts \cup {None}
<1>2. ModelForecasts \subseteq F /\ OptionalForecasts \subseteq O
    BY <1>1, ListsOfMore DEF ModelForecasts, OptionalForecasts
<1>3. SuppliedIndexes =
          [seq : Nat, latest : OptionalMinutes, latest_valued : OptionalMinutes,
           recent_minutes : MinuteLists, current_hour : OptionalHours,
           forecast : O, forecasts : F,
           recent_settlements : SettlementLists, calibration : OptionalCalibrations]
    BY DEF SuppliedIndexes, OptionalMinutes, MinuteLists, OptionalHours, SettlementLists,
           OptionalCalibrations
<1>4. HeldIndexes \subseteq SuppliedIndexes
    <2> HIDE DEF F, O
    <2> QED BY <1>2, <1>3 DEF HeldIndexes
<1>5. HeldComponents = IndexComponents
    BY DEF HeldComponents, IndexComponents, StreamMetas, ModelLists
<1> QED BY <1>4, <1>5 DEF IndexInvariant, IndexTypeOK

\* What an update of the supplied index and of one stream's metadata leaves.
LEMMA IndexIsHeld ==
    ASSUME IndexInvariant, NEW supplied \in HeldIndexes, NEW stream \in Streams,
           NEW meta \in ComponentMetas, NEW models \in ModelLists
    PROVE  /\ [index EXCEPT !.supplied = supplied, !.components.streams[stream] = meta]
                  \in [supplied : HeldIndexes, components : HeldComponents]
           /\ [index EXCEPT !.supplied = supplied, !.components.models = models]
                  \in [supplied : HeldIndexes, components : HeldComponents]
<1>1. index \in [supplied : HeldIndexes, components : HeldComponents]
    BY DEF IndexInvariant
<1>2. index.components \in [streams : StreamMetas, models : ModelLists]
    BY <1>1 DEF HeldComponents
<1> DEFINE streams == [index.components.streams EXCEPT ![stream] = meta]
<1>3. streams \in StreamMetas
    BY <1>2 DEF StreamMetas
<1>4. [index EXCEPT !.supplied = supplied, !.components.streams[stream] = meta]
          = [index EXCEPT !.supplied = supplied, !.components.streams = streams]
    OBVIOUS
<1> HIDE DEF streams
<1>5. [index EXCEPT !.supplied = supplied, !.components.streams = streams]
          \in [supplied : HeldIndexes, components : HeldComponents]
    <2>1. [index.components EXCEPT !.streams = streams] \in HeldComponents
        BY <1>2, <1>3 DEF HeldComponents
    <2> QED BY <1>1, <2>1
<1>6. [index EXCEPT !.supplied = supplied, !.components.models = models]
          \in [supplied : HeldIndexes, components : HeldComponents]
    <2>1. [index.components EXCEPT !.models = models] \in HeldComponents
        BY <1>2 DEF HeldComponents
    <2> QED BY <1>1, <2>1
<1> QED BY <1>4, <1>5, <1>6

\* The metadata of a stream that was told now.
LEMMA LiveMetas ==
    ASSUME ClockInvariant PROVE Live(now) \in ComponentMetas
<1>1. "Current" \in Authorities /\ now \in Times
    BY TimesToTell DEF Authorities
<1> DEFINE meta == [authority |-> "Current", revision |-> 1, generation |-> 1,
                    updated_at |-> None, provenance |-> << >>]
<1>2. meta \in ComponentMetas
    <2>1. None \in OptionalTimes /\ << >> \in Provenances
        BY DEF OptionalTimes, Provenances
    <2> QED BY <1>1, <2>1, MetasAre
<1> HIDE DEF meta
<1> QED BY <1>1, <1>2, MetasAreStamped DEF Live

\* What is kept of a list with another item.
LEMMA ItemsAreKept ==
    ASSUME NEW S, NEW list \in Seq(S), NEW item \in S, NEW bound \in Nat
    PROVE  /\ Retained(list, item, MinuteKey, bound) \in Seq(S)
           /\ Retained(list, item, HourKey, bound) \in Seq(S)
           /\ InFront(list, item, bound) \in Seq(S)
<1>1. ASSUME NEW all \in Seq(S), NEW last \in Nat, last <= Len(all)
      PROVE  SubSeq(all, 1, last) \in Seq(S)
    <2>1. \A i \in 1..last : all[i] \in S
        BY <1>1, LenProperties
    <2> QED BY <2>1, SubSeqProperties
<1>2. ASSUME NEW before \in SUBSET (DOMAIN list), NEW after \in SUBSET (DOMAIN list)
      PROVE  LET all == ElementsAt(list, before) \o <<item>> \o ElementsAt(list, after)
             IN  SubSeq(all, 1, IF Len(all) < bound THEN Len(all) ELSE bound) \in Seq(S)
    <2> DEFINE all == ElementsAt(list, before) \o <<item>> \o ElementsAt(list, after)
               last == IF Len(all) < bound THEN Len(all) ELSE bound
    <2>1. all \in Seq(S)
        BY ItemIsPut
    <2> HIDE DEF all
    <2>2. last \in Nat /\ last <= Len(all)
        BY <2>1, LenProperties
    <2> HIDE DEF last
    <2>3. SubSeq(all, 1, last) \in Seq(S)
        BY <1>1, <2>1, <2>2
    <2> QED BY <2>3 DEF all, last
<1>3. Retained(list, item, MinuteKey, bound) \in Seq(S)
    BY <1>2 DEF Retained, Selected
<1>4. Retained(list, item, HourKey, bound) \in Seq(S)
    BY <1>2 DEF Retained, Selected
<1>5. InFront(list, item, bound) \in Seq(S)
    <2> DEFINE all == <<item>> \o list
               last == IF Len(list) < bound THEN Len(list) + 1 ELSE bound
    <2>1. <<item>> \in Seq(S) /\ Len(<<item>>) = 1
        OBVIOUS
    <2>2. all \in Seq(S) /\ Len(all) = 1 + Len(list)
        BY <2>1, ConcatProperties
    <2>3. Len(list) \in Nat
        BY LenProperties
    <2> HIDE DEF all
    <2>4. last \in Nat /\ last <= Len(all)
        BY <2>2, <2>3
    <2> HIDE DEF last
    <2>5. SubSeq(all, 1, last) \in Seq(S)
        BY <1>1, <2>2, <2>4
    <2> QED BY <2>5 DEF all, last, InFront
<1> QED BY <1>3, <1>4, <1>5

\* A minute of the stream or of a baseline.
LEMMA MinutesAre ==
    ASSUME IndexInvariant, ClockInvariant, NEW at \in Times, NEW revision \in {1, 2},
           NEW value \in Readings \cup {None}, NEW received \in Times, NEW streamed \in BOOLEAN
    PROVE  MinuteOf(at, revision, value, received, streamed) \in SuppliedMinutes
<1> DEFINE envelopes == SuppliedEnvelopes \cup {None}
           readings == Seq(StationReadings)
           values == Readings \cup {None}
           envelope == IF streamed
                       THEN [seq |-> index.supplied.seq + 1, emitted_at |-> None,
                             received_at |-> received]
                       ELSE None
           stations == IF streamed
                       THEN [i \in 1..Cardinality(Stations) |->
                                [station |-> i, received_at |-> received]]
                       ELSE << >>
           phase == IF revision = 1 THEN "Provisional" ELSE "Official"
<1>1. SuppliedMinutes =
          [envelope : envelopes, minute : Times, phase : Phases, revision : Nat,
           value : values, published_at : OptionalTimes, stations : readings]
    BY DEF SuppliedMinutes
<1>2. MinuteOf(at, revision, value, received, streamed) =
          [envelope |-> envelope, minute |-> at, phase |-> phase, revision |-> revision,
           value |-> value, published_at |-> received, stations |-> stations]
    BY DEF MinuteOf
<1>3. envelope \in envelopes
    <2>1. index.supplied.seq \in Nat
        BY DEF IndexInvariant, HeldIndexes
    <2> QED BY <2>1 DEF SuppliedEnvelopes, OptionalTimes
<1>4. phase \in Phases /\ revision \in Nat /\ value \in values /\ received \in OptionalTimes
    BY DEF Phases, OptionalTimes
<1>5. stations \in readings
    <2>1. CASE streamed
        <3> DEFINE n == Cardinality(Stations)
        <3>1. n \in Nat /\ Stations = 1..n
            BY IndexAssumption, FS_CardinalityType
        <3> HIDE DEF n
        <3>2. \A i \in 1..n : [station |-> i, received_at |-> received] \in StationReadings
            BY <3>1 DEF StationReadings, OptionalTimes
        <3>3. [i \in 1..n |-> [station |-> i, received_at |-> received]]
                  \in [1..n -> StationReadings]
            BY <3>2
        <3> QED BY <2>1, <3>1, <3>3, FunctionIsSeq DEF n
    <2>2. CASE ~streamed
        <3>1. << >> \in readings
            OBVIOUS
        <3> QED BY <2>2, <3>1
    <2> QED BY <2>1, <2>2
<1> HIDE DEF envelopes, readings, values, envelope, stations, phase
<1> QED BY <1>1, <1>2, <1>3, <1>4, <1>5

\* The summaries taken from retained minutes are minutes.
LEMMA SummariesAreMinutes ==
    ASSUME NEW s \in HeldIndexes PROVE Refreshed(s) \in HeldIndexes
<1> DEFINE list == s.recent_minutes
           all == {i \in DOMAIN list : TRUE}
           some == {i \in DOMAIN list : HasValue(list[i])}
           newest == FirstAt(list, all)
           valued == FirstAt(list, some)
           latest == IF newest = None THEN s.latest ELSE newest
           latest_valued == IF valued = None THEN s.latest_valued ELSE valued
<1>1. /\ list \in Seq(SuppliedMinutes)
      /\ s.latest \in OptionalMinutes /\ s.latest_valued \in OptionalMinutes
    BY DEF HeldIndexes, MinuteLists
<1>2. ASSUME NEW places \in SUBSET (DOMAIN list)
      PROVE  FirstAt(list, places) \in OptionalMinutes
    <2>1. CASE places = {}
        BY <2>1 DEF FirstAt, OptionalMinutes
    <2>2. CASE places # {}
        <3> HIDE DEF list
        <3>1. PICK i \in places : FirstAt(list, places) = list[i]
            BY <1>1, <2>2, FirstIsThere
        <3>2. list[i] \in SuppliedMinutes
            BY <1>1, LenProperties
        <3> QED BY <3>1, <3>2 DEF OptionalMinutes
    <2> QED BY <2>1, <2>2
<1>3. newest \in OptionalMinutes /\ valued \in OptionalMinutes
    <2>1. all \in SUBSET (DOMAIN list) /\ some \in SUBSET (DOMAIN list)
        OBVIOUS
    <2> HIDE DEF all, some
    <2> QED BY <1>2, <2>1
<1>4. Refreshed(s) = [s EXCEPT !.latest = latest, !.latest_valued = latest_valued]
    BY DEF Refreshed, FirstWhere
<1> HIDE DEF newest, valued
<1>5. latest \in OptionalMinutes /\ latest_valued \in OptionalMinutes
    BY <1>1, <1>3
<1> HIDE DEF latest, latest_valued
<1> QED BY <1>4, <1>5 DEF HeldIndexes

\* The index with a new supplied part and the metadata of one stream, or with new models.
LEMMA IndexIsUpdated ==
    ASSUME IndexInvariant, ClockInvariant, NEW supplied \in HeldIndexes,
           NEW stream \in Streams,
           index' = [index EXCEPT !.supplied = supplied,
                                  !.components.streams[stream] = Live(now)]
    PROVE  IndexInvariant'
<1>1. Live(now) \in ComponentMetas /\ << >> \in ModelLists
    BY LiveMetas DEF ModelLists
<1>2. index' \in [supplied : HeldIndexes, components : HeldComponents]
    BY <1>1, IndexIsHeld
<1> QED BY <1>2 DEF IndexInvariant

\* The minutes stay minutes, and so do their summaries.
LEMMA IndexMinutesStay ==
    ASSUME IndexInvariant, ClockInvariant, IndexMinute
    PROVE  IndexInvariant'
<1> DEFINE s == index.supplied
<1>1. PICK at \in {now - 1, now}, revision \in {1, 2}, value \in Readings \cup {None},
           slip \in {"none", "front", "ahead", "baseline"} :
        LET streamed == slip # "baseline"
            minute == MinuteOf(at, revision, value, IF slip = "ahead" THEN Ahead ELSE now,
                               streamed)
            minutes == IF slip = "front" THEN InFront(index.supplied.recent_minutes, minute,
                                                      MaxMinutes)
                       ELSE Retained(index.supplied.recent_minutes, minute, MinuteKey,
                                     MaxMinutes)
            folded == [index.supplied EXCEPT !.recent_minutes = minutes,
                                             !.seq = IF streamed THEN @ + 1 ELSE @]
        IN  index' = [index EXCEPT
                !.supplied = IF streamed THEN Refreshed(folded) ELSE folded,
                !.components.streams["minutes"] = Live(now)]
    BY DEF IndexMinute
<1> DEFINE streamed == slip # "baseline"
           received == IF slip = "ahead" THEN Ahead ELSE now
           minute == MinuteOf(at, revision, value, received, streamed)
           minutes == IF slip = "front" THEN InFront(s.recent_minutes, minute, MaxMinutes)
                      ELSE Retained(s.recent_minutes, minute, MinuteKey, MaxMinutes)
           folded == [s EXCEPT !.recent_minutes = minutes,
                               !.seq = IF streamed THEN @ + 1 ELSE @]
           supplied == IF streamed THEN Refreshed(folded) ELSE folded
<1>2. index' = [index EXCEPT !.supplied = supplied,
                             !.components.streams["minutes"] = Live(now)]
    BY <1>1
<1>3. s \in HeldIndexes /\ s.recent_minutes \in MinuteLists
    BY DEF IndexInvariant, HeldIndexes
<1>4. at \in Times /\ received \in Times /\ streamed \in BOOLEAN
    <2>1. ObservedLead + 1 \in Nat
        BY TimesAssumption
    <2> QED BY <2>1, TimesToTell DEF Ahead
<1> HIDE DEF received, s, streamed
<1>5. minute \in SuppliedMinutes
    BY <1>4, MinutesAre
<1> HIDE DEF minute
<1>6. minutes \in MinuteLists
    <2>1. MaxMinutes \in Nat
        BY IndexAssumption
    <2> QED BY <1>3, <1>5, <2>1, ItemsAreKept DEF MinuteLists
<1> HIDE DEF minutes
<1>7. folded \in HeldIndexes
    <2> DEFINE seq == IF streamed THEN s.seq + 1 ELSE s.seq
    <2>1. seq \in Nat
        BY <1>3 DEF HeldIndexes
    <2>2. folded = [s EXCEPT !.recent_minutes = minutes, !.seq = seq]
        OBVIOUS
    <2> HIDE DEF seq, folded
    <2> QED BY <1>3, <1>6, <2>1, <2>2 DEF HeldIndexes
<1> HIDE DEF folded
<1>8. supplied \in HeldIndexes
    BY <1>7, SummariesAreMinutes
<1> HIDE DEF supplied
<1>9. "minutes" \in Streams
    BY DEF Streams
<1> QED BY <1>2, <1>8, <1>9, IndexIsUpdated

\* A reconnect that drops the retained minutes keeps the index's invariant.
LEMMA DropsStay ==
    ASSUME IndexInvariant, DropMinutes
    PROVE  IndexInvariant'
<1>1. /\ index \in [supplied : HeldIndexes, components : HeldComponents]
      /\ index' = [index EXCEPT !.supplied.recent_minutes = << >>]
    BY DEF IndexInvariant, DropMinutes
<1> DEFINE none == << >>
           supplied == [index.supplied EXCEPT !.recent_minutes = none]
<1>2. none \in MinuteLists
    BY DEF MinuteLists
<1>3. index' = [index EXCEPT !.supplied = supplied]
    BY <1>1
<1> HIDE DEF none
<1>4. supplied \in HeldIndexes
    BY <1>1, <1>2 DEF HeldIndexes
<1> HIDE DEF supplied
<1> QED BY <1>1, <1>3, <1>4 DEF IndexInvariant

\* The hour and its conditions.
LEMMA HoursStay ==
    ASSUME IndexInvariant, ClockInvariant, HourUpdate
    PROVE  IndexInvariant'
<1>1. PICK end \in {now, Later(HourLead + 1)}, known \in BOOLEAN,
           kind \in {"QuorumRisk", "member_drift"}, since \in {now, Later(1)} :
        /\ known => kind \in KnownConditions
        /\ index' = [index EXCEPT
              !.supplied.current_hour =
                 [hour_end |-> end, final_at |-> end, determine_by |-> end,
                  settles_now_as |-> None,
                  feed_conditions |->
                     <<[known |-> known, kind |-> kind, station |-> None, since |-> since,
                        last_seen |-> now]>>],
              !.components.streams["hour"] = Live(now)]
    BY DEF HourUpdate
<1> DEFINE condition == [known |-> known, kind |-> kind, station |-> None, since |-> since,
                         last_seen |-> now]
           conditions == <<condition>>
           hour == [hour_end |-> end, final_at |-> end, determine_by |-> end,
                    settles_now_as |-> None, feed_conditions |-> conditions]
           supplied == [index.supplied EXCEPT !.current_hour = hour]
<1>2. index' = [index EXCEPT !.supplied = supplied,
                             !.components.streams["hour"] = Live(now)]
    BY <1>1
<1>3. end \in Times /\ since \in Times /\ now \in Times
    <2>1. HourLead + 1 \in Nat
        BY TimesAssumption
    <2> QED BY <2>1, TimesToTell
<1>4. condition \in FeedConditions
    BY <1>3 DEF FeedConditions, KnownConditions
<1> HIDE DEF condition
<1>5. conditions \in Seq(FeedConditions)
    BY <1>4
<1> HIDE DEF conditions
<1>6. hour \in OptionalHours
    BY <1>3, <1>5 DEF OptionalHours, SuppliedHours
<1> HIDE DEF hour
<1>7. supplied \in HeldIndexes
    <2>1. index.supplied \in HeldIndexes
        BY DEF IndexInvariant
    <2> QED BY <1>6, <2>1 DEF HeldIndexes
<1> HIDE DEF supplied
<1>8. "hour" \in Streams
    BY DEF Streams
<1> QED BY <1>2, <1>7, <1>8, IndexIsUpdated

\* A forecast of a model, whole or with a short array.
LEMMA ForecastsAreWhole ==
    ASSUME ClockInvariant, NEW model \in OtherModels \cup {DefaultModel}, NEW slip
    PROVE  ForecastOf(model, slip) \in WholeForecasts
<1> DEFINE ahead == IF slip = "far" THEN ForecastLead ELSE 0
           first == Later(ahead)
           second == Later(ahead + 1)
           steps == <<first, second>>
           short == <<second>>
           value == IF slip = "value" THEN short ELSE steps
           quorum_met == IF slip = "quorum_met" THEN short ELSE steps
           partial == IF slip = "partial" THEN short ELSE steps
           top == Later(HourLength - (now % HourLength))
           settles == <<top>>
           missing == << >>
           f == [model_id |-> model, run_time |-> now, fetched_at |-> now, missing |-> missing,
                 steps |-> steps, value |-> value, quorum_met |-> quorum_met,
                 partial |-> partial, settles |-> settles, bias |-> None]
<1>1. ForecastOf(model, slip) = f
    BY DEF ForecastOf
<1>2. now \in Times /\ first \in Times /\ second \in Times
    <2>1. ahead \in Nat /\ ahead + 1 \in Nat
        BY TimesAssumption
    <2> HIDE DEF ahead
    <2> QED BY <2>1, TimesToTell
<1>3. top \in Times
    <2>1. HourLength \in Nat /\ HourLength > 0 /\ now \in Int
        BY TimesAssumption, TimesToTell
    <2>2. now % HourLength \in 0..(HourLength - 1)
        BY <2>1
    <2>3. HourLength - (now % HourLength) \in Nat
        BY <2>1, <2>2
    <2> QED BY <2>3, TimesToTell
<1> HIDE DEF first, second, top
<1>4. /\ steps \in Seq(Times) /\ short \in Seq(Times) /\ settles \in Seq(Times)
      /\ missing \in Seq(Stations)
    <2>1. \A a, b \in Times : <<a, b>> \in Seq(Times) /\ <<a>> \in Seq(Times)
        OBVIOUS
    <2> QED BY <1>2, <1>3, <2>1
<1>5. Len(steps) = 2 /\ Len(short) = 1
    OBVIOUS
<1> HIDE DEF steps, short, settles, missing
<1>6. ASSUME NEW array \in {short, steps}
      PROVE  array \in Seq(Times) /\ (Len(array) = Len(steps) => array = steps)
    <2>1. CASE array = short
        <3>1. Len(array) = 1 /\ Len(array) # Len(steps)
            BY <1>5, <2>1
        <3> QED BY <1>4, <2>1, <3>1
    <2>2. CASE array = steps
        BY <1>4, <2>2
    <2> QED BY <2>1, <2>2
<1>7. /\ value \in Seq(Times) /\ quorum_met \in Seq(Times) /\ partial \in Seq(Times)
      /\ Len(value) = Len(steps) => value = steps
      /\ Len(quorum_met) = Len(steps) => quorum_met = steps
      /\ Len(partial) = Len(steps) => partial = steps
    <2>1. value \in {short, steps} /\ quorum_met \in {short, steps}
          /\ partial \in {short, steps}
        OBVIOUS
    <2> HIDE DEF value, quorum_met, partial
    <2> QED BY <1>6, <2>1
<1>8. f = [model_id |-> model, run_time |-> now, fetched_at |-> now, missing |-> missing,
           steps |-> steps, value |-> value, quorum_met |-> quorum_met,
           partial |-> partial, settles |-> settles, bias |-> None]
    OBVIOUS
<1> HIDE DEF f, value, quorum_met, partial
<1>9. f \in SuppliedForecasts
    <2> DEFINE times == Seq(Times)
               members == Seq(Stations)
               biases == [as_of : Times, members : members] \cup {None}
    <2>1. SuppliedForecasts =
              [model_id : OtherModels \cup {DefaultModel}, run_time : Times,
               fetched_at : Times, missing : members, steps : times, value : times,
               quorum_met : times, partial : times, settles : times, bias : biases]
        BY DEF SuppliedForecasts
    <2>2. None \in biases
        OBVIOUS
    <2>3. /\ steps \in times /\ value \in times /\ quorum_met \in times /\ partial \in times
          /\ settles \in times /\ missing \in members
        BY <1>4, <1>7
    <2> HIDE DEF times, members, biases
    <2> QED BY <1>2, <1>8, <2>1, <2>2, <2>3
<1>10. StepsAreWhole(f)
    BY <1>7, <1>8 DEF StepsAreWhole
<1> QED BY <1>1, <1>9, <1>10 DEF WholeForecasts

\* A model's forecast that is added or replaced keeps the index's invariant.
LEMMA ModelForecastsStay ==
    ASSUME IndexInvariant, ClockInvariant, ForecastIndex
    PROVE  IndexInvariant'
<1> DEFINE s == index.supplied
<1>1. PICK model \in OtherModels \cup {DefaultModel}, apart \in BOOLEAN,
           slip \in {"none", "value", "quorum_met", "partial", "far", "appended",
                     "undescribed"} :
        LET f == ForecastOf(model, slip)
            Before(x) == x.model_id < model
            After(x) == x.model_id > model
            Placed(list, item) == Selected(list, Before) \o <<item>> \o Selected(list, After)
            meta == [model_id |-> model, forecast |-> Live(now), bias |-> Live(now)]
        IN  IF apart
            THEN index' = [index EXCEPT
                    !.supplied.forecasts = IF slip = "appended" THEN Append(@, f)
                                           ELSE Placed(@, f),
                    !.components.models = IF slip # "undescribed" /\ model # DefaultModel
                                          THEN Placed(@, meta) ELSE @]
            ELSE index' = [index EXCEPT !.supplied.forecast = f,
                                        !.components.streams["forecast"] = Live(now)]
    BY DEF ForecastIndex
<1> DEFINE f == ForecastOf(model, slip)
           meta == [model_id |-> model, forecast |-> Live(now), bias |-> Live(now)]
           held == s.forecasts
           before == {i \in DOMAIN held : held[i].model_id < model}
           after == {i \in DOMAIN held : held[i].model_id > model}
           forecasts == IF slip = "appended" THEN Append(held, f)
                        ELSE ElementsAt(held, before) \o <<f>> \o ElementsAt(held, after)
           known == index.components.models
           lower == {i \in DOMAIN known : known[i].model_id < model}
           upper == {i \in DOMAIN known : known[i].model_id > model}
           models == IF slip # "undescribed" /\ model # DefaultModel
                     THEN ElementsAt(known, lower) \o <<meta>> \o ElementsAt(known, upper)
                     ELSE known
           apartly == [s EXCEPT !.forecasts = forecasts]
           default == [s EXCEPT !.forecast = f]
<1>2. IF apart THEN index' = [index EXCEPT !.supplied = apartly, !.components.models = models]
      ELSE index' = [index EXCEPT !.supplied = default,
                                  !.components.streams["forecast"] = Live(now)]
    BY <1>1 DEF Selected
<1>3. /\ s \in HeldIndexes /\ held \in Seq(WholeForecasts)
      /\ known \in ModelLists /\ known \in Seq(ModelComponents)
    BY DEF IndexInvariant, HeldIndexes, HeldComponents, ModelForecasts, ModelLists
<1>4. f \in WholeForecasts /\ f \in OptionalForecasts
    BY ForecastsAreWhole DEF OptionalForecasts
<1>5. model # DefaultModel => meta \in ModelComponents
    BY LiveMetas DEF ModelComponents
<1>6. /\ before \in SUBSET (DOMAIN held) /\ after \in SUBSET (DOMAIN held)
      /\ lower \in SUBSET (DOMAIN known) /\ upper \in SUBSET (DOMAIN known)
    OBVIOUS
<1> HIDE DEF f, meta, s, held, known, before, after, lower, upper
<1>7. forecasts \in ModelForecasts
    BY <1>3, <1>4, <1>6, ItemIsPut DEF ModelForecasts
<1>8. models \in ModelLists
    <2>1. CASE slip # "undescribed" /\ model # DefaultModel
        BY <1>3, <1>5, <1>6, <2>1, ItemIsPut DEF ModelLists
    <2>2. CASE ~(slip # "undescribed" /\ model # DefaultModel)
        BY <1>3, <2>2
    <2> QED BY <2>1, <2>2
<1> HIDE DEF forecasts, models
<1>9. apartly \in HeldIndexes /\ default \in HeldIndexes
    BY <1>3, <1>4, <1>7 DEF HeldIndexes
<1> HIDE DEF apartly, default
<1>10. CASE apart
    <2>1. index' = [index EXCEPT !.supplied = apartly, !.components.models = models]
        BY <1>2, <1>10
    <2>2. "forecast" \in Streams /\ Live(now) \in ComponentMetas
        BY LiveMetas DEF Streams
    <2>3. index' \in [supplied : HeldIndexes, components : HeldComponents]
        BY <1>8, <1>9, <2>1, <2>2, IndexIsHeld
    <2> QED BY <2>3 DEF IndexInvariant
<1>11. CASE ~apart
    <2>1. index' = [index EXCEPT !.supplied = default,
                                 !.components.streams["forecast"] = Live(now)]
        BY <1>2, <1>11
    <2>2. "forecast" \in Streams
        BY DEF Streams
    <2> QED BY <1>9, <2>1, <2>2, IndexIsUpdated
<1> QED BY <1>10, <1>11

\* The bias of a forecast leaves its steps.
LEMMA BiasesStay ==
    ASSUME IndexInvariant, ClockInvariant, ForecastBias
    PROVE  IndexInvariant'
<1> DEFINE s == index.supplied
<1>1. PICK members \in {<< 1 >>, <<1, 1>>} :
          index' = [index EXCEPT !.supplied.forecast.bias = [as_of |-> now, members |-> members],
                                 !.components.streams["bias"] = Live(now)]
    BY DEF ForecastBias
<1> DEFINE bias == [as_of |-> now, members |-> members]
           f == [s.forecast EXCEPT !.bias = bias]
           supplied == [s EXCEPT !.forecast = f]
<1>2. index' = [index EXCEPT !.supplied = supplied,
                             !.components.streams["bias"] = Live(now)]
    BY <1>1
<1>3. s \in HeldIndexes /\ s.forecast \in WholeForecasts
    BY DEF IndexInvariant, HeldIndexes, ForecastBias, OptionalForecasts
<1>4. members \in Seq(Stations)
    <2>1. 1 \in Stations
        BY IndexAssumption
    <2>2. << 1 >> \in Seq(Stations) /\ <<1, 1>> \in Seq(Stations)
        BY <2>1
    <2>3. members = << 1 >> \/ members = <<1, 1>>
        OBVIOUS
    <2> QED BY <2>2, <2>3
<1> HIDE DEF s
<1>5. f \in SuppliedForecasts /\ StepsAreWhole(f)
    <2> DEFINE biases == [as_of : Times, members : Seq(Stations)] \cup {None}
    <2>1. bias \in biases
        BY <1>4, TimesToTell
    <2>2. s.forecast \in SuppliedForecasts /\ StepsAreWhole(s.forecast)
        BY <1>3 DEF WholeForecasts
    <2>3. SuppliedForecasts =
              [model_id : OtherModels \cup {DefaultModel}, run_time : Times,
               fetched_at : Times, missing : Seq(Stations), steps : Seq(Times),
               value : Seq(Times), quorum_met : Seq(Times), partial : Seq(Times),
               settles : Seq(Times), bias : biases]
        BY DEF SuppliedForecasts
    <2> HIDE DEF bias, biases
    <2>4. f \in SuppliedForecasts
        BY <2>1, <2>2, <2>3
    <2>5. /\ f.steps = s.forecast.steps /\ f.value = s.forecast.value
          /\ f.quorum_met = s.forecast.quorum_met /\ f.partial = s.forecast.partial
        BY <2>2, <2>3
    <2> HIDE DEF f
    <2> QED BY <2>2, <2>4, <2>5 DEF StepsAreWhole
<1> HIDE DEF f
<1>6. supplied \in HeldIndexes
    BY <1>3, <1>5 DEF HeldIndexes, OptionalForecasts, WholeForecasts
<1> HIDE DEF supplied
<1>7. "bias" \in Streams
    BY DEF Streams
<1> QED BY <1>2, <1>6, <1>7, IndexIsUpdated

\* A removed forecast keeps the index's invariant.
LEMMA RemovalsStay ==
    ASSUME IndexInvariant, ForecastRemoved
    PROVE  IndexInvariant'
<1>1. PICK model \in OtherModels :
        LET Stays(f) == f.model_id # model
        IN  /\ \E i \in DOMAIN index.supplied.forecasts :
                   index.supplied.forecasts[i].model_id = model
            /\ index' = [index EXCEPT !.supplied.forecasts = Selected(@, Stays)]
    BY DEF ForecastRemoved
<1> DEFINE s == index.supplied
           held == s.forecasts
           places == {i \in DOMAIN held : held[i].model_id # model}
           forecasts == ElementsAt(held, places)
           supplied == [s EXCEPT !.forecasts = forecasts]
<1>2. index' = [index EXCEPT !.supplied = supplied]
    BY <1>1 DEF Selected
<1>3. /\ index \in [supplied : HeldIndexes, components : HeldComponents]
      /\ s \in HeldIndexes /\ held \in Seq(WholeForecasts)
    BY DEF IndexInvariant, HeldIndexes, ModelForecasts
<1>4. places \in SUBSET (DOMAIN held)
    OBVIOUS
<1> HIDE DEF s, held, places
<1>5. forecasts \in ModelForecasts
    BY <1>3, <1>4, ElementsAreSelected DEF ModelForecasts
<1> HIDE DEF forecasts
<1>6. supplied \in HeldIndexes
    BY <1>3, <1>5 DEF HeldIndexes
<1> HIDE DEF supplied
<1> QED BY <1>2, <1>3, <1>6 DEF IndexInvariant

\* The settlements stay settlements.
LEMMA SettlementsStay ==
    ASSUME IndexInvariant, ClockInvariant, HourSettled
    PROVE  IndexInvariant'
<1>1. PICK end \in {now - 1, now}, revision \in {1, 2}, slip \in {"none", "front"} :
        LET settlement == [hour_end |-> end, settle_minute |-> end, determined_at |-> now,
                           finalized_at |-> IF revision = 1 THEN None ELSE now,
                           revision |-> revision]
        IN  index' = [index EXCEPT
                !.supplied.recent_settlements =
                    IF slip = "none" THEN Retained(@, settlement, HourKey, MaxSettlements)
                    ELSE InFront(@, settlement, MaxSettlements),
                !.components.streams["settlements"] = Live(now)]
    BY DEF HourSettled
<1> DEFINE s == index.supplied
           held == s.recent_settlements
           finalized == IF revision = 1 THEN None ELSE now
           settlement == [hour_end |-> end, settle_minute |-> end, determined_at |-> now,
                          finalized_at |-> finalized, revision |-> revision]
           settlements == IF slip = "none"
                          THEN Retained(held, settlement, HourKey, MaxSettlements)
                          ELSE InFront(held, settlement, MaxSettlements)
           supplied == [s EXCEPT !.recent_settlements = settlements]
<1>2. index' = [index EXCEPT !.supplied = supplied,
                             !.components.streams["settlements"] = Live(now)]
    BY <1>1
<1>3. s \in HeldIndexes /\ held \in Seq(SuppliedSettlements)
    BY DEF IndexInvariant, HeldIndexes, SettlementLists
<1>4. end \in Times /\ now \in Times /\ finalized \in OptionalTimes /\ revision \in Nat
    BY TimesToTell DEF OptionalTimes
<1> HIDE DEF finalized
<1>5. settlement \in SuppliedSettlements
    BY <1>4 DEF SuppliedSettlements, OptionalTimes
<1> HIDE DEF s, held, settlement
<1>6. settlements \in SettlementLists
    <2>1. MaxSettlements \in Nat
        BY IndexAssumption
    <2> QED BY <1>3, <1>5, <2>1, ItemsAreKept DEF SettlementLists
<1> HIDE DEF settlements
<1>7. supplied \in HeldIndexes
    BY <1>3, <1>6 DEF HeldIndexes
<1> HIDE DEF supplied
<1>8. "settlements" \in Streams
    BY DEF Streams
<1> QED BY <1>2, <1>7, <1>8, IndexIsUpdated

\* A new calibration keeps the index's invariant.
LEMMA CalibrationsStay ==
    ASSUME IndexInvariant, ClockInvariant, Calibration
    PROVE  IndexInvariant'
<1>1. PICK effective \in {None, MaxTime}, published \in {now, Ahead} :
        index' = [index EXCEPT
            !.supplied.calibration = [effective_at |-> effective, published_at |-> published,
                                      members |-> << 1 >>],
            !.components.streams["calibration"] = Live(now)]
    BY DEF Calibration
<1> DEFINE members == << 1 >>
           calibration == [effective_at |-> effective, published_at |-> published,
                           members |-> members]
           supplied == [index.supplied EXCEPT !.calibration = calibration]
<1>2. index' = [index EXCEPT !.supplied = supplied,
                             !.components.streams["calibration"] = Live(now)]
    BY <1>1
<1>3. effective \in OptionalTimes /\ published \in OptionalTimes
    <2>1. ObservedLead + 1 \in Nat /\ MaxTime \in Nat
        BY TimesAssumption
    <2>2. MaxTime \in Times
        BY <2>1 DEF Times
    <2> QED BY <2>1, <2>2, TimesToTell DEF Ahead, OptionalTimes
<1>4. members \in Seq(Stations)
    <2>1. 1 \in Stations
        BY IndexAssumption
    <2> QED BY <2>1
<1> HIDE DEF members
<1>5. calibration \in OptionalCalibrations
    BY <1>3, <1>4 DEF OptionalCalibrations, SuppliedCalibrations
<1> HIDE DEF calibration
<1>6. supplied \in HeldIndexes
    <2>1. index.supplied \in HeldIndexes
        BY DEF IndexInvariant
    <2> QED BY <1>5, <2>1 DEF HeldIndexes
<1> HIDE DEF supplied
<1>7. "calibration" \in Streams
    BY DEF Streams
<1> QED BY <1>2, <1>6, <1>7, IndexIsUpdated

\* A stream whose metadata starts over keeps the index's invariant.
LEMMA LossesStay ==
    ASSUME IndexInvariant, LoseMeta
    PROVE  IndexInvariant'
<1>1. PICK stream \in Streams :
          index' = [index EXCEPT !.components.streams[stream].revision = 0]
    BY DEF LoseMeta
<1>2. /\ index \in [supplied : HeldIndexes, components : HeldComponents]
      /\ index.supplied \in HeldIndexes
    BY DEF IndexInvariant
<1> DEFINE meta == [index.components.streams[stream] EXCEPT !.revision = 0]
<1>3. index.components.streams[stream] \in ComponentMetas
    BY <1>2 DEF HeldComponents, StreamMetas
<1>4. meta \in ComponentMetas
    BY <1>3, MetasAre
<1>5. index' = [index EXCEPT !.supplied = index.supplied, !.components.streams[stream] = meta]
    BY <1>1, <1>2
<1> HIDE DEF meta
<1>6. << >> \in ModelLists
    BY DEF ModelLists
<1>7. index' \in [supplied : HeldIndexes, components : HeldComponents]
    BY <1>2, <1>4, <1>5, <1>6, IndexIsHeld
<1> QED BY <1>7 DEF IndexInvariant

\* The host's folds keep the index of the types.
LEMMA IndexStarts ==
    IndexInit => IndexInvariant
<1> SUFFICES ASSUME IndexInit PROVE IndexInvariant
    OBVIOUS
<1> DEFINE none == << >>
           supplied == [seq |-> 0, latest |-> None, latest_valued |-> None,
                        recent_minutes |-> none, current_hour |-> None, forecast |-> None,
                        forecasts |-> none, recent_settlements |-> none,
                        calibration |-> None]
           meta == ComponentMeta("Warming", None)
           streams == [stream \in Streams |-> meta]
<1>1. /\ none \in MinuteLists /\ none \in ModelForecasts /\ none \in SettlementLists
      /\ none \in ModelLists
    BY DEF MinuteLists, ModelForecasts, SettlementLists, ModelLists
<1>2. /\ None \in OptionalMinutes /\ None \in OptionalHours /\ None \in OptionalForecasts
      /\ None \in OptionalCalibrations
    BY DEF OptionalMinutes, OptionalHours, OptionalForecasts, OptionalCalibrations
<1>3. meta \in ComponentMetas
    <2>1. None \in OptionalTimes /\ << >> \in Provenances /\ "Warming" \in Authorities
        BY DEF OptionalTimes, Provenances, Authorities
    <2>2. meta = [authority |-> "Warming", revision |-> 1, generation |-> 1,
                  updated_at |-> None, provenance |-> << >>]
        BY DEF ComponentMeta
    <2> QED BY <2>1, <2>2, MetasAre
<1>4. index = [supplied |-> supplied, components |-> [streams |-> streams, models |-> none]]
    BY DEF IndexInit, WarmingIndex
<1> HIDE DEF none, meta
<1>5. streams \in StreamMetas
    BY <1>3 DEF StreamMetas
<1>6. supplied \in HeldIndexes
    BY <1>1, <1>2 DEF HeldIndexes
<1> HIDE DEF streams, supplied
<1> QED BY <1>1, <1>4, <1>5, <1>6 DEF IndexInvariant, HeldComponents

\* Every fold of the index channel keeps its invariant.
LEMMA IndexFolds ==
    ASSUME IndexInvariant, ClockInvariant, IndexFold
    PROVE  IndexInvariant'
BY IndexMinutesStay, DropsStay, HoursStay, ModelForecastsStay, BiasesStay, RemovalsStay,
   SettlementsStay, CalibrationsStay, LossesStay DEF IndexFold

\* Of a list that is newest first, the newest is the first, and no two are of one time.
LEMMA NewestIsFirst ==
    ASSUME NEW list \in MinuteLists, NewestFirst(KeysOf(list, MinuteKey))
    PROVE  /\ \A i \in DOMAIN list : list[i] \in SuppliedMinutes /\ list[i].minute \in Int
           /\ \A i, j \in DOMAIN list : i < j => list[j].minute < list[i].minute
           /\ \A i, j \in DOMAIN list : list[i].minute = list[j].minute => i = j
<1> DEFINE len == Len(list)
           numbers == [i \in 1..len |-> list[i].minute]
           keys == KeysOf(list, MinuteKey)
<1>1. len \in Nat /\ DOMAIN list = 1..len /\ \A i \in 1..len : list[i] \in SuppliedMinutes
    BY LenProperties DEF MinuteLists
<1>2. \A i \in 1..len : list[i].minute \in Int
    <2>1. Times \subseteq Int
        BY TimesAssumption DEF Times
    <2> QED BY <1>1, <2>1 DEF SuppliedMinutes
<1>3. numbers \in [1..len -> Int]
    BY <1>2
<1>4. keys = [i \in 1..len |-> <<numbers[i]>>]
    BY <1>1 DEF KeysOf, MinuteKey
<1>5. NewestFirst(keys)
    OBVIOUS
<1>6. \A i \in 1..len : numbers[i] = list[i].minute
    OBVIOUS
<1> HIDE DEF keys, numbers, len
<1>7. Decreasing(len, numbers)
    BY <1>1, <1>3, <1>4, <1>5, NumbersInOrder
<1>8. \A i, j \in 1..len : i < j => list[j].minute < list[i].minute
    BY <1>6, <1>7 DEF Decreasing
<1>9. \A i, j \in 1..len : list[i].minute = list[j].minute => i = j
    <2> SUFFICES ASSUME NEW i \in 1..len, NEW j \in 1..len,
                        list[i].minute = list[j].minute, i # j
                 PROVE  FALSE
        OBVIOUS
    <2>1. i < j \/ j < i
        BY <1>1
    <2> QED BY <1>2, <1>8, <2>1
<1> QED BY <1>1, <1>2, <1>8, <1>9

\* So it is of the settlements.
LEMMA HoursAreApart ==
    ASSUME NEW list \in SettlementLists, NewestFirst(KeysOf(list, HourKey))
    PROVE  \A i, j \in DOMAIN list : list[i].hour_end = list[j].hour_end => i = j
<1> DEFINE len == Len(list)
           numbers == [i \in 1..len |-> list[i].hour_end]
           keys == KeysOf(list, HourKey)
<1>1. /\ len \in Nat /\ DOMAIN list = 1..len
      /\ \A i \in 1..len : list[i] \in SuppliedSettlements
    BY LenProperties DEF SettlementLists
<1>2. \A i \in 1..len : list[i].hour_end \in Int
    <2>1. Times \subseteq Int
        BY TimesAssumption DEF Times
    <2> QED BY <1>1, <2>1 DEF SuppliedSettlements
<1>3. numbers \in [1..len -> Int]
    BY <1>2
<1>4. keys = [i \in 1..len |-> <<numbers[i]>>]
    BY <1>1 DEF KeysOf, HourKey
<1>5. NewestFirst(keys)
    OBVIOUS
<1>6. \A i \in 1..len : numbers[i] = list[i].hour_end
    OBVIOUS
<1> HIDE DEF keys, numbers, len
<1>7. Decreasing(len, numbers)
    BY <1>1, <1>3, <1>4, <1>5, NumbersInOrder
<1>8. \A i, j \in 1..len : i < j => list[j].hour_end < list[i].hour_end
    BY <1>6, <1>7 DEF Decreasing
<1> SUFFICES ASSUME NEW i \in 1..len, NEW j \in 1..len,
                    list[i].hour_end = list[j].hour_end, i # j
             PROVE  FALSE
    BY <1>1
<1>9. i < j \/ j < i
    BY <1>1
<1> QED BY <1>2, <1>8, <1>9

\* And the forecasts of the models, each of its own.
LEMMA ModelsAreApart ==
    ASSUME NEW list \in ModelForecasts, StrictlySorted(KeysOf(list, ModelKey))
    PROVE  \A i, j \in DOMAIN list : list[i].model_id = list[j].model_id => i = j
<1> DEFINE len == Len(list)
           numbers == [i \in 1..len |-> list[i].model_id]
           keys == KeysOf(list, ModelKey)
<1>1. /\ len \in Nat /\ DOMAIN list = 1..len
      /\ \A i \in 1..len : list[i] \in WholeForecasts
    BY LenProperties DEF ModelForecasts
<1>2. \A i \in 1..len : list[i].model_id \in Int
    <2>1. OtherModels \cup {DefaultModel} \subseteq Int
        BY IndexAssumption
    <2>2. \A i \in 1..len : list[i].model_id \in OtherModels \cup {DefaultModel}
        BY <1>1 DEF WholeForecasts, SuppliedForecasts
    <2> QED BY <2>1, <2>2
<1>3. numbers \in [1..len -> Int]
    BY <1>2
<1>4. keys = [i \in 1..len |-> <<numbers[i]>>]
    BY <1>1 DEF KeysOf, ModelKey
<1>5. StrictlySorted(keys)
    OBVIOUS
<1>6. \A i \in 1..len : numbers[i] = list[i].model_id
    OBVIOUS
<1> HIDE DEF keys, numbers, len
<1>7. Increasing(len, numbers)
    BY <1>1, <1>3, <1>4, <1>5, NumbersInOrder
<1>8. \A i, j \in 1..len : i < j => list[i].model_id < list[j].model_id
    BY <1>6, <1>7 DEF Increasing
<1> SUFFICES ASSUME NEW i \in 1..len, NEW j \in 1..len,
                    list[i].model_id = list[j].model_id, i # j
             PROVE  FALSE
    BY <1>1
<1>9. i < j \/ j < i
    BY <1>1
<1> QED BY <1>2, <1>8, <1>9

\* A minute a kernel reads is there, with the supplied minute's identity and value.
LEMMA MinuteIsRead ==
    ASSUME NEW m \in SuppliedMinutes
    PROVE  /\ ReadMinute(m) # None
           /\ ReadMinute(m).minute = m.minute /\ ReadMinute(m).phase = m.phase
           /\ ReadMinute(m).revision = m.revision /\ ReadMinute(m).value = m.value
           /\ ReadMinute(m).supplied = m
           /\ m # None
<1> DEFINE provenance == MinuteProvenance(m.envelope)
           provenances == [city_sequence : Nat \cup {None}, received_at : OptionalTimes]
           envelopes == SuppliedEnvelopes \cup {None}
           values == Readings \cup {None}
           readings == Seq(StationReadings)
<1>1. m \in [envelope : envelopes, minute : Times, phase : Phases, revision : Nat,
             value : values, published_at : OptionalTimes, stations : readings]
    BY DEF SuppliedMinutes
<1>2. provenance \in provenances
    <2>1. CASE m.envelope = None
        BY <2>1 DEF MinuteProvenance, OptionalTimes
    <2>2. CASE m.envelope # None
        <3>1. m.envelope \in SuppliedEnvelopes
            BY <1>1, <2>2
        <3>2. m.envelope.seq \in Nat /\ m.envelope.received_at \in OptionalTimes
            BY <3>1 DEF SuppliedEnvelopes, OptionalTimes
        <3> QED BY <2>2, <3>2 DEF MinuteProvenance
    <2> QED BY <2>1, <2>2
<1>3. ReadMinutes =
          [minute : Times, phase : Phases, revision : Nat, value : values,
           stations : readings, provenance : provenances, supplied : SuppliedMinutes]
    BY DEF ReadMinutes
<1>4. ReadMinute(m) =
          [minute |-> m.minute, phase |-> m.phase, revision |-> m.revision,
           value |-> m.value, stations |-> m.stations, provenance |-> provenance,
           supplied |-> m]
    BY DEF ReadMinute
<1> HIDE DEF provenance, provenances, envelopes, values, readings
<1>5. ReadMinute(m) \in ReadMinutes
    BY <1>1, <1>2, <1>3, <1>4
<1> QED BY <1>4, <1>5, IndexNoneAssumption

\* The first minute, and the first one with a value, of a list newest first.
LEMMA FirstMinutes ==
    ASSUME NEW list \in MinuteLists, NewestFirst(KeysOf(list, MinuteKey)),
           NEW i \in DOMAIN list
    PROVE  LET newest == FirstWhere(list, LAMBDA m : TRUE)
               valued == FirstWhere(list, HasValue)
           IN  /\ newest # None /\ newest \in SuppliedMinutes
               /\ list[i].minute =< newest.minute
               /\ list[i].minute = newest.minute => newest = list[i]
               /\ HasValue(list[i]) =>
                     /\ valued # None /\ valued \in SuppliedMinutes
                     /\ list[i].minute =< valued.minute
<1>1. /\ list \in Seq(SuppliedMinutes) /\ DOMAIN list \subseteq Nat
      /\ \A k \in DOMAIN list : list[k] \in SuppliedMinutes /\ list[k].minute \in Int
      /\ \A k, j \in DOMAIN list : k < j => list[j].minute < list[k].minute
      /\ \A k, j \in DOMAIN list : list[k].minute = list[j].minute => k = j
    BY NewestIsFirst, LenProperties DEF MinuteLists
<1>2. ASSUME NEW places \in SUBSET (DOMAIN list), i \in places
      PROVE  /\ FirstAt(list, places) # None /\ FirstAt(list, places) \in SuppliedMinutes
             /\ list[i].minute =< FirstAt(list, places).minute
             /\ list[i].minute = FirstAt(list, places).minute => FirstAt(list, places) = list[i]
    <2>1. places # {}
        BY <1>2
    <2>2. PICK p \in places : FirstAt(list, places) = list[p] /\ \A j \in places : p <= j
        BY <1>1, <2>1, FirstIsThere
    <2>3. p \in DOMAIN list /\ p \in Nat /\ i \in Nat /\ p <= i
        BY <1>1, <1>2, <2>2
    <2>4. list[i].minute =< list[p].minute
        <3>1. p < i \/ p = i
            BY <2>3
        <3> QED BY <1>1, <2>3, <3>1
    <2>5. list[p] # None /\ list[p] \in SuppliedMinutes
        BY <1>1, <2>3, IndexNoneAssumption
    <2> QED BY <1>1, <2>2, <2>3, <2>4, <2>5
<1> DEFINE all == {k \in DOMAIN list : TRUE}
           some == {k \in DOMAIN list : HasValue(list[k])}
<1>3. all \in SUBSET (DOMAIN list) /\ i \in all
    OBVIOUS
<1>4. some \in SUBSET (DOMAIN list) /\ (HasValue(list[i]) => i \in some)
    OBVIOUS
<1>5. FirstWhere(list, LAMBDA m : TRUE) = FirstAt(list, all)
      /\ FirstWhere(list, HasValue) = FirstAt(list, some)
    BY DEF FirstWhere
<1> HIDE DEF all, some
<1>6. /\ FirstAt(list, all) # None /\ FirstAt(list, all) \in SuppliedMinutes
      /\ list[i].minute =< FirstAt(list, all).minute
      /\ list[i].minute = FirstAt(list, all).minute => FirstAt(list, all) = list[i]
    BY <1>2, <1>3
<1>7. HasValue(list[i]) =>
          /\ FirstAt(list, some) # None /\ FirstAt(list, some) \in SuppliedMinutes
          /\ list[i].minute =< FirstAt(list, some).minute
    BY <1>2, <1>4
<1> QED BY <1>5, <1>6, <1>7

\* What is read of an admitted index's summaries is what its minutes tell.
LEMMA SummariesAreRead ==
    IndexInvariant => SummariesTellTheMinutes
<1> SUFFICES ASSUME IndexInvariant, ValidIndex(index, now)
             PROVE  SummariesTellTheMinutes
    BY DEF SummariesTellTheMinutes
<1> DEFINE s == index.supplied
           list == s.recent_minutes
           state == ReadIndex(index)
           newest == FirstWhere(list, LAMBDA m : TRUE)
           valued == FirstWhere(list, HasValue)
           same == {i \in DOMAIN list : list[i].minute = s.latest_valued.minute}
           retained == FirstAt(list, same)
<1>1. /\ list \in MinuteLists
      /\ s.latest \in OptionalMinutes /\ s.latest_valued \in OptionalMinutes
    BY DEF IndexInvariant, HeldIndexes
<1>2. NewestFirst(KeysOf(list, MinuteKey)) /\ ValidSummaries(s)
    BY DEF ValidIndex, ValidSupplied
<1>3. /\ newest # None => s.latest # None /\ SameMinute(s.latest, newest)
      /\ s.latest_valued = None => valued = None
      /\ s.latest_valued # None =>
            /\ retained # None => SameMinute(s.latest_valued, retained)
            /\ valued # None => valued.minute =< s.latest_valued.minute
    <2>1. retained = FirstWhere(list, LAMBDA m : m.minute = s.latest_valued.minute)
        BY DEF FirstWhere
    <2> HIDE DEF retained, newest, valued
    <2> QED BY <1>2, <2>1 DEF ValidSummaries, newest, valued
<1>4. /\ state.latest = IF s.latest = None THEN None ELSE ReadMinute(s.latest)
      /\ state.latest_valued =
            IF s.latest_valued = None THEN None ELSE ReadMinute(s.latest_valued)
      /\ state.recent_minutes = [i \in DOMAIN list |-> ReadMinute(list[i])]
    BY DEF ReadIndex, ReadOptional, ReadEach
<1>5. /\ list \in Seq(SuppliedMinutes)
      /\ \A i \in DOMAIN list : list[i] \in SuppliedMinutes /\ list[i].minute \in Int
      /\ \A i, j \in DOMAIN list : list[i].minute = list[j].minute => i = j
    BY <1>1, <1>2, NewestIsFirst DEF MinuteLists
<1>6. Times \subseteq Int
    BY TimesAssumption DEF Times
<1> HIDE DEF state, newest, valued, retained
<1>7. ASSUME NEW i \in DOMAIN list
      PROVE  LET m == ReadMinute(list[i])
                 Told(summary) == /\ summary.revision = m.revision
                                  /\ summary.phase = m.phase
                                  /\ summary.value = m.value
             IN  /\ state.latest # None /\ m.minute =< state.latest.minute
                 /\ m.minute = state.latest.minute => Told(state.latest)
                 /\ HasValue(m) =>
                       /\ state.latest_valued # None
                       /\ m.minute =< state.latest_valued.minute
                 /\ state.latest_valued # None /\ m.minute = state.latest_valued.minute =>
                       Told(state.latest_valued)
                 /\ s.latest # None /\ state.latest.minute = s.latest.minute
                 /\ newest # None /\ s.latest.minute = newest.minute
    <2> DEFINE m == ReadMinute(list[i])
               latest == s.latest
               summary == s.latest_valued
    <2>1. /\ m.minute = list[i].minute /\ m.phase = list[i].phase
          /\ m.revision = list[i].revision /\ m.value = list[i].value
        BY <1>5, <1>7, MinuteIsRead
    <2>2. /\ newest # None /\ newest \in SuppliedMinutes
          /\ list[i].minute =< newest.minute
          /\ list[i].minute = newest.minute => newest = list[i]
          /\ HasValue(list[i]) =>
                /\ valued # None /\ valued \in SuppliedMinutes
                /\ list[i].minute =< valued.minute
        BY <1>1, <1>2, <1>7, FirstMinutes DEF newest, valued
    <2>3. latest \in SuppliedMinutes /\ SameMinute(latest, newest)
        BY <1>1, <1>3, <2>2 DEF OptionalMinutes
    <2>4. /\ state.latest # None /\ state.latest.minute = latest.minute
          /\ state.latest.phase = latest.phase /\ state.latest.revision = latest.revision
          /\ state.latest.value = latest.value
        <3>1. latest # None
            BY <2>3, IndexNoneAssumption
        <3>2. state.latest = ReadMinute(latest)
            BY <1>4, <3>1
        <3> QED BY <2>3, <3>2, MinuteIsRead
    <2>5. state.latest_valued # None =>
             /\ summary \in SuppliedMinutes /\ summary # None
             /\ state.latest_valued.minute = summary.minute
             /\ state.latest_valued.phase = summary.phase
             /\ state.latest_valued.revision = summary.revision
             /\ state.latest_valued.value = summary.value
        <3> SUFFICES ASSUME state.latest_valued # None
                     PROVE  /\ summary \in SuppliedMinutes /\ summary # None
                            /\ state.latest_valued.minute = summary.minute
                            /\ state.latest_valued.phase = summary.phase
                            /\ state.latest_valued.revision = summary.revision
                            /\ state.latest_valued.value = summary.value
            OBVIOUS
        <3>1. summary # None /\ state.latest_valued = ReadMinute(summary)
            BY <1>4
        <3>2. summary \in SuppliedMinutes
            BY <1>1, <3>1 DEF OptionalMinutes
        <3> QED BY <3>1, <3>2, MinuteIsRead
    <2>6. ASSUME HasValue(m)
          PROVE  /\ state.latest_valued # None
                 /\ m.minute =< state.latest_valued.minute
        <3>1. valued # None /\ list[i].minute =< valued.minute /\ valued \in SuppliedMinutes
            BY <2>1, <2>2, <2>6 DEF HasValue
        <3>2. summary # None /\ valued.minute =< summary.minute
            BY <1>3, <3>1
        <3>3. summary \in SuppliedMinutes
            BY <1>1, <3>2 DEF OptionalMinutes
        <3>4. state.latest_valued = ReadMinute(summary)
            BY <1>4, <3>2
        <3>5. state.latest_valued # None /\ state.latest_valued.minute = summary.minute
            BY <3>3, <3>4, MinuteIsRead
        <3>6. list[i].minute \in Int /\ valued.minute \in Int /\ summary.minute \in Int
            BY <1>5, <1>6, <1>7, <3>1, <3>3 DEF SuppliedMinutes
        <3> HIDE DEF m, summary
        <3> QED BY <2>1, <3>1, <3>2, <3>5, <3>6
    <2>7. ASSUME state.latest_valued # None, m.minute = state.latest_valued.minute
          PROVE  /\ summary.revision = m.revision
                 /\ summary.phase = m.phase
                 /\ summary.value = m.value
        <3>1. summary # None /\ list[i].minute = summary.minute
            BY <2>1, <2>5, <2>7
        <3>2. same # {} /\ same \in SUBSET (DOMAIN list)
            BY <1>7, <3>1
        <3>3. \A p \in same : p = i
            BY <1>5, <1>7, <3>1
        <3> HIDE DEF same, s
        <3>4. retained = list[i]
            <4>1. PICK p \in same : retained = list[p]
                BY <1>5, <3>2, FirstIsThere DEF retained
            <4> QED BY <3>3, <4>1
        <3>5. retained # None
            BY <1>5, <1>7, <3>4, IndexNoneAssumption
        <3>6. SameMinute(summary, list[i])
            BY <1>3, <3>1, <3>4, <3>5
        <3> QED BY <2>1, <3>6 DEF SameMinute
    <2>8. newest.minute \in Int /\ latest.minute = newest.minute
        BY <1>6, <2>2, <2>3 DEF SameMinute, SuppliedMinutes
    <2>9. ASSUME m.minute = state.latest.minute
          PROVE  /\ latest.revision = m.revision
                 /\ latest.phase = m.phase
                 /\ latest.value = m.value
        <3>1. newest = list[i]
            BY <2>1, <2>2, <2>4, <2>8, <2>9
        <3> QED BY <2>1, <2>3, <3>1 DEF SameMinute
    <2>10. latest # None
        BY <2>3, IndexNoneAssumption
    <2> HIDE DEF m, latest, summary, list
    <2>11. state.latest # None /\ m.minute =< state.latest.minute
        BY <2>1, <2>2, <2>4, <2>8
    <2>12. m.minute = state.latest.minute =>
              /\ state.latest.revision = m.revision
              /\ state.latest.phase = m.phase
              /\ state.latest.value = m.value
        BY <2>4, <2>9
    <2>13. state.latest_valued # None /\ m.minute = state.latest_valued.minute =>
              /\ state.latest_valued.revision = m.revision
              /\ state.latest_valued.phase = m.phase
              /\ state.latest_valued.value = m.value
        BY <2>5, <2>7
    <2> QED BY <2>2, <2>4, <2>6, <2>8, <2>10, <2>11, <2>12, <2>13 DEF m, latest
<1> DEFINE minutes == {state.recent_minutes[i] : i \in DOMAIN state.recent_minutes}
<1>8. minutes = {ReadMinute(list[i]) : i \in DOMAIN list}
    BY <1>4
<1>9. ASSUME minutes # {}
      PROVE  MinuteAt(state, state.latest.minute) # None
    <2>1. PICK i \in DOMAIN list : TRUE
        BY <1>8, <1>9
    <2>2. state.latest.minute = newest.minute /\ newest # None
        BY <1>7
    <2> DEFINE L == state.recent_minutes
               places == {k \in DOMAIN L : L[k].minute = state.latest.minute}
    <2>3. /\ DOMAIN L = DOMAIN list
          /\ \A k \in DOMAIN list : L[k] = ReadMinute(list[k])
        BY <1>4
    <2>4. \A k \in DOMAIN list : L[k].minute = list[k].minute /\ L[k] # None
        BY <1>5, <2>3, MinuteIsRead
    <2>5. MinuteAt(state, state.latest.minute) = FirstAt(L, places)
        BY DEF MinuteAt, FirstWhere
    <2>6. places # {}
        <3>1. PICK k \in DOMAIN list : newest = list[k]
            <4> DEFINE all == {k \in DOMAIN list : TRUE}
            <4>1. all # {} /\ all \in SUBSET (DOMAIN list) /\ newest = FirstAt(list, all)
                BY <2>1 DEF newest, FirstWhere
            <4> HIDE DEF all, list
            <4> QED BY <1>5, <4>1, FirstIsThere
        <3>2. k \in places
            BY <2>2, <2>3, <2>4, <3>1
        <3> QED BY <3>2
    <2>7. L \in Seq({L[k] : k \in DOMAIN L})
        <3>1. Len(list) \in Nat /\ DOMAIN list = 1..Len(list)
            BY <1>5, LenProperties
        <3>2. L = [k \in 1..Len(list) |-> L[k]]
            BY <1>4, <3>1
        <3> DEFINE elements == {L[k] : k \in DOMAIN L}
        <3>3. \A k \in 1..Len(list) : L[k] \in elements
            BY <2>3, <3>1
        <3> HIDE DEF L, elements
        <3>4. L \in [1..Len(list) -> elements]
            BY <3>2, <3>3
        <3> QED BY <3>1, <3>4, FunctionIsSeq DEF elements
    <2>8. places \in SUBSET (DOMAIN L)
        OBVIOUS
    <2> HIDE DEF L, places
    <2>9. PICK k \in places : FirstAt(L, places) = L[k]
        BY <2>6, <2>7, <2>8, FirstIsThere
    <2> QED BY <2>3, <2>4, <2>5, <2>8, <2>9
<1> DEFINE Told(summary, m) == /\ summary.revision = m.revision
                               /\ summary.phase = m.phase
                               /\ summary.value = m.value
<1>10. ASSUME NEW m \in minutes
       PROVE  /\ state.latest # None /\ m.minute =< state.latest.minute
              /\ m.minute = state.latest.minute => Told(state.latest, m)
              /\ HasValue(m) =>
                    /\ state.latest_valued # None
                    /\ m.minute =< state.latest_valued.minute
              /\ state.latest_valued # None /\ m.minute = state.latest_valued.minute =>
                    Told(state.latest_valued, m)
    <2>1. PICK i \in DOMAIN list : m = ReadMinute(list[i])
        BY <1>8, <1>10
    <2> HIDE DEF s
    <2> QED BY <1>7, <2>1
<1> HIDE DEF minutes
<1> QED BY <1>9, <1>10 DEF SummariesTellTheMinutes, state, minutes

\* What is read of each element of a list, as a list.
LEMMA EachIsRead ==
    ASSUME NEW n \in Nat, NEW L, L = [i \in 1..n |-> L[i]]
    PROVE  L \in Seq({L[i] : i \in DOMAIN L}) /\ DOMAIN L = 1..n /\ Len(L) = n
<1> DEFINE elements == {L[i] : i \in DOMAIN L}
<1>1. DOMAIN L = 1..n
    OBVIOUS
<1>2. \A i \in 1..n : L[i] \in elements
    BY <1>1
<1> HIDE DEF elements
<1>3. L \in [1..n -> elements]
    BY <1>2
<1> QED BY <1>1, <1>3, FunctionIsSeq DEF elements

\* A whole forecast is read step by step.
LEMMA StepsAreRead ==
    ASSUME NEW f \in WholeForecasts, AlignedForecast(f)
    PROVE  /\ ReadForecast(f).steps =
                 [i \in DOMAIN f.steps |->
                     [at |-> f.steps[i], value |-> f.steps[i], quorum_met |-> f.steps[i],
                      partial |-> f.steps[i]]]
           /\ \A i \in DOMAIN f.settles : SettleAt(ReadForecast(f), f.settles[i]) = f.settles[i]
<1>1. /\ Len(f.value) = Len(f.steps) /\ Len(f.quorum_met) = Len(f.steps)
      /\ Len(f.partial) = Len(f.steps)
    BY DEF AlignedForecast
<1>2. f.value = f.steps /\ f.quorum_met = f.steps /\ f.partial = f.steps
    BY <1>1 DEF WholeForecasts, StepsAreWhole
<1>3. f.steps \in Seq(Times) /\ f.settles \in Seq(Times)
    BY DEF WholeForecasts, SuppliedForecasts
<1>4. Len(f.steps) \in Nat /\ DOMAIN f.steps = 1..Len(f.steps)
    BY <1>3, LenProperties
<1> DEFINE len == Len(f.steps)
           lengths == {Len(f.steps), Len(f.value), Len(f.quorum_met), Len(f.partial)}
           least == CHOOSE n \in lengths : \A m \in lengths : n =< m
<1>5. least = len
    <2>1. lengths = {len}
        BY <1>1
    <2>2. len \in lengths /\ \A m \in lengths : len =< m
        BY <1>4, <2>1
    <2> HIDE DEF lengths, len
    <2> QED BY <2>1, <2>2
<1>6. ReadSteps(f) =
          [i \in 1..least |->
              [at |-> f.steps[i], value |-> f.value[i], quorum_met |-> f.quorum_met[i],
               partial |-> f.partial[i]]]
    BY DEF ReadSteps
<1> HIDE DEF least
<1>7. ReadForecast(f).steps = ReadSteps(f) /\ ReadForecast(f).settles = f.settles
    BY DEF ReadForecast
<1>8. ASSUME NEW i \in DOMAIN f.settles
      PROVE  SettleAt(ReadForecast(f), f.settles[i]) = f.settles[i]
    <2> DEFINE places == {k \in DOMAIN f.settles : f.settles[k] = f.settles[i]}
    <2>1. SettleAt(ReadForecast(f), f.settles[i]) = FirstAt(f.settles, places)
        BY <1>7 DEF SettleAt, FirstWhere
    <2>2. places # {} /\ places \in SUBSET (DOMAIN f.settles)
        BY <1>8
    <2>3. \A k \in places : f.settles[k] = f.settles[i]
        OBVIOUS
    <2> HIDE DEF places
    <2>4. PICK k \in places : FirstAt(f.settles, places) = f.settles[k]
        BY <1>3, <2>2, FirstIsThere
    <2> QED BY <2>1, <2>3, <2>4
<1> QED BY <1>2, <1>4, <1>5, <1>6, <1>7, <1>8

\* A list of what is read has what is read of the one element with a key.
LEMMA OneIsRead ==
    ASSUME NEW n \in Nat, NEW L, L = [i \in 1..n |-> L[i]],
           NEW places \in SUBSET (1..n), NEW i \in places, \A j \in places : j = i
    PROVE  FirstAt(L, places) = L[i]
<1>1. L \in Seq({L[k] : k \in DOMAIN L}) /\ DOMAIN L = 1..n
    BY EachIsRead
<1> DEFINE elements == {L[k] : k \in DOMAIN L}
<1>2. L \in Seq(elements) /\ places \in SUBSET (DOMAIN L)
    BY <1>1
<1> HIDE DEF elements
<1> QED BY <1>2, OnlyOneIsFound

\* The record of a model among the others is found, and the default model's first.
LEMMA ForecastsAreFound ==
    ASSUME NEW list \in ModelForecasts, StrictlySorted(KeysOf(list, ModelKey)),
           \A i \in DOMAIN list : list[i].model_id # DefaultModel,
           NEW state, state.forecasts = ReadEach(list, ReadForecast),
           state.forecast # None => state.forecast.model_id = DefaultModel
    PROVE  /\ \A i \in DOMAIN list :
                 ForecastFor(state, list[i].model_id) = ReadForecast(list[i])
           /\ state.forecast # None => ForecastFor(state, DefaultModel) = state.forecast
<1> DEFINE front == IF state.forecast = None THEN << >> ELSE <<state.forecast>>
           f == Len(front)
           n == Len(list)
           others == state.forecasts
           L == front \o others
<1>1. n \in Nat /\ DOMAIN list = 1..n /\ list \in Seq(WholeForecasts)
    BY LenProperties DEF ModelForecasts
<1>2. /\ others = [i \in 1..n |-> others[i]]
      /\ \A i \in 1..n : others[i] = ReadForecast(list[i])
    BY <1>1 DEF ReadEach
<1>3. \A i \in 1..n : others[i].model_id = list[i].model_id
    <2> HIDE DEF others
    <2> TAKE i \in 1..n
    <2>1. ReadForecast(list[i]).model_id = list[i].model_id
        BY DEF ReadForecast
    <2> QED BY <1>2, <2>1
<1>4. /\ f \in {0, 1} /\ f \in Nat
      /\ state.forecast # None <=> f = 1
      /\ state.forecast # None => front[1] = state.forecast
      /\ front \in Seq({state.forecast})
    OBVIOUS
<1> DEFINE S == {state.forecast} \cup {others[i] : i \in DOMAIN others}
<1> HIDE DEF others
<1>5. others \in Seq({others[i] : i \in DOMAIN others}) /\ Len(others) = n
    BY <1>1, <1>2, EachIsRead
<1>6. front \in Seq(S) /\ others \in Seq(S)
    <2> DEFINE A == {others[i] : i \in DOMAIN others}
    <2>1. others \in Seq(A) /\ A \subseteq S
        BY <1>5
    <2>2. front \in Seq({state.forecast}) /\ {state.forecast} \subseteq S
        BY <1>4
    <2> HIDE DEF A, S, front
    <2> QED BY <2>1, <2>2, ListsOfMore
<1> HIDE DEF front, S
<1>7. /\ L \in Seq(S) /\ Len(L) = f + n
      /\ \A k \in 1..(f + n) : L[k] = IF k <= f THEN front[k] ELSE others[k - f]
    <2>1. /\ L \in Seq(S) /\ Len(L) = f + Len(others)
          /\ \A k \in 1..(f + Len(others)) : L[k] = IF k <= f THEN front[k] ELSE others[k - f]
        BY <1>6, ConcatProperties
    <2> QED BY <1>5, <2>1
<1>8. DOMAIN L = 1..(f + n)
    BY <1>7, LenProperties
<1>9. ASSUME NEW model
      PROVE  ForecastFor(state, model) = FirstAt(L, {k \in DOMAIN L : L[k].model_id = model})
    BY DEF ForecastFor, FirstWhere, front, others
<1> HIDE DEF L, f, n
<1>10. ASSUME NEW i \in DOMAIN list
       PROVE  ForecastFor(state, list[i].model_id) = ReadForecast(list[i])
    <2> DEFINE model == list[i].model_id
               places == {k \in DOMAIN L : L[k].model_id = model}
    <2>1. i \in 1..n /\ f + i \in 1..(f + n) /\ ~(f + i <= f) /\ (f + i) - f = i
        BY <1>1, <1>4, <1>10
    <2>2. L[f + i] = ReadForecast(list[i]) /\ L[f + i].model_id = model
        BY <1>2, <1>3, <1>7, <2>1
    <2>3. ASSUME NEW k \in places PROVE k = f + i
        <3>1. k \in 1..(f + n) /\ L[k].model_id = model
            BY <1>8
        <3>2. CASE k <= f
            <4>1. k = 1 /\ f = 1
                BY <1>4, <3>1, <3>2
            <4>2. L[k] = state.forecast /\ state.forecast # None
                BY <1>4, <1>7, <3>1, <3>2, <4>1
            <4>3. model = DefaultModel
                BY <3>1, <4>2
            <4> QED BY <1>10, <4>3
        <3>3. CASE ~(k <= f)
            <4>1. k - f \in 1..n
                BY <1>1, <1>4, <3>1, <3>3
            <4>2. list[k - f].model_id = model
                BY <1>3, <1>7, <3>1, <3>3, <4>1
            <4>3. k - f = i
                BY <1>1, <1>10, <4>1, <4>2, ModelsAreApart
            <4> QED BY <1>4, <3>1, <4>3
        <3> QED BY <3>2, <3>3
    <2>4. f + i \in places /\ places \in SUBSET (DOMAIN L)
        BY <1>8, <2>1, <2>2
    <2>5. ForecastFor(state, model) = FirstAt(L, places)
        BY <1>9
    <2> HIDE DEF places
    <2>6. FirstAt(L, places) = L[f + i]
        BY <1>7, <2>3, <2>4, OnlyOneIsFound
    <2> QED BY <2>2, <2>5, <2>6
<1>11. ASSUME state.forecast # None
       PROVE  ForecastFor(state, DefaultModel) = state.forecast
    <2> DEFINE places == {k \in DOMAIN L : L[k].model_id = DefaultModel}
    <2>1. f = 1 /\ 1 \in 1..(f + n) /\ L[1] = state.forecast
        BY <1>1, <1>4, <1>7, <1>11
    <2>2. ASSUME NEW k \in places PROVE k = 1
        <3>1. k \in 1..(f + n) /\ L[k].model_id = DefaultModel
            BY <1>8
        <3>2. CASE k <= f
            BY <2>1, <3>1, <3>2
        <3>3. CASE ~(k <= f)
            <4>1. k - f \in 1..n
                BY <1>1, <1>4, <3>1, <3>3
            <4>2. list[k - f].model_id = DefaultModel
                BY <1>3, <1>7, <3>1, <3>3, <4>1
            <4> QED BY <1>1, <4>1, <4>2
        <3> QED BY <3>2, <3>3
    <2>3. 1 \in places /\ places \in SUBSET (DOMAIN L)
        BY <1>8, <1>11, <2>1
    <2>4. ForecastFor(state, DefaultModel) = FirstAt(L, places)
        BY <1>9
    <2> HIDE DEF places
    <2>5. FirstAt(L, places) = L[1]
        BY <1>7, <2>2, <2>3, OnlyOneIsFound
    <2> QED BY <2>1, <2>4, <2>5
<1> QED BY <1>10, <1>11

\* What a kernel looks up in an admitted index is found whole.
LEMMA IndexIsReadWhole ==
    IndexInvariant => IndexReadsAreWhole
<1> SUFFICES ASSUME IndexInvariant, ValidIndex(index, now)
             PROVE  IndexReadsAreWhole
    BY DEF IndexReadsAreWhole
<1> DEFINE s == index.supplied
           clock == Clock(now)
           list == s.recent_minutes
           settled == s.recent_settlements
           models == index.components.models
           state == ReadIndex(index)
<1>1. /\ list \in MinuteLists /\ settled \in SettlementLists
      /\ s.forecasts \in ModelForecasts /\ s.forecast \in OptionalForecasts
      /\ models \in Seq(ModelComponents) /\ index.components.streams \in StreamMetas
    BY DEF IndexInvariant, HeldIndexes, HeldComponents, ModelLists
<1>2. /\ NewestFirst(KeysOf(list, MinuteKey))
      /\ NewestFirst(KeysOf(settled, HourKey))
      /\ s.forecast # None =>
            ValidForecast(s.forecast, clock) /\ s.forecast.model_id = DefaultModel
      /\ StrictlySorted(KeysOf(s.forecasts, ModelKey))
      /\ \A i \in DOMAIN s.forecasts :
            s.forecasts[i].model_id # DefaultModel /\ ValidForecast(s.forecasts[i], clock)
      /\ \A k \in DOMAIN s.forecasts :
            \E n \in DOMAIN models : models[n].model_id = s.forecasts[k].model_id
    BY DEF ValidIndex, ValidSupplied
<1>3. /\ state.recent_minutes = ReadEach(list, ReadMinute)
      /\ state.recent_settlements = settled
      /\ state.forecast = IF s.forecast = None THEN None ELSE ReadForecast(s.forecast)
      /\ state.forecasts = ReadEach(s.forecasts, ReadForecast)
      /\ state.components = index.components
    BY DEF ReadIndex, ReadOptional
<1> HIDE DEF state, clock
<1>4. ASSUME NEW i \in DOMAIN list
      PROVE  MinuteAt(state, list[i].minute).supplied = list[i]
    <2> DEFINE L == state.recent_minutes
               n == Len(list)
               places == {k \in DOMAIN L : L[k].minute = list[i].minute}
    <2>1. /\ n \in Nat /\ DOMAIN list = 1..n
          /\ \A k \in 1..n : list[k] \in SuppliedMinutes
          /\ \A k, j \in 1..n : list[k].minute = list[j].minute => k = j
        BY <1>1, <1>2, NewestIsFirst, LenProperties DEF MinuteLists
    <2>2. L = [k \in 1..n |-> L[k]] /\ \A k \in 1..n : L[k] = ReadMinute(list[k])
        BY <1>3, <2>1 DEF ReadEach
    <2>3. MinuteAt(state, list[i].minute) = FirstAt(L, places)
        BY DEF MinuteAt, FirstWhere
    <2> HIDE DEF L, n, list
    <2>4. \A k \in 1..n : L[k].minute = list[k].minute
        BY <2>1, <2>2, MinuteIsRead
    <2>5. DOMAIN L = 1..n
        BY <2>2
    <2>6. i \in places /\ places \in SUBSET (1..n) /\ \A k \in places : k = i
        BY <1>4, <2>1, <2>4, <2>5
    <2> HIDE DEF places
    <2>7. FirstAt(L, places) = L[i]
        BY <2>1, <2>2, <2>6, OneIsRead
    <2>8. L[i].supplied = list[i]
        BY <1>4, <2>1, <2>2, MinuteIsRead
    <2> QED BY <2>3, <2>7, <2>8
<1>5. ASSUME NEW i \in DOMAIN settled
      PROVE  Settlement(state, settled[i].hour_end) = settled[i]
    <2> DEFINE places == {k \in DOMAIN settled : settled[k].hour_end = settled[i].hour_end}
    <2>1. Settlement(state, settled[i].hour_end) = FirstAt(settled, places)
        BY <1>3 DEF Settlement, FirstWhere
    <2>2. settled \in Seq(SuppliedSettlements)
        BY <1>1 DEF SettlementLists
    <2> HIDE DEF settled
    <2>3. \A k \in places : k = i
        BY <1>1, <1>2, <1>5, HoursAreApart
    <2>4. i \in places /\ places \in SUBSET (DOMAIN settled)
        BY <1>5
    <2> HIDE DEF places
    <2>5. FirstAt(settled, places) = settled[i]
        BY <2>2, <2>3, <2>4, OnlyOneIsFound
    <2> QED BY <2>1, <2>5
<1>6. /\ \A i \in DOMAIN s.forecasts :
            ForecastFor(state, s.forecasts[i].model_id) = ReadForecast(s.forecasts[i])
      /\ state.forecast # None => ForecastFor(state, DefaultModel) = state.forecast
    <2>1. state.forecast # None => state.forecast.model_id = DefaultModel
        <3>1. s.forecast # None => ReadForecast(s.forecast).model_id = DefaultModel
            BY <1>2 DEF ReadForecast
        <3> QED BY <1>3, <3>1
    <2> DEFINE F == s.forecasts
    <2>2. \A i \in DOMAIN F : F[i].model_id # DefaultModel
        BY <1>2
    <2>3. F \in ModelForecasts /\ StrictlySorted(KeysOf(F, ModelKey))
          /\ state.forecasts = ReadEach(F, ReadForecast)
        BY <1>1, <1>2, <1>3
    <2> HIDE DEF s, F
    <2>4. /\ \A i \in DOMAIN F : ForecastFor(state, F[i].model_id) = ReadForecast(F[i])
          /\ state.forecast # None => ForecastFor(state, DefaultModel) = state.forecast
        BY <2>1, <2>2, <2>3, ForecastsAreFound
    <2> QED BY <2>4 DEF F
<1>7. ForecastComponents(state, DefaultModel) # None
    <2> DEFINE streams == index.components.streams
               found == [forecast |-> streams["forecast"], bias |-> streams["bias"]]
    <2>1. ForecastComponents(state, DefaultModel) = found
        BY <1>3 DEF ForecastComponents
    <2>2. "forecast" \in Streams /\ "bias" \in Streams
        BY DEF Streams
    <2>3. streams["forecast"] \in ComponentMetas /\ streams["bias"] \in ComponentMetas
        BY <1>1, <2>2 DEF StreamMetas
    <2>4. found \in [forecast : ComponentMetas, bias : ComponentMetas]
        BY <2>3
    <2> QED BY <2>1, <2>4, IndexNoneAssumption
<1>8. ASSUME NEW k \in DOMAIN s.forecasts
      PROVE  ForecastComponents(state, s.forecasts[k].model_id) # None
    <2> DEFINE model == s.forecasts[k].model_id
               places == {n \in DOMAIN models : models[n].model_id = model}
               found == FirstAt(models, places)
               metas == [forecast |-> found.forecast, bias |-> found.bias]
    <2>1. model # DefaultModel /\ places # {} /\ places \in SUBSET (DOMAIN models)
        BY <1>2, <1>8
    <2>2. ForecastComponents(state, model) = IF found = None THEN None ELSE metas
        BY <1>3, <2>1 DEF ForecastComponents, FirstWhere
    <2> HIDE DEF places, models, model
    <2>3. PICK n \in places : found = models[n]
        BY <1>1, <2>1, FirstIsThere
    <2>4. found \in ModelComponents
        BY <1>1, <2>1, <2>3, LenProperties
    <2>5. found # None
        BY <2>4, IndexNoneAssumption
    <2>6. metas \in [forecast : ComponentMetas, bias : ComponentMetas]
        BY <2>4 DEF ModelComponents
    <2> HIDE DEF metas
    <2>7. metas # None
        BY <2>6, IndexNoneAssumption
    <2> QED BY <2>2, <2>5, <2>7 DEF model
<1> DEFINE forecasts == {state.forecasts[i] : i \in DOMAIN state.forecasts}
                            \cup ({state.forecast} \ {None})
<1>9. ASSUME NEW f \in forecasts
      PROVE  /\ ForecastFor(state, f.model_id) = f
             /\ ForecastComponents(state, f.model_id) # None
             /\ f.steps = [i \in DOMAIN f.supplied.steps |->
                              [at |-> f.supplied.steps[i], value |-> f.supplied.steps[i],
                               quorum_met |-> f.supplied.steps[i],
                               partial |-> f.supplied.steps[i]]]
             /\ \A i \in DOMAIN f.settles : SettleAt(f, f.settles[i]) = f.settles[i]
    <2>1. ASSUME NEW supplied \in WholeForecasts, ValidForecast(supplied, clock),
                 f = ReadForecast(supplied)
          PROVE  /\ f.model_id = supplied.model_id
                 /\ f.steps = [i \in DOMAIN f.supplied.steps |->
                                 [at |-> f.supplied.steps[i], value |-> f.supplied.steps[i],
                                  quorum_met |-> f.supplied.steps[i],
                                  partial |-> f.supplied.steps[i]]]
                 /\ \A i \in DOMAIN f.settles : SettleAt(f, f.settles[i]) = f.settles[i]
        <3>1. AlignedForecast(supplied)
            BY <2>1 DEF ValidForecast
        <3>2. f.model_id = supplied.model_id /\ f.supplied = supplied
              /\ f.settles = supplied.settles
            BY <2>1 DEF ReadForecast
        <3> QED BY <2>1, <3>1, <3>2, StepsAreRead
    <2>2. CASE f \in {state.forecasts[i] : i \in DOMAIN state.forecasts}
        <3>1. PICK i \in DOMAIN s.forecasts : f = ReadForecast(s.forecasts[i])
            BY <1>3, <2>2 DEF ReadEach
        <3>2. s.forecasts[i] \in WholeForecasts /\ ValidForecast(s.forecasts[i], clock)
            BY <1>1, <1>2, <3>1, LenProperties DEF ModelForecasts
        <3>3. f.model_id = s.forecasts[i].model_id
            BY <2>1, <3>1, <3>2
        <3>4. ForecastFor(state, f.model_id) = f
            BY <1>6, <3>1, <3>3
        <3>5. ForecastComponents(state, f.model_id) # None
            BY <1>8, <3>1, <3>3
        <3> HIDE DEF s
        <3> QED BY <2>1, <3>1, <3>2, <3>4, <3>5
    <2>3. CASE f \in {state.forecast} \ {None}
        <3>1. f = state.forecast /\ f # None
            BY <2>3
        <3>2. s.forecast # None /\ f = ReadForecast(s.forecast)
            BY <1>3, <3>1
        <3>3. /\ s.forecast \in WholeForecasts /\ ValidForecast(s.forecast, clock)
              /\ s.forecast.model_id = DefaultModel
            BY <1>1, <1>2, <3>2 DEF OptionalForecasts
        <3>4. f.model_id = DefaultModel
            BY <2>1, <3>2, <3>3
        <3>5. ForecastFor(state, f.model_id) = f
            BY <1>6, <3>1, <3>4
        <3>6. ForecastComponents(state, f.model_id) # None
            BY <1>7, <3>4
        <3> HIDE DEF s
        <3> QED BY <2>1, <3>2, <3>3, <3>5, <3>6
    <2> QED BY <2>2, <2>3
<1> HIDE DEF forecasts
<1> QED BY <1>4, <1>5, <1>9 DEF IndexReadsAreWhole, state, forecasts

-----------------------------------------------------------------------------
(* What is admitted stays admitted *)

\* A later decision's limits are no earlier.
GoesOn(c, d) ==
    /\ {c.observed, c.forecast, c.hour, d.observed, d.forecast, d.hour} \subseteq Int
    /\ c.observed =< d.observed /\ c.forecast =< d.forecast /\ c.hour =< d.hour

\* The limits of the next instant are no earlier than this one's.
LEMMA ClocksGoOn ==
    ASSUME ClockInvariant PROVE GoesOn(Clock(now), Clock(now + 1))
<1>1. /\ MaxTime \in Int /\ ObservedLead \in Int /\ ForecastLead \in Int /\ HourLead \in Int
      /\ now \in Int
    BY TimesAssumption, TimesToTell
<1>2. ASSUME NEW lead \in Int
      PROVE  /\ SaturatingAdd(now, lead) \in Int /\ SaturatingAdd(now + 1, lead) \in Int
             /\ SaturatingAdd(now, lead) =< SaturatingAdd(now + 1, lead)
    BY <1>1 DEF SaturatingAdd
<1> DEFINE c == Clock(now)
           d == Clock(now + 1)
<1>3. /\ c.observed = SaturatingAdd(now, ObservedLead)
      /\ c.forecast = SaturatingAdd(now, ForecastLead)
      /\ c.hour = SaturatingAdd(now, HourLead)
      /\ d.observed = SaturatingAdd(now + 1, ObservedLead)
      /\ d.forecast = SaturatingAdd(now + 1, ForecastLead)
      /\ d.hour = SaturatingAdd(now + 1, HourLead)
    BY DEF Clock
<1> HIDE DEF c, d
<1>4. GoesOn(c, d)
    BY <1>1, <1>2, <1>3 DEF GoesOn
<1> QED BY <1>4 DEF c, d

\* A time that was not too late is not too late for a later limit.
LEMMA TimesStayTimes ==
    ASSUME NEW a \in Int, NEW b \in Int, a =< b
    PROVE  /\ \A at \in Times : IsTime(at, a) => IsTime(at, b)
           /\ \A at \in OptionalTimes : OptionalTime(at, a) => OptionalTime(at, b)
<1>1. Times \subseteq Int
    BY TimesAssumption DEF Times
<1>2. \A at \in Times : IsTime(at, a) => IsTime(at, b)
    BY <1>1 DEF IsTime
<1> QED BY <1>2 DEF OptionalTime, OptionalTimes

\* A time within a limit is within every later one.
LEMMA LimitsGoOn ==
    ASSUME NEW c, NEW d, GoesOn(c, d)
    PROVE  /\ \A at \in Times : IsTime(at, c.observed) => IsTime(at, d.observed)
           /\ \A at \in OptionalTimes :
                 OptionalTime(at, c.observed) => OptionalTime(at, d.observed)
           /\ \A at \in Times : IsTime(at, c.forecast) => IsTime(at, d.forecast)
           /\ \A at \in Times : IsTime(at, c.hour) => IsTime(at, d.hour)
BY TimesStayTimes DEF GoesOn

\* The parts of an index, one by one.
LEMMA MetasStayValid ==
    ASSUME NEW c, NEW d, GoesOn(c, d), NEW meta \in ComponentMetas, ValidMetaTimes(meta, c)
    PROVE  ValidMetaTimes(meta, d)
<1>1. meta.updated_at \in OptionalTimes /\ meta.provenance \in Seq(Times)
    BY MetasAre DEF Provenances
<1>2. \A i \in DOMAIN meta.provenance : meta.provenance[i] \in Times
    BY <1>1, LenProperties
<1> QED BY <1>1, <1>2, LimitsGoOn DEF ValidMetaTimes

\* A minute that was admissible stays so.
LEMMA MinutesStayValid ==
    ASSUME NEW c, NEW d, GoesOn(c, d), NEW m \in SuppliedMinutes, ValidMinute(m, c)
    PROVE  ValidMinute(m, d)
<1>1. /\ m.minute \in Times /\ m.published_at \in OptionalTimes
      /\ m.stations \in Seq(StationReadings)
      /\ m.envelope # None => m.envelope \in SuppliedEnvelopes
    BY DEF SuppliedMinutes
<1>2. \A i \in DOMAIN m.stations : m.stations[i].received_at \in OptionalTimes
    <2>1. \A i \in DOMAIN m.stations : m.stations[i] \in StationReadings
        BY <1>1, LenProperties
    <2> QED BY <2>1 DEF StationReadings
<1>3. m.envelope # None =>
          m.envelope.emitted_at \in OptionalTimes /\ m.envelope.received_at \in Times
    BY <1>1 DEF SuppliedEnvelopes
<1> QED BY <1>1, <1>2, <1>3, LimitsGoOn DEF ValidMinute

\* An hour that was admissible stays so.
LEMMA HoursStayValid ==
    ASSUME NEW c, NEW d, GoesOn(c, d), NEW h \in SuppliedHours, ValidHour(h, c)
    PROVE  ValidHour(h, d)
<1>1. /\ h.hour_end \in Times /\ h.final_at \in Times /\ h.determine_by \in Times
      /\ h.feed_conditions \in Seq(FeedConditions)
      /\ h.settles_now_as # None => h.settles_now_as.minute \in Times
    BY DEF SuppliedHours
<1>2. \A i \in DOMAIN h.feed_conditions : h.feed_conditions[i].last_seen \in Times
    <2>1. \A i \in DOMAIN h.feed_conditions : h.feed_conditions[i] \in FeedConditions
        BY <1>1, LenProperties
    <2> QED BY <2>1 DEF FeedConditions
<1>3. \A i \in DOMAIN h.feed_conditions : ValidCondition(h.feed_conditions[i], d)
    BY <1>2, LimitsGoOn DEF ValidHour, ValidCondition
<1> QED BY <1>1, <1>3, LimitsGoOn DEF ValidHour

\* A forecast that was admissible stays so.
LEMMA ForecastsStayValid ==
    ASSUME NEW c, NEW d, GoesOn(c, d), NEW f \in WholeForecasts, ValidForecast(f, c)
    PROVE  ValidForecast(f, d)
<1>1. /\ f.run_time \in Times /\ f.fetched_at \in Times
      /\ f.steps \in Seq(Times) /\ f.settles \in Seq(Times)
      /\ f.bias # None => f.bias.as_of \in Times
    BY DEF WholeForecasts, SuppliedForecasts
<1>2. /\ \A i \in DOMAIN f.steps : f.steps[i] \in Times
      /\ \A i \in DOMAIN f.settles : f.settles[i] \in Times
    BY <1>1, LenProperties
<1> QED BY <1>1, <1>2, LimitsGoOn DEF ValidForecast

\* A settlement that was admissible stays so.
LEMMA SettlementsStayValid ==
    ASSUME NEW c, NEW d, GoesOn(c, d), NEW s \in SuppliedSettlements, ValidSettlement(s, c)
    PROVE  ValidSettlement(s, d)
<1>1. /\ s.hour_end \in Times /\ s.determined_at \in Times
      /\ s.settle_minute \in OptionalTimes /\ s.finalized_at \in OptionalTimes
    BY DEF SuppliedSettlements
<1> QED BY <1>1, LimitsGoOn DEF ValidSettlement

\* A calibration that was admissible stays so.
LEMMA CalibrationsStayValid ==
    ASSUME NEW c, NEW d, GoesOn(c, d), NEW k \in SuppliedCalibrations, ValidCalibration(k, c)
    PROVE  ValidCalibration(k, d)
<1>1. k.published_at \in OptionalTimes
    BY DEF SuppliedCalibrations
<1> QED BY <1>1, LimitsGoOn DEF ValidCalibration

\* What the host supplies of the index.
LEMMA SuppliedStaysValid ==
    ASSUME NEW c, NEW d, GoesOn(c, d), NEW s \in HeldIndexes, ValidSupplied(s, c)
    PROVE  ValidSupplied(s, d)
<1>1. /\ s.latest # None => s.latest \in SuppliedMinutes
      /\ s.latest_valued # None => s.latest_valued \in SuppliedMinutes
      /\ s.recent_minutes \in Seq(SuppliedMinutes)
      /\ s.current_hour # None => s.current_hour \in SuppliedHours
      /\ s.forecast # None => s.forecast \in WholeForecasts
      /\ s.forecasts \in Seq(WholeForecasts)
      /\ s.recent_settlements \in Seq(SuppliedSettlements)
      /\ s.calibration # None => s.calibration \in SuppliedCalibrations
    BY DEF HeldIndexes, OptionalMinutes, MinuteLists, OptionalHours, OptionalForecasts,
           ModelForecasts, SettlementLists, OptionalCalibrations
<1>2. /\ \A i \in DOMAIN s.recent_minutes : s.recent_minutes[i] \in SuppliedMinutes
      /\ \A i \in DOMAIN s.forecasts : s.forecasts[i] \in WholeForecasts
      /\ \A i \in DOMAIN s.recent_settlements :
            s.recent_settlements[i] \in SuppliedSettlements
    BY <1>1, LenProperties
<1>3. /\ s.latest # None => ValidMinute(s.latest, d)
      /\ s.latest_valued # None => ValidMinute(s.latest_valued, d)
      /\ \A i \in DOMAIN s.recent_minutes : ValidMinute(s.recent_minutes[i], d)
    BY <1>1, <1>2, MinutesStayValid DEF ValidSupplied
<1>4. s.current_hour # None => ValidHour(s.current_hour, d)
    BY <1>1, HoursStayValid DEF ValidSupplied
<1>5. /\ s.forecast # None => ValidForecast(s.forecast, d)
      /\ \A i \in DOMAIN s.forecasts : ValidForecast(s.forecasts[i], d)
    BY <1>1, <1>2, ForecastsStayValid DEF ValidSupplied
<1>6. \A i \in DOMAIN s.recent_settlements : ValidSettlement(s.recent_settlements[i], d)
    BY <1>2, SettlementsStayValid DEF ValidSupplied
<1>7. s.calibration # None => ValidCalibration(s.calibration, d)
    BY <1>1, CalibrationsStayValid DEF ValidSupplied
<1> QED BY <1>3, <1>4, <1>5, <1>6, <1>7 DEF ValidSupplied

\* An index that was admissible stays so as the clock goes on.
LEMMA IndexStaysValid ==
    ASSUME IndexInvariant, ClockInvariant, ValidIndex(index, now)
    PROVE  ValidIndex(index, now + 1)
<1> DEFINE c == Clock(now)
           d == Clock(now + 1)
           models == index.components.models
<1>1. /\ index.supplied \in HeldIndexes /\ models \in Seq(ModelComponents)
      /\ index.components.streams \in StreamMetas
    BY DEF IndexInvariant, HeldComponents, ModelLists
<1>2. GoesOn(c, d)
    BY ClocksGoOn
<1>3. /\ \A stream \in Streams : ValidStream(index.components.streams[stream], c)
      /\ Len(models) =< MaxModels
      /\ StrictlySorted(KeysOf(models, ModelKey))
      /\ \A k \in DOMAIN models :
            /\ models[k].model_id # DefaultModel
            /\ ValidStream(models[k].forecast, c) /\ ValidStream(models[k].bias, c)
      /\ \A k \in DOMAIN index.supplied.forecasts :
            \E n \in DOMAIN models :
                models[n].model_id = index.supplied.forecasts[k].model_id
      /\ ValidSupplied(index.supplied, c)
    BY DEF ValidIndex
<1> HIDE DEF c, d
<1>4. ASSUME NEW meta \in ComponentMetas, ValidStream(meta, c)
      PROVE  ValidStream(meta, d)
    BY <1>2, <1>4, MetasStayValid DEF ValidStream
<1>5. \A stream \in Streams : ValidStream(index.components.streams[stream], d)
    BY <1>1, <1>3, <1>4 DEF StreamMetas
<1>6. \A k \in DOMAIN models :
         models[k].forecast \in ComponentMetas /\ models[k].bias \in ComponentMetas
    <2>1. \A k \in DOMAIN models : models[k] \in ModelComponents
        BY <1>1, LenProperties
    <2> HIDE DEF models
    <2> QED BY <2>1 DEF ModelComponents
<1>7. \A k \in DOMAIN models :
         /\ models[k].model_id # DefaultModel
         /\ ValidStream(models[k].forecast, d) /\ ValidStream(models[k].bias, d)
    BY <1>3, <1>4, <1>6
<1>8. ValidSupplied(index.supplied, d)
    BY <1>1, <1>2, <1>3, SuppliedStaysValid
<1> QED BY <1>3, <1>5, <1>7, <1>8 DEF ValidIndex, d

\* The parts of a nowcast, one by one.
LEMMA EnvelopesStayValid ==
    ASSUME NEW c, NEW d, GoesOn(c, d), NEW e \in Envelopes, ValidEnvelope(e, c)
    PROVE  ValidEnvelope(e, d)
<1>1. e.emitted_at \in OptionalTimes /\ e.received_at \in Times
    BY DEF Envelopes, OptionalTimes
<1> QED BY <1>1, LimitsGoOn DEF ValidEnvelope

\* A station's issues that were admissible stay so.
LEMMA IssuesStayValid ==
    ASSUME NEW c, NEW d, GoesOn(c, d), NEW held \in WholeStations, ValidNowcastStation(held, c)
    PROVE  ValidNowcastStation(held, d)
<1>1. ASSUME NEW f \in WholeStationForecasts, ValidStationForecast(f, c)
      PROVE  ValidStationForecast(f, d)
    <2>1. f.issue_time \in Times /\ f.envelope \in Envelopes /\ f.leads \in Seq(Leads)
        BY DEF WholeStationForecasts, StationForecasts
    <2>2. \A i \in DOMAIN f.leads : f.leads[i].target_time \in Times
        <3>1. \A i \in DOMAIN f.leads : f.leads[i] \in Leads
            BY <2>1, LenProperties
        <3> QED BY <3>1 DEF Leads
    <2>3. ValidEnvelope(f.envelope, d)
        BY <1>1, <2>1, EnvelopesStayValid DEF ValidStationForecast
    <2> QED BY <1>1, <2>1, <2>2, <2>3, LimitsGoOn DEF ValidStationForecast
<1>2. \A i \in DOMAIN held.issues : held.issues[i] \in WholeStationForecasts
    BY LenProperties DEF WholeStations
<1> QED BY <1>1, <1>2 DEF ValidNowcastStation

\* An artifact that was admissible stays so.
LEMMA ArtifactsStayValid ==
    ASSUME NEW c, NEW d, GoesOn(c, d), NEW a \in Artifacts, ValidArtifact(a, c)
    PROVE  ValidArtifact(a, d)
<1>1. a.published_at \in OptionalTimes /\ a.envelope \in Envelopes
    BY DEF Artifacts, OptionalTimes
<1> QED BY <1>1, EnvelopesStayValid, LimitsGoOn DEF ValidArtifact

\* A member's observation that was admissible stays so.
LEMMA MetarsStayValid ==
    ASSUME NEW c, NEW d, GoesOn(c, d), NEW m \in MemberMetars, NEW listed,
           ValidMetar(m, listed, c)
    PROVE  ValidMetar(m, listed, d)
<1>1. m.valid_time \in Times /\ m.first_seen \in OptionalTimes /\ m.envelope \in Envelopes
    BY DEF MemberMetars, OptionalTimes
<1> QED BY <1>1, EnvelopesStayValid, LimitsGoOn DEF ValidMetar

\* An issue of the nowcast that was admissible stays so.
LEMMA IssueStaysValid ==
    ASSUME NEW c, NEW d, GoesOn(c, d), NEW issue \in NowcastIssues, ValidIssue(issue, c)
    PROVE  ValidIssue(issue, d)
<1>1. issue.issue_time \in Times /\ issue.envelope \in Envelopes
    BY DEF NowcastIssues
<1> QED BY <1>1, EnvelopesStayValid, LimitsGoOn DEF ValidIssue

\* A heartbeat that was admissible stays so.
LEMMA HeartbeatStaysValid ==
    ASSUME NEW c, NEW d, GoesOn(c, d), NEW h \in Heartbeats, ValidHeartbeat(h, c)
    PROVE  ValidHeartbeat(h, d)
<1>1. h.received_at \in Times /\ h.last_issue_time \in OptionalTimes
    BY DEF Heartbeats, OptionalTimes
<1> QED BY <1>1, LimitsGoOn DEF ValidHeartbeat

\* A nowcast that was admissible stays so as the clock goes on.
LEMMA NowcastStaysValid ==
    ASSUME NowcastInvariant, ClockInvariant, ValidNowcast(nowcast, now)
    PROVE  ValidNowcast(nowcast, now + 1)
<1> DEFINE c == Clock(now)
           d == Clock(now + 1)
           s == nowcast.supplied
           listed == {s.stations[i] : i \in DOMAIN s.stations}
<1>1. /\ s.forecasts \in Seq(WholeStations) /\ s.artifacts \in Seq(Artifacts)
      /\ s.member_metars \in Seq(MemberMetars)
      /\ s.last_issue # None => s.last_issue \in NowcastIssues
      /\ s.heartbeat # None => s.heartbeat \in Heartbeats
      /\ nowcast.feed \in ComponentMetas
    BY DEF NowcastInvariant, HeldInputs, HeldNowcasts, ForecastLists, ArtifactLists,
           MetarLists, LastIssues, LastHeartbeats
<1>2. GoesOn(c, d)
    BY ClocksGoOn
<1>3. /\ ValidMeta(nowcast.feed)
      /\ FailsClosed(nowcast)
      /\ ValidMetaTimes(nowcast.feed, c)
      /\ Len(s.forecasts) =< MaxMembers
      /\ Len(s.artifacts) =< MaxArtifacts
      /\ Len(s.member_metars) =< MaxMetars
      /\ ValidStationList(s.stations)
      /\ StrictlySorted(KeysOf(s.forecasts, ForecastKey))
      /\ \A i \in DOMAIN s.forecasts :
            s.forecasts[i].station_id \in listed /\ ValidNowcastStation(s.forecasts[i], c)
      /\ StrictlySorted(KeysOf(s.artifacts, ArtifactKey))
      /\ \A i \in DOMAIN s.artifacts : ValidArtifact(s.artifacts[i], c)
      /\ StrictlySorted(KeysOf(s.member_metars, MetarKey))
      /\ \A i \in DOMAIN s.member_metars : ValidMetar(s.member_metars[i], listed, c)
      /\ s.last_issue # None => ValidIssue(s.last_issue, c)
      /\ s.heartbeat # None => ValidHeartbeat(s.heartbeat, c)
    BY DEF ValidNowcast
<1> HIDE DEF c, d, listed
<1>4. ValidMetaTimes(nowcast.feed, d)
    BY <1>1, <1>2, <1>3, MetasStayValid
<1>5. \A i \in DOMAIN s.forecasts :
         s.forecasts[i].station_id \in listed /\ ValidNowcastStation(s.forecasts[i], d)
    <2>1. \A i \in DOMAIN s.forecasts : s.forecasts[i] \in WholeStations
        BY <1>1, LenProperties
    <2> QED BY <1>2, <1>3, <2>1, IssuesStayValid
<1>6. \A i \in DOMAIN s.artifacts : ValidArtifact(s.artifacts[i], d)
    <2>1. \A i \in DOMAIN s.artifacts : s.artifacts[i] \in Artifacts
        BY <1>1, LenProperties
    <2> QED BY <1>2, <1>3, <2>1, ArtifactsStayValid
<1>7. \A i \in DOMAIN s.member_metars : ValidMetar(s.member_metars[i], listed, d)
    <2>1. \A i \in DOMAIN s.member_metars : s.member_metars[i] \in MemberMetars
        BY <1>1, LenProperties
    <2> QED BY <1>2, <1>3, <2>1, MetarsStayValid
<1>8. /\ s.last_issue # None => ValidIssue(s.last_issue, d)
      /\ s.heartbeat # None => ValidHeartbeat(s.heartbeat, d)
    BY <1>1, <1>2, <1>3, IssueStaysValid, HeartbeatStaysValid
<1> QED BY <1>3, <1>4, <1>5, <1>6, <1>7, <1>8 DEF ValidNowcast, d, listed

-----------------------------------------------------------------------------
(* The inputs beside each other *)

\* What every part is made of, whichever of them is followed.
InputInvariant ==
    /\ ClockInvariant
    /\ IndexInvariant
    /\ NowcastInvariant
    /\ StationInvariant
    /\ MarketInvariant

\* A step folds one part or delivers a packet, and leaves the others; or time passes.
LEMMA OneAtATime ==
    [Next]_vars =>
        /\ UNCHANGED index \/ IndexFold
        /\ UNCHANGED nowcast \/ NowcastFold
        /\ UNCHANGED StationVars \/ StationFold \/ Deliver
        /\ UNCHANGED MarketVars \/ MarketFold
        /\ UNCHANGED now \/ (Tick /\ UNCHANGED InputVars)
<1> SUFFICES ASSUME [Next]_vars
             PROVE  /\ UNCHANGED index \/ IndexFold
                    /\ UNCHANGED nowcast \/ NowcastFold
                    /\ UNCHANGED StationVars \/ StationFold \/ Deliver
                    /\ UNCHANGED MarketVars \/ MarketFold
                    /\ UNCHANGED now \/ (Tick /\ UNCHANGED InputVars)
    OBVIOUS
<1>1. CASE IndexUpdate
    BY <1>1 DEF IndexUpdate, Update, NowcastVars
<1>2. CASE NowcastUpdate
    BY <1>2 DEF NowcastUpdate, Update, IndexVars
<1>3. CASE StationUpdate
    BY <1>3 DEF StationUpdate, Update, IndexVars, NowcastVars
<1>4. CASE MarketUpdate
    BY <1>4 DEF MarketUpdate, Update, IndexVars, NowcastVars
<1>5. CASE CaptureDelivered
    BY <1>5 DEF CaptureDelivered, IndexVars, NowcastVars
<1>6. CASE TimePasses
    BY <1>6 DEF TimePasses, InputVars
<1>7. CASE UNCHANGED vars
    BY <1>7 DEF vars, InputVars
<1> QED BY <1>1, <1>2, <1>3, <1>4, <1>5, <1>6, <1>7 DEF Next

\* The invariant holds at the start.
LEMMA InputsStart ==
    Init => InputInvariant
<1> SUFFICES ASSUME Init PROVE InputInvariant
    OBVIOUS
<1>1. ClockInvariant
    BY TimesAssumption DEF Init, ClockInvariant
<1>2. IndexInvariant
    BY IndexStarts DEF Init
<1>3. NowcastInvariant
    BY <1>1, NowcastStarts DEF Init
<1>4. StationInvariant
    BY StationStarts DEF Init
<1>5. MarketInvariant
    BY MarketsStart DEF Init
<1> QED BY <1>1, <1>2, <1>3, <1>4, <1>5 DEF InputInvariant

\* Every step keeps it.
LEMMA InputsStay ==
    InputInvariant /\ [Next]_vars => InputInvariant'
<1> SUFFICES ASSUME InputInvariant, [Next]_vars PROVE InputInvariant'
    OBVIOUS
<1>1. /\ UNCHANGED index \/ IndexFold
      /\ UNCHANGED nowcast \/ NowcastFold
      /\ UNCHANGED StationVars \/ StationFold \/ Deliver
      /\ UNCHANGED MarketVars \/ MarketFold
      /\ UNCHANGED now \/ Tick
    BY OneAtATime
<1>2. /\ ClockInvariant /\ now \in Times
      /\ IndexInvariant /\ NowcastInvariant /\ StationInvariant /\ MarketInvariant
    BY TimesToTell DEF InputInvariant
<1>3. ClockInvariant'
    BY <1>1, <1>2, ClockRuns
<1>4. IndexInvariant'
    <2>1. CASE UNCHANGED index
        BY <1>2, <2>1 DEF IndexInvariant
    <2>2. CASE IndexFold
        BY <1>2, <2>2, IndexFolds
    <2> QED BY <1>1, <2>1, <2>2
<1>5. NowcastInvariant'
    <2>1. CASE UNCHANGED nowcast
        BY <1>2, <2>1 DEF NowcastInvariant
    <2>2. CASE NowcastFold
        BY <1>2, <2>2, NowcastFolds
    <2> QED BY <1>1, <2>1, <2>2
<1>6. StationInvariant'
    <2>1. CASE UNCHANGED StationVars
        <3>1. station' = station /\ captured' = captured /\ accepted' = accepted
            BY <2>1 DEF StationVars
        <3> QED BY <1>2, <3>1 DEF StationInvariant, StationTypeOK, AcceptedStaysCurrent,
                                  CapturedStaysDeliverable
    <2>2. CASE StationFold
        BY <1>2, <2>2, StationFolds
    <2>3. CASE Deliver
        BY <1>2, <2>3, DeliveryKeepsStation
    <2> QED BY <1>1, <2>1, <2>2, <2>3
<1>7. MarketInvariant'
    <2>1. CASE UNCHANGED MarketVars
        <3>1. markets' = markets /\ window' = window /\ strikes' = strikes
            BY <2>1 DEF MarketVars
        <3> QED BY <1>2, <3>1 DEF MarketInvariant, MarketTypeOK
    <2>2. CASE MarketFold
        BY <1>2, <2>2, MarketsStay
    <2> QED BY <1>1, <2>1, <2>2
<1> QED BY <1>3, <1>4, <1>5, <1>6, <1>7 DEF InputInvariant

\* The strengthened types and what the station and the markets keep hold of every context the
\* host builds, whatever its folds let slip.
THEOREM InputsAreInvariant ==
    Spec => []InputInvariant
BY InputsStart, InputsStay, PTL DEF Spec

\* Every part is what the contract's types can hold.
THEOREM InputsAreTyped ==
    Spec => []TypeOK
<1>1. InputInvariant => TypeOK
    BY IndexIsTyped, NowcastIsTyped
    DEF InputInvariant, TypeOK, StationInvariant, MarketInvariant
<1> QED BY <1>1, InputsAreInvariant, PTL

\* A packet the station's owner captured is admitted whenever it is delivered, whatever the
\* owner was told in between.
THEOREM PacketsStayDeliverable ==
    Spec => []CapturedStaysDeliverable
<1>1. InputInvariant => CapturedStaysDeliverable
    BY DEF InputInvariant, StationInvariant
<1> QED BY <1>1, InputsAreInvariant, PTL

\* The winners a context holds are the values last accepted of each field, and they and the
\* issuance are admissible in every state, across reconnects.
THEOREM AcceptedIsCurrent ==
    Spec => []AcceptedStaysCurrent
<1>1. InputInvariant => AcceptedStaysCurrent
    BY DEF InputInvariant, StationInvariant
<1> QED BY <1>1, InputsAreInvariant, PTL

\* The running high, the reports and the table of the owner's query that a kernel reads are
\* the owner's, whatever originals are retained: the high within the rounding of its
\* precision, the table's rows unless an original of it is shown.
THEOREM StationShowsTheOwners ==
    Spec => []ShownIsTheOwners
<1>1. InputInvariant => ShownIsTheOwners
    BY OwnersIsShown DEF InputInvariant
<1> QED BY <1>1, InputsAreInvariant, PTL

\* What a kernel reads as a window's least quantity at a level is of that market, side and
\* price, and no more than can be hit there now.
THEOREM WindowsFollowBooks ==
    Spec => []WindowIsOfTheBook
<1>1. InputInvariant => WindowIsOfTheBook
    BY ChecksBindTheWindow DEF InputInvariant
<1> QED BY <1>1, InputsAreInvariant, PTL

\* The summaries of an admitted index tell what its retained minutes tell.
THEOREM SummariesFollowMinutes ==
    Spec => []SummariesTellTheMinutes
<1>1. InputInvariant => SummariesTellTheMinutes
    BY SummariesAreRead DEF InputInvariant
<1> QED BY <1>1, InputsAreInvariant, PTL

\* Every record of an admitted index is found by its key, whole.
THEOREM IndexIsWhole ==
    Spec => []IndexReadsAreWhole
<1>1. InputInvariant => IndexReadsAreWhole
    BY IndexIsReadWhole DEF InputInvariant
<1> QED BY <1>1, InputsAreInvariant, PTL

\* An admitted nowcast is available only of a feed the host vouches for.
THEOREM NowcastIsClosed ==
    Spec => []NowcastFailsClosed
BY ClosedFeedsFail, PTL

\* What a kernel reads of an admitted nowcast is each station's and each model's own, in
\* order and whole.
THEOREM NowcastIsWhole ==
    Spec => []NowcastReadsAreWhole
<1>1. InputInvariant => NowcastReadsAreWhole
    BY NowcastIsReadWhole DEF InputInvariant
<1> QED BY <1>1, InputsAreInvariant, PTL

\* Inputs that were admitted are admitted at every later decision until an update changes
\* them.
THEOREM AdmittedInputsStay ==
    Spec => InputsStayValid
<1>1. InputInvariant /\ [Next]_vars => (UNCHANGED InputVars /\ ValidInputs(now) => ValidInputs(now'))
    <2> SUFFICES ASSUME InputInvariant, [Next]_vars, ValidInputs(now)
                 PROVE  ValidInputs(now')
        OBVIOUS
    <2>1. ClockInvariant /\ IndexInvariant /\ NowcastInvariant
        BY DEF InputInvariant
    <2>2. now' = now \/ now' = now + 1
        BY OneAtATime DEF Tick
    <2>3. CASE now' = now
        BY <2>3
    <2>4. CASE now' = now + 1
        <3>1. ValidIndex(index, now') /\ ValidNowcast(nowcast, now')
            BY <2>1, <2>4, IndexStaysValid, NowcastStaysValid DEF ValidInputs
        <3> QED BY <3>1 DEF ValidInputs
    <2> QED BY <2>2, <2>3, <2>4
<1>2. InputInvariant /\ [Next]_vars =>
          [UNCHANGED InputVars /\ ValidInputs(now) => ValidInputs(now')]_vars
    BY <1>1
<1> QED BY <1>2, InputsAreInvariant, PTL DEF Spec, InputsStayValid

=============================================================================
