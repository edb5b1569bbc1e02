------------------------ MODULE FillAccountingProofs ------------------------
(***************************************************************************)
(* Every fill is told once, for every value of the constants: the proofs   *)
(* of FillsAccounted, NeverToldTwice, ClosedOrdersAreTold,                 *)
(* AcknowledgedIsUntracked and AcknowledgedIsTold, from FillInvariant,     *)
(* AckInvariant and KnownInvariant; and of ReportsFollowFills, that the    *)
(* runner implements FillReporting, under FillInvariant.                   *)
(***************************************************************************)
EXTENDS RunnerSectionProofs

-----------------------------------------------------------------------------
(* Histories.                                                              *)

IsHistory(h) ==
    /\ Len(h) \in Nat /\ Len(h) > 0
    /\ \A r \in 1..Len(h) : IsSnapshot(h[r])

Grows(h, g) ==
    /\ Len(g) >= Len(h)
    /\ \A r \in 1..Len(h) : g[r] = h[r]

\* Along a history an order keeps its fills, and stays as it is once final.
LEMMA OrdersMoveOn ==
    ASSUME NEW h, IsHistory(h), HistoryOK(h),
           NEW r \in 1..Len(h), NEW q \in 1..Len(h), r <= q, NEW o \in DOMAIN h[r].orders
    PROVE  /\ o \in DOMAIN h[q].orders
           /\ h[r].orders[o].filled \in Nat /\ h[q].orders[o].filled \in Nat
           /\ h[r].orders[o].filled <= h[q].orders[o].filled
           /\ Terminal(h[r].orders[o]) => h[q].orders[o] = h[r].orders[o]
<1>1. o \in DOMAIN h[q].orders /\ Becomes(h[r].orders[o], h[q].orders[o])
    BY DEF HistoryOK, Follows
<1>2. h[r].orders[o] \in Order /\ h[q].orders[o] \in Order
    BY <1>1 DEF IsHistory, IsSnapshot, IsPartial
<1>3. h[r].orders[o].filled \in Nat /\ h[q].orders[o].filled \in Nat
    BY <1>2, LimitsAssumption DEF Order
<1> QED BY <1>1, <1>3 DEF Becomes

\* What the Broker once had it has at the newest revision, order or receipt.
LEMMA NewestHasAll ==
    ASSUME NEW h, IsHistory(h), HistoryOK(h), NEW r \in 1..Len(h)
    PROVE  /\ DOMAIN h[r].orders \subseteq DOMAIN h[Len(h)].orders
           /\ DOMAIN h[r].receipts \subseteq DOMAIN h[Len(h)].receipts
           /\ \A c \in DOMAIN h[r].receipts : h[Len(h)].receipts[c] = h[r].receipts[c]
           /\ DOMAIN h[Len(h)].orders \cap DOMAIN h[Len(h)].receipts = {}
<1>1. Len(h) \in 1..Len(h) /\ r <= Len(h)
    BY DEF IsHistory
<1> QED BY <1>1 DEF HistoryOK, Follows

\* The history of the state, and of the state after one more revision.
LEMMA BrokerIsHistory == ASSUME TypeOK PROVE IsHistory(broker)
BY DEF TypeOK, Revision, IsHistory

\* What is sound over a history stays so as the history grows.
LEMMA SoundLasts ==
    ASSUME NEW h, IsHistory(h), NEW g, IsHistory(g), HistoryOK(g), Grows(h, g),
           NEW s, IsSection(s), NEW b, SoundOver(h, s, b)
    PROVE  SoundOver(g, s, b)
<1>1. s.newest \in Nat /\ s.newest <= Len(h) /\ Len(h) \in Nat /\ Len(g) \in Nat
    BY DEF IsSection, SoundOver, IsHistory
<1>2. s.newest <= Len(g)
    BY <1>1 DEF Grows
<1>3. \A r \in 1..s.newest : g[r] = h[r]
    BY <1>1 DEF Grows
<1>4. Len(h) \in 1..Len(g) /\ g[Len(h)] = h[Len(h)]
    BY DEF Grows, IsHistory
<1>5. /\ DOMAIN h[Len(h)].orders \subseteq DOMAIN g[Len(g)].orders
      /\ DOMAIN h[Len(h)].receipts \subseteq DOMAIN g[Len(g)].receipts
    BY <1>4, NewestHasAll
<1>6. Tracked(s) \subseteq Used(g)
    BY <1>5 DEF SoundOver, Used
<1>7. \A o \in Places : ToldByThen(g, s, b, o)
    BY <1>3 DEF SoundOver, ToldByThen
<1>8. \A o \in b.closed \cap Places :
          o \notin Tracked(s) /\ (FinalByThen(g, s, b, o) \/ o \in DOMAIN g[Len(g)].receipts)
    BY <1>3, <1>5 DEF SoundOver, FinalByThen
<1> QED BY <1>2, <1>6, <1>7, <1>8 DEF SoundOver

-----------------------------------------------------------------------------
(* What the invariant says of one order.                                   *)

\* What was told of an order is at most its fill in any snapshot from the newest the
\* section has compared on, and nothing if the Broker has no such order.
LEMMA ToldIsFilled ==
    ASSUME NEW h, IsHistory(h), HistoryOK(h), NEW s, IsSection(s), NEW b, NEW o \in Places,
           s.newest <= Len(h), ToldByThen(h, s, b, o), NEW q \in 1..Len(h), s.newest <= q
    PROVE  /\ o \in DOMAIN h[q].orders => Told(b, o) <= h[q].orders[o].filled
           /\ o \notin DOMAIN h[q].orders => Told(b, o) = 0
<1>1. s.newest \in Nat /\ Len(h) \in Nat
    BY DEF IsSection, IsHistory
<1>2. CASE Told(b, o) = 0
    <2>1. o \in DOMAIN h[q].orders => h[q].orders[o] \in Order
        BY DEF IsHistory, IsSnapshot, IsPartial
    <2> QED BY <1>2, <2>1, LimitsAssumption DEF Order
<1>3. CASE Told(b, o) # 0
    <2>1. PICK r \in 1..s.newest :
            o \in DOMAIN h[r].orders /\ Told(b, o) = h[r].orders[o].filled
        BY <1>3 DEF ToldByThen
    <2>2. r \in 1..Len(h) /\ r <= q
        BY <1>1, <2>1
    <2> QED BY <2>1, <2>2, OrdersMoveOn
<1> QED BY <1>2, <1>3

-----------------------------------------------------------------------------
(* What one decision does to one order.                                    *)

\* A decision's choices, over the typed state.
Chosen(view, failed, adopted, issued) ==
    /\ view \in Views
    /\ failed \in DeliveryOutcomes(section, view)
    /\ adopted \in Adoptions(section, view)
    /\ issued \in Issues(view, adopted)

\* An entry's step adds exactly what an update of it would report.
LEMMA SettledFilled ==
    ASSUME NEW o \in Places, NEW e \in Entry, NEW view, IsView(view), Stays(o, e, view)
    PROVE  Settled(o, e, view).filled = e.filled + NewlyFilled(o, e, view)
<1>1. e.filled \in Nat
    BY LimitsAssumption DEF Entry
<1>2. After(o, e, view) \in Entry
    BY AfterIsEntry DEF Commands
<1>3. Settled(o, e, view).filled = After(o, e, view).filled
    <2> DEFINE next == After(o, e, view)
    <2>1. [next EXCEPT !.failures = 0, !.deferrals = 0].filled = next.filled
        <3> HIDE DEF next
        <3> QED BY <1>2 DEF Entry
    <2> QED BY <2>1 DEF Settled
<1>4. CASE Current(o, e, view)
    <2> DEFINE filled == view.orders[o].filled
    <2>1. filled \in Nat
        BY <1>4, LimitsAssumption DEF Current, Shows, IsView, IsPartial, Order
    <2>2. Reported(e, view.orders[o]).filled = IF filled > e.filled THEN filled ELSE e.filled
        BY DEF Reported, Entry
    <2>3. After(o, e, view) = Reported(e, view.orders[o])
        BY <1>4 DEF After, PlaceAfter
    <2>4. NewlyFilled(o, e, view) = IF filled > e.filled THEN filled - e.filled ELSE 0
        BY <1>4 DEF NewlyFilled
    <2>5. Settled(o, e, view).filled = IF filled > e.filled THEN filled ELSE e.filled
        BY <1>3, <2>2, <2>3
    <2> HIDE DEF filled
    <2> QED BY <1>1, <2>1, <2>4, <2>5
<1>5. CASE ~Current(o, e, view)
    <2>1. Absent(e, view).filled = e.filled
        <3>1. [e EXCEPT !.vanished = TRUE, !.vanishedAt = view.revision, !.absent = 0].filled
                = e.filled
            BY DEF Entry
        <3>2. [e EXCEPT !.absent = @ + 1].filled = e.filled
            BY DEF Entry
        <3> QED BY <3>1, <3>2 DEF Absent
    <2> QED BY <1>1, <1>3, <1>5, <2>1 DEF After, PlaceAfter, NewlyFilled
<1> QED BY <1>4, <1>5

\* An entry without an update has no news of the fill.
LEMMA NoUpdateNoFill ==
    ASSUME NEW o \in Places, NEW e \in Entry, NEW view, ~HasUpdate(o, e, view)
    PROVE  NewlyFilled(o, e, view) = 0
<1>1. Current(o, e, view) => e.filled = view.orders[o].filled
    BY DEF HasUpdate, PlaceHasUpdate, Changed
<1>2. e.filled \in Nat
    BY LimitsAssumption DEF Entry
<1> QED BY <1>1, <1>2 DEF NewlyFilled

\* The choices, command by command.
LEMMA ChosenFacts ==
    ASSUME TypeOK, NEW view, NEW failed, NEW adopted, NEW issued,
           Chosen(view, failed, adopted, issued)
    PROVE  /\ IsView(view) /\ view.revision \in 1..Revision
           /\ Updated(section, view) \subseteq Tracked(section)
           /\ Kept(section, view) \subseteq Tracked(section)
           /\ RetriedIn(section, failed) \subseteq Updated(section, view)
           /\ DOMAIN failed = RetriedIn(section, failed) \cup AbandonedIn(section, failed)
           /\ RetriedIn(section, failed) \cap AbandonedIn(section, failed) = {}
           /\ DOMAIN failed \subseteq Updated(section, view)
           /\ adopted \cap Tracked(section) = {}
           /\ Tracked(section) \subseteq Commands
           /\ \A c \in Tracked(section) : section.entries[c] \in Entry
           /\ \A c \in DOMAIN issued : c \in Commands /\ Unused(c)
           /\ \A o \in adopted : /\ o \in Places /\ Shows(o, view)
                                 /\ Fresh(section, view)
                                 /\ ~Terminal(view.orders[o])
<1>1. IsView(view) /\ view.revision \in 1..Revision
    BY ViewsAreTyped DEF Chosen
<1>2. DOMAIN failed \subseteq Updated(section, view)
    BY FailuresAreOfUpdates DEF Chosen
<1>3. \A c \in Tracked(section) : c \in Commands /\ section.entries[c] \in Entry
    BY DEF TypeOK, IsSection, IsPartial, Tracked
<1>4. adopted \subseteq Adoptable(section, view)
    BY AdoptionsAreAdoptable DEF Chosen
<1>5. \A c \in DOMAIN issued : c \in Commands /\ Unused(c)
    BY IssuesAreNew DEF Chosen
<1>6. \A o \in adopted : o \in Places /\ Shows(o, view)
    BY <1>1, <1>4 DEF Adoptable, IsView, IsPartial, Shows
<1> QED BY <1>1, <1>2, <1>3, <1>4, <1>5, <1>6
        DEF RetriedIn, AbandonedIn, Updated, Kept, Adoptable

\* What the decision tells of an order, by how it stands in the section before.
LEMMA ToldAfter ==
    ASSUME TypeOK, NEW view, NEW failed, NEW adopted, NEW issued, NEW evicted,
           Chosen(view, failed, adopted, issued), NEW o \in Places
    PROVE  LET after == Told(BookAfter(view, failed, adopted, evicted), o)
               before == Told(book, o)
               Fill == NewlyFilled(o, section.entries[o], view)
           IN  /\ before \in Nat
               /\ o \in Tracked(section) =>
                     after = IF o \in RetriedIn(section, failed) THEN before ELSE before + Fill
               /\ o \in adopted =>
                     after = IF view.orders[o].filled > before
                             THEN view.orders[o].filled ELSE before
               /\ o \notin Tracked(section) \cup adopted => after = before
<1> DEFINE updated == Updated(section, view)
           abandoned == AbandonedIn(section, failed)
           retried == RetriedIn(section, failed)
           Fill == NewlyFilled(o, section.entries[o], view)
           Before == IF view.orders[o].filled > Told(book, o)
                     THEN view.orders[o].filled - Told(book, o) ELSE 0
           after == BookAfter(view, failed, adopted, evicted)
<1>1. /\ book.counted[o] \in Nat /\ book.lost[o] \in Nat /\ book.unreported[o] \in Nat
      /\ Told(book, o) \in Nat
    BY DEF TypeOK, Books, Told
<1>2. /\ after.counted[o] = book.counted[o] + IF o \in updated \ DOMAIN failed THEN Fill ELSE 0
      /\ after.lost[o] = book.lost[o] + IF o \in abandoned THEN Fill ELSE 0
      /\ after.unreported[o] = book.unreported[o] + IF o \in adopted THEN Before ELSE 0
    BY DEF BookAfter
<1>3. IsView(view) /\ \A c \in adopted : Shows(c, view)
    BY ChosenFacts
<1>4. o \in adopted => view.orders[o].filled \in Nat
    BY <1>3, LimitsAssumption DEF Shows, IsView, IsPartial, Order
<1>5. o \in Tracked(section) => section.entries[o] \in Entry /\ Fill \in Nat
    <2>1. o \in Tracked(section) => section.entries[o] \in Entry
        BY ChosenFacts
    <2>2. Current(o, section.entries[o], view) => view.orders[o].filled \in Nat
        BY <1>3, LimitsAssumption DEF Current, Shows, IsView, IsPartial, Order
    <2>3. o \in Tracked(section) => section.entries[o].filled \in Nat
        BY <2>1, LimitsAssumption DEF Entry
    <2> QED BY <2>1, <2>2, <2>3 DEF NewlyFilled
<1>6. o \in Tracked(section) \ updated => Fill = 0
    BY <1>5, NoUpdateNoFill DEF Updated
<1>7. /\ updated \subseteq Tracked(section) /\ DOMAIN failed \subseteq updated
      /\ DOMAIN failed = retried \cup abandoned /\ retried \cap abandoned = {}
      /\ adopted \cap Tracked(section) = {}
    BY ChosenFacts
<1>8. ASSUME o \in Tracked(section)
      PROVE  Told(after, o) = IF o \in retried THEN Told(book, o) ELSE Told(book, o) + Fill
    <2> HIDE DEF updated, abandoned, retried, Fill, Before, after
    <2> QED BY <1>1, <1>2, <1>5, <1>6, <1>7, <1>8 DEF Told
<1>9. ASSUME o \in adopted
      PROVE  Told(after, o) = IF view.orders[o].filled > Told(book, o)
                              THEN view.orders[o].filled ELSE Told(book, o)
    <2>1. o \notin updated \cup abandoned
        BY <1>7, <1>9
    <2>2. Told(after, o) = Told(book, o) + Before
        <3>1. Before \in Nat
            BY <1>1, <1>4, <1>9
        <3> HIDE DEF updated, abandoned, retried, Fill, Before, after
        <3> QED BY <1>1, <1>2, <1>9, <2>1, <3>1 DEF Told
    <2> QED BY <1>1, <1>4, <1>9, <2>2
<1>10. ASSUME o \notin Tracked(section) \cup adopted PROVE Told(after, o) = Told(book, o)
    <2> HIDE DEF updated, abandoned, retried, Fill, Before, after
    <2> QED BY <1>1, <1>2, <1>7, <1>10 DEF Told
<1> QED BY <1>1, <1>8, <1>9, <1>10

\* The entries the decision writes, by where they come from.
LEMMA EntriesAfter ==
    ASSUME TypeOK, NEW view, NEW failed, NEW adopted, NEW issued, NEW evicted,
           Chosen(view, failed, adopted, issued),
           NEW c \in Tracked(SectionAfter(view, failed, adopted, issued, evicted))
    PROVE  LET e == SectionAfter(view, failed, adopted, issued, evicted).entries[c]
           IN  \/ c \in DOMAIN issued /\ e.filled = 0
               \/ c \in adopted /\ e.filled = view.orders[c].filled
               \/ /\ c \in RetriedIn(section, failed)
                  /\ e.filled = section.entries[c].filled
               \/ /\ c \in Kept(section, view) \ RetriedIn(section, failed)
                  /\ e = Settled(c, section.entries[c], view)
<1> DEFINE final == FinalEntries(section, view, failed, adopted, issued)
           e == SectionAfter(view, failed, adopted, issued, evicted).entries[c]
<1>1. c \in DOMAIN final /\ e = final[c]
    BY DEF SectionAfter, Tracked
<1>2. c \in RetriedIn(section, failed) \cup Kept(section, view) \cup adopted \cup DOMAIN issued
    BY <1>1 DEF FinalEntries
<1>3. CASE c \in DOMAIN issued
    <2>1. e = issued[c]
        BY <1>1, <1>3 DEF FinalEntries
    <2>2. PICK target \in Places \cup {NoTarget} :
                issued[c] = IssuedEntry(target, view.revision)
        BY <1>3, IssuesAreNew DEF Chosen
    <2>3. issued[c].filled = 0
        BY <2>2 DEF IssuedEntry
    <2> QED BY <1>3, <2>1, <2>3
<1>4. CASE c \notin DOMAIN issued /\ c \in adopted
    <2>1. e = AdoptedEntry(c, view.orders[c], view.revision)
        BY <1>1, <1>4 DEF FinalEntries
    <2> QED BY <1>4, <2>1 DEF AdoptedEntry, IssuedEntry
<1>5. CASE c \notin DOMAIN issued \cup adopted /\ c \in RetriedIn(section, failed)
    <2>1. e = Reinstated(section.entries[c], failed[c])
        BY <1>1, <1>5 DEF FinalEntries
    <2>2. section.entries[c] \in Entry
        BY <1>5, ChosenFacts
    <2> QED BY <1>5, <2>1, <2>2 DEF Reinstated, Entry
<1>6. CASE c \notin DOMAIN issued \cup adopted \cup RetriedIn(section, failed)
    BY <1>1, <1>2, <1>6 DEF FinalEntries
<1> QED BY <1>3, <1>4, <1>5, <1>6

-----------------------------------------------------------------------------
(* A decision keeps the invariant.                                         *)

\* What the view shows, as part of the history.
LEMMA ViewInHistory ==
    ASSUME TypeOK, NEW view \in Views,
           NEW g, IsHistory(g), HistoryOK(g), Grows(broker, g)
    PROVE  /\ view.revision \in 1..Len(broker) /\ view.revision \in 1..Len(g)
           /\ \A o \in DOMAIN view.orders :
                 o \in DOMAIN g[view.revision].orders
                 /\ view.orders[o] = g[view.revision].orders[o]
           /\ DOMAIN view.orders \subseteq Used(broker) \cap Used(g)
           /\ DOMAIN view.orders \cap DOMAIN g[Len(g)].receipts = {}
           /\ DOMAIN view.receipts \subseteq DOMAIN g[Len(g)].receipts
<1> DEFINE v == view.revision
<1>1. /\ v \in 1..Len(broker)
      /\ \A o \in DOMAIN view.orders : /\ o \in DOMAIN broker[v].orders
                                      /\ view.orders[o] = broker[v].orders[o]
      /\ \A c \in DOMAIN view.receipts : c \in DOMAIN broker[v].receipts
    BY ViewsAreTyped DEF Revision
<1>2. IsHistory(broker) /\ Len(broker) \in Nat /\ Len(g) \in Nat
    BY BrokerIsHistory DEF IsHistory
<1>3. v \in 1..Len(g) /\ g[v] = broker[v]
    BY <1>1, <1>2 DEF Grows
<1>4. Len(broker) \in 1..Len(g) /\ g[Len(broker)] = broker[Len(broker)]
    BY <1>2 DEF Grows, IsHistory
<1>5. DOMAIN g[v].orders \subseteq DOMAIN broker[Len(broker)].orders
    BY <1>1, <1>2, <1>3, <1>4 DEF HistoryOK, Follows
<1>6. /\ DOMAIN g[v].orders \subseteq DOMAIN g[Len(g)].orders
      /\ DOMAIN g[v].receipts \subseteq DOMAIN g[Len(g)].receipts
      /\ DOMAIN g[Len(g)].orders \cap DOMAIN g[Len(g)].receipts = {}
    BY <1>3, NewestHasAll
<1> HIDE DEF v
<1> QED BY <1>1, <1>3, <1>5, <1>6 DEF Used, v

\* What a decision leaves in the section and the book is sound over the history it saw.
LEMMA DecisionKeepsSound ==
    ASSUME TypeOK, SoundOver(broker, section, book),
           NEW view, NEW failed, NEW adopted, NEW issued, NEW evicted,
           Chosen(view, failed, adopted, issued),
           NEW g, IsHistory(g), HistoryOK(g), Grows(broker, g), DOMAIN issued \subseteq Used(g)
    PROVE  SoundOver(g, SectionAfter(view, failed, adopted, issued, evicted),
                        BookAfter(view, failed, adopted, evicted))
<1> DEFINE s2 == SectionAfter(view, failed, adopted, issued, evicted)
           b2 == BookAfter(view, failed, adopted, evicted)
           v == view.revision
           retried == RetriedIn(section, failed)
           Fill(o) == NewlyFilled(o, section.entries[o], view)
<1>1. SoundOver(g, section, book) /\ IsSection(section) /\ IsHistory(broker)
    BY BrokerIsHistory, SoundLasts DEF TypeOK
<1>2. /\ v \in 1..Len(broker) /\ v \in 1..Len(g)
      /\ \A o \in DOMAIN view.orders : o \in DOMAIN g[v].orders /\ view.orders[o] = g[v].orders[o]
      /\ DOMAIN view.orders \subseteq Used(broker) \cap Used(g)
      /\ DOMAIN view.orders \cap DOMAIN g[Len(g)].receipts = {}
      /\ DOMAIN view.receipts \subseteq DOMAIN g[Len(g)].receipts
    BY ViewInHistory DEF Chosen
<1>3. /\ s2.seeded /\ s2.newest \in Nat /\ section.newest \in Nat
      /\ s2.newest <= Len(g) /\ section.newest <= s2.newest /\ v \in 1..s2.newest
    <2>1. section.newest \in Nat /\ section.newest <= Len(g) /\ Len(g) \in Nat
        BY <1>1 DEF IsSection, SoundOver, IsHistory
    <2>2. s2.seeded /\ s2.newest = IF v > section.newest THEN v ELSE section.newest
        BY DEF SectionAfter
    <2> HIDE DEF s2, v
    <2> QED BY <1>2, <2>1, <2>2
<1>4. \A o \in adopted : o \in Places /\ Shows(o, view) /\ Fresh(section, view)
                        /\ ~Terminal(view.orders[o]) /\ o \notin Tracked(section)
    BY ChosenFacts
<1>5. ASSUME NEW c \in Tracked(s2)
      PROVE  c \in DOMAIN issued \cup adopted \cup Tracked(section)
    BY <1>5, EntriesAfter, ChosenFacts
<1>6. \A c \in DOMAIN issued : c \notin Used(broker)
    BY ChosenFacts DEF Unused, Used, Newest, Revision
<1>7. /\ \A c \in adopted : c \in Used(broker)
      /\ \A c \in Tracked(section) : c \in Used(broker) /\ c \in Used(g)
      /\ \A c \in adopted : c \in Used(g)
    BY <1>1, <1>2, <1>4 DEF SoundOver, Shows
<1>8. Tracked(s2) \subseteq Used(g)
    BY <1>5, <1>7
<1>9. ASSUME NEW o \in adopted PROVE Told(book, o) <= view.orders[o].filled
    <2>1. o \in Places /\ o \in DOMAIN g[v].orders /\ view.orders[o] = g[v].orders[o]
        BY <1>2, <1>4 DEF Shows
    <2>2. CASE ~section.seeded
        <3>1. Told(book, o) = 0
            BY <1>1, <2>1, <2>2 DEF SoundOver
        <3>2. g[v].orders[o].filled \in 0..Quantity
            BY <1>2, <2>1 DEF IsHistory, IsSnapshot, IsPartial, Order
        <3> QED BY <2>1, <3>1, <3>2, LimitsAssumption
    <2>3. CASE v > section.newest
        <3>1. section.newest <= v /\ section.newest <= Len(g) /\ ToldByThen(g, section, book, o)
            BY <1>1, <1>2, <1>3, <2>1, <2>3 DEF SoundOver
        <3> QED BY <1>1, <1>2, <2>1, <3>1, ToldIsFilled
    <2> QED BY <1>4, <2>2, <2>3 DEF Fresh
<1>10. ASSUME NEW o \in Places
       PROVE  /\ Told(book, o) \in Nat
              /\ o \in Tracked(section) =>
                    /\ Told(book, o) = section.entries[o].filled
                    /\ Told(b2, o) = IF o \in retried THEN Told(book, o) ELSE Told(book, o) + Fill(o)
              /\ o \in adopted => Told(b2, o) = view.orders[o].filled
              /\ o \notin Tracked(section) \cup adopted => Told(b2, o) = Told(book, o)
    <2>1. /\ Told(book, o) \in Nat
          /\ o \in Tracked(section) =>
                Told(b2, o) = IF o \in retried THEN Told(book, o) ELSE Told(book, o) + Fill(o)
          /\ o \in adopted => Told(b2, o) = IF view.orders[o].filled > Told(book, o)
                                            THEN view.orders[o].filled ELSE Told(book, o)
          /\ o \notin Tracked(section) \cup adopted => Told(b2, o) = Told(book, o)
        BY ToldAfter
    <2>2. o \in Tracked(section) => Told(book, o) = section.entries[o].filled
        BY DEF SoundOver, AgreesOn
    <2>3. o \in adopted => view.orders[o].filled \in Nat
        <3>1. o \in adopted => g[v].orders[o].filled \in 0..Quantity
            BY <1>2, <1>4 DEF Shows, IsHistory, IsSnapshot, IsPartial, Order
        <3> QED BY <1>2, <1>4, <3>1, LimitsAssumption DEF Shows
    <2> HIDE DEF b2, retried, Fill
    <2> QED BY <1>9, <2>1, <2>2, <2>3
<1>11. AgreesOn(s2, b2)
    <2> SUFFICES ASSUME NEW o \in Tracked(s2) \cap Places
                 PROVE  Told(b2, o) = s2.entries[o].filled
        BY DEF AgreesOn
    <2>1. \/ o \in DOMAIN issued /\ s2.entries[o].filled = 0
          \/ o \in adopted /\ s2.entries[o].filled = view.orders[o].filled
          \/ o \in retried /\ s2.entries[o].filled = section.entries[o].filled
          \/ /\ o \in Kept(section, view) \ retried
             /\ s2.entries[o] = Settled(o, section.entries[o], view)
        BY EntriesAfter
    <2>2. CASE o \in DOMAIN issued /\ s2.entries[o].filled = 0
        <3>1. o \notin Tracked(section) \cup adopted /\ o \notin DOMAIN broker[Len(broker)].orders
            BY <1>6, <1>7, <2>2 DEF Used
        <3>2. /\ Len(broker) \in 1..Len(broker) /\ section.newest <= Len(broker)
              /\ ToldByThen(broker, section, book, o)
            BY <1>1 DEF SoundOver, IsHistory
        <3>3. HistoryOK(broker)
            BY <1>1 DEF HistoryOK, IsHistory, Grows
        <3>4. Told(book, o) = 0
            BY <1>1, <3>1, <3>2, <3>3, ToldIsFilled
        <3> QED BY <1>10, <2>2, <3>1, <3>4
    <2>3. CASE o \in adopted /\ s2.entries[o].filled = view.orders[o].filled
        BY <1>10, <2>3
    <2>4. CASE o \in retried /\ s2.entries[o].filled = section.entries[o].filled
        <3>1. o \in Tracked(section)
            BY <2>4, ChosenFacts
        <3> QED BY <1>10, <2>4, <3>1
    <2>5. CASE /\ o \in Kept(section, view) \ retried
               /\ s2.entries[o] = Settled(o, section.entries[o], view)
        <3>1. o \in Tracked(section) /\ section.entries[o] \in Entry /\ IsView(view)
            BY <2>5, ChosenFacts
        <3>2. Stays(o, section.entries[o], view)
            BY <2>5 DEF Kept
        <3>3. s2.entries[o].filled = section.entries[o].filled + Fill(o)
            BY <2>5, <3>1, <3>2, SettledFilled
        <3> QED BY <1>10, <2>5, <3>1, <3>3
    <2> QED BY <2>1, <2>2, <2>3, <2>4, <2>5
<1>12. \A o \in Places : ToldByThen(g, s2, b2, o)
    <2> TAKE o \in Places
    <2>1. CASE Told(b2, o) = Told(book, o)
        <3>1. ToldByThen(g, section, book, o)
            BY <1>1 DEF SoundOver
        <3>2. \A r \in 1..section.newest : r \in 1..s2.newest
            BY <1>3
        <3> HIDE DEF s2, b2
        <3> QED BY <2>1, <3>1, <3>2 DEF ToldByThen
    <2>2. CASE Told(b2, o) # Told(book, o)
        <3>1. o \in Tracked(section) \cup adopted
            BY <1>10, <2>2
        <3>2. o \in DOMAIN view.orders /\ Told(b2, o) = view.orders[o].filled
            <4>1. CASE o \in adopted
                BY <1>4, <1>10, <4>1 DEF Shows
            <4>2. CASE o \in Tracked(section)
                <5>1. Told(b2, o) = Told(book, o) + Fill(o) /\ Fill(o) # 0
                      /\ Told(book, o) = section.entries[o].filled /\ Told(book, o) \in Nat
                    BY <1>10, <2>2, <4>2
                <5>2. /\ Current(o, section.entries[o], view)
                      /\ Fill(o) = view.orders[o].filled - section.entries[o].filled
                    BY <5>1 DEF NewlyFilled
                <5>3. g[v].orders[o].filled \in 0..Quantity
                    BY <1>2, <5>2 DEF Current, Shows, IsHistory, IsSnapshot, IsPartial, Order
                <5>4. view.orders[o].filled \in Nat
                    BY <1>2, <5>2, <5>3, LimitsAssumption DEF Current, Shows
                <5> HIDE DEF b2, Fill
                <5> QED BY <5>1, <5>2, <5>4 DEF Current, Shows
            <4> QED BY <3>1, <4>1, <4>2
        <3>3. o \in DOMAIN g[v].orders /\ Told(b2, o) = g[v].orders[o].filled /\ v \in 1..s2.newest
            BY <1>2, <1>3, <3>2
        <3> HIDE DEF s2, b2, v
        <3> QED BY <3>3 DEF ToldByThen
    <2> QED BY <2>1, <2>2
<1>13. ASSUME NEW o \in b2.closed \cap Places
       PROVE  /\ o \notin Tracked(s2)
              /\ FinalByThen(g, s2, b2, o) \/ o \in DOMAIN g[Len(g)].receipts
    <2>1. \/ o \in book.closed
          \/ /\ o \in Updated(section, view) \ retried
             /\ ReportsFinal(o, section.entries[o], view)
        BY <1>13 DEF BookAfter
    <2>2. CASE o \in book.closed
        <3>1. /\ o \notin Tracked(section)
              /\ FinalByThen(g, section, book, o) \/ o \in DOMAIN g[Len(g)].receipts
            BY <1>1, <1>13, <2>2 DEF SoundOver
        <3>2. o \in Used(broker)
            <4>1. /\ FinalByThen(broker, section, book, o) \/ o \in DOMAIN broker[Len(broker)].receipts
                  /\ section.newest <= Len(broker) /\ Len(broker) \in Nat
                BY <1>1, <1>13, <2>2 DEF SoundOver, IsHistory
            <4>2. HistoryOK(broker)
                BY <1>1 DEF HistoryOK, IsHistory, Grows
            <4>3. \A r \in 1..section.newest : r \in 1..Len(broker)
                BY <1>3, <4>1
            <4>4. \A r \in 1..Len(broker) :
                    DOMAIN broker[r].orders \subseteq DOMAIN broker[Len(broker)].orders
                BY <1>1, <4>2, NewestHasAll
            <4> QED BY <4>1, <4>3, <4>4 DEF FinalByThen, Used
        <3>3. o \notin adopted
            <4> SUFFICES ASSUME o \in adopted PROVE FALSE
                OBVIOUS
            <4>1. o \in DOMAIN view.orders /\ ~Terminal(view.orders[o]) /\ Fresh(section, view)
                BY <1>4 DEF Shows
            <4>2. section.seeded
                BY <1>1, <2>2 DEF SoundOver
            <4>3. v > section.newest
                BY <4>1, <4>2 DEF Fresh
            <4>4. PICK r \in 1..section.newest :
                    o \in DOMAIN g[r].orders /\ Terminal(g[r].orders[o])
                BY <1>2, <3>1, <4>1 DEF FinalByThen
            <4>5. r \in 1..Len(g) /\ r <= v
                BY <1>2, <1>3, <4>3, <4>4
            <4>6. g[v].orders[o] = g[r].orders[o]
                BY <1>1, <1>2, <4>4, <4>5, OrdersMoveOn
            <4> QED BY <1>2, <4>1, <4>4, <4>6
        <3>4. o \notin Tracked(s2) /\ Told(b2, o) = Told(book, o)
            BY <1>5, <1>6, <1>10, <1>13, <3>1, <3>2, <3>3
        <3>5. \A r \in 1..section.newest : r \in 1..s2.newest
            BY <1>3
        <3>6. FinalByThen(g, section, book, o) => FinalByThen(g, s2, b2, o)
            <4> HIDE DEF s2, b2
            <4> QED BY <3>4, <3>5 DEF FinalByThen
        <3> QED BY <3>1, <3>4, <3>6
    <2>3. CASE /\ o \in Updated(section, view) \ retried
               /\ ReportsFinal(o, section.entries[o], view)
        <3> DEFINE e == section.entries[o]
        <3>1. /\ o \in Tracked(section) /\ e \in Entry
              /\ HasUpdate(o, e, view) /\ ~Stays(o, e, view)
            BY <2>3, ChosenFacts DEF ReportsFinal
        <3>2. o \notin Kept(section, view) \cup retried \cup adopted \cup DOMAIN issued
            BY <1>4, <1>6, <1>7, <2>3, <3>1 DEF Kept
        <3>3. o \notin Tracked(s2)
            BY <3>2, EntriesAfter
        <3>4. CASE Shows(o, view)
            <4>1. Current(o, e, view) /\ Terminal(view.orders[o])
                BY <1>13, <3>1, <3>4 DEF Stays, PlaceStays
            <4>2. o \in DOMAIN g[v].orders /\ view.orders[o] = g[v].orders[o]
                BY <1>2, <3>4 DEF Shows
            <4>3. g[v].orders[o].filled \in Nat
                <5>1. g[v].orders[o].filled \in 0..Quantity
                    BY <1>2, <4>2 DEF IsHistory, IsSnapshot, IsPartial, Order
                <5> QED BY <5>1, LimitsAssumption
            <4>4. Told(book, o) \in Nat /\ Told(book, o) = e.filled
                  /\ Told(b2, o) = Told(book, o) + Fill(o)
                BY <1>10, <1>13, <3>1, <3>2
            <4>5. Told(book, o) <= g[v].orders[o].filled
                <5>1. CASE Told(book, o) = 0
                    BY <4>3, <5>1
                <5>2. CASE Told(book, o) # 0
                    <6>1. PICK r \in 1..section.newest :
                            o \in DOMAIN g[r].orders /\ Told(book, o) = g[r].orders[o].filled
                        BY <1>1, <1>13, <5>2 DEF SoundOver, ToldByThen
                    <6>2. r \in 1..Len(g) /\ r \in Nat /\ v \in Nat
                        BY <1>2, <1>3, <6>1
                    <6>3. CASE r <= v
                        BY <1>1, <1>2, <6>1, <6>2, <6>3, OrdersMoveOn
                    <6>4. CASE v <= r
                        <7>1. g[r].orders[o] = g[v].orders[o]
                            BY <1>1, <1>2, <4>1, <4>2, <6>2, <6>4, OrdersMoveOn
                        <7> QED BY <4>3, <6>1, <7>1
                    <6> QED BY <6>2, <6>3, <6>4
                <5> QED BY <5>1, <5>2
            <4>6. Told(b2, o) = g[v].orders[o].filled
                <5>1. Fill(o) = IF g[v].orders[o].filled > e.filled
                                THEN g[v].orders[o].filled - e.filled ELSE 0
                    BY <4>1, <4>2 DEF NewlyFilled
                <5> HIDE DEF b2, Fill, v, e
                <5> QED BY <4>3, <4>4, <4>5, <5>1
            <4>7. FinalByThen(g, s2, b2, o)
                <5>1. v \in 1..s2.newest /\ Terminal(g[v].orders[o])
                    BY <1>3, <4>1, <4>2
                <5> HIDE DEF s2, b2, v
                <5> QED BY <4>2, <4>6, <5>1 DEF FinalByThen
            <4> QED BY <3>3, <4>7
        <3>5. CASE ~Shows(o, view)
            <4>1. RefusedIn(o, view)
                BY <1>13, <3>1, <3>5
                DEF Stays, PlaceStays, HasUpdate, PlaceHasUpdate, Current, Vanishes, Expires
            <4> QED BY <1>2, <3>3, <4>1 DEF RefusedIn
        <3> QED BY <3>4, <3>5
    <2> QED BY <2>1, <2>2, <2>3
<1>14. SoundOver(g, s2, b2)
    <2> HIDE DEF s2, b2
    <2> QED BY <1>3, <1>8, <1>11, <1>12, <1>13 DEF SoundOver
<1> QED BY <1>14

-----------------------------------------------------------------------------
(* The Broker's steps keep the history.                                    *)

\* A snapshot follows whatever its predecessor followed.
LEMMA FollowsIsTransitive ==
    ASSUME NEW s, NEW t, NEW u, IsSnapshot(s), IsSnapshot(t), IsSnapshot(u),
           Follows(s, t), Follows(t, u)
    PROVE  Follows(s, u)
<1>1. ASSUME NEW o \in DOMAIN s.orders
      PROVE  o \in DOMAIN u.orders /\ Becomes(s.orders[o], u.orders[o])
    <2>1. /\ o \in DOMAIN t.orders /\ Becomes(s.orders[o], t.orders[o])
          /\ o \in DOMAIN u.orders /\ Becomes(t.orders[o], u.orders[o])
        BY DEF Follows
    <2>2. /\ s.orders[o] \in Order /\ t.orders[o] \in Order /\ u.orders[o] \in Order
        BY <2>1 DEF IsSnapshot, IsPartial
    <2>3. \A x \in Order : x.filled \in Nat /\ x.revision \in Nat
        BY LimitsAssumption DEF Order
    <2> QED BY <2>1, <2>2, <2>3 DEF Becomes
<1> QED BY <1>1 DEF Follows

\* A snapshot follows itself.
LEMMA FollowsIsReflexive == ASSUME NEW s PROVE Follows(s, s)
BY DEF Follows, Becomes

\* A snapshot that follows the newest one makes a longer history.
LEMMA AppendKeepsHistory ==
    ASSUME TypeOK, HistoryOK(broker), NEW snapshot, IsSnapshot(snapshot),
           Follows(Newest, snapshot), DOMAIN snapshot.orders \cap DOMAIN snapshot.receipts = {},
           broker' = Append(broker, snapshot)
    PROVE  /\ IsHistory(broker') /\ HistoryOK(broker') /\ Grows(broker, broker')
           /\ broker'[Len(broker')] = snapshot
<1>1. /\ Len(broker') = Len(broker) + 1 /\ Len(broker) \in Nat /\ Len(broker) > 0
      /\ \A r \in 1..Len(broker) : broker'[r] = broker[r]
      /\ broker'[Len(broker) + 1] = snapshot
      /\ \A r \in 1..Len(broker') : IsSnapshot(broker'[r])
    BY OneMoreRevision DEF Revision
<1>2. IsHistory(broker) /\ Newest = broker[Len(broker)]
    BY BrokerIsHistory DEF Newest, Revision
<1>3. ASSUME NEW r \in 1..Len(broker) PROVE Follows(broker[r], snapshot)
    <2>1. Len(broker) \in 1..Len(broker) /\ r <= Len(broker)
        BY <1>1
    <2>2. Follows(broker[r], broker[Len(broker)])
        BY <2>1 DEF HistoryOK
    <2>3. IsSnapshot(broker[r]) /\ IsSnapshot(broker[Len(broker)])
        BY <1>2, <2>1 DEF IsHistory
    <2> QED BY <1>2, <2>2, <2>3, FollowsIsTransitive
<1>4. ASSUME NEW r \in 1..Len(broker'), NEW q \in 1..Len(broker'), r <= q
      PROVE  Follows(broker'[r], broker'[q])
    <2>1. CASE q \in 1..Len(broker)
        <3>1. r \in 1..Len(broker)
            BY <1>1, <1>4, <2>1
        <3> QED BY <1>1, <1>4, <2>1, <3>1 DEF HistoryOK
    <2>2. CASE r \in 1..Len(broker) /\ q = Len(broker) + 1
        BY <1>1, <1>3, <2>2
    <2>3. CASE r = Len(broker) + 1 /\ q = Len(broker) + 1
        BY <1>1, <2>3, FollowsIsReflexive
    <2> QED BY <1>1, <1>4, <2>1, <2>2, <2>3
<1>5. \A r \in 1..Len(broker') : DOMAIN broker'[r].orders \cap DOMAIN broker'[r].receipts = {}
    BY <1>1 DEF HistoryOK
<1> QED BY <1>1, <1>4, <1>5 DEF IsHistory, HistoryOK, Grows

\* Each step either leaves the history or lets it grow by one sound snapshot.
LEMMA OrderMovesKeepsHistory ==
    ASSUME TypeOK, HistoryOK(broker), NEW o \in Places, OrderMoves(o)
    PROVE  IsHistory(broker') /\ HistoryOK(broker') /\ Grows(broker, broker')
<1>1. PICK order \in Records(Newest.orders[o].filled, Newest.orders[o].revision + 1) :
            broker' = Append(broker, [Newest EXCEPT !.orders[o] = order])
    BY DEF OrderMoves
<1> DEFINE snapshot == [Newest EXCEPT !.orders[o] = order]
<1>2. /\ o \in DOMAIN Newest.orders /\ ~Terminal(Newest.orders[o])
      /\ order \in Order /\ IsSnapshot(snapshot)
      /\ snapshot = [orders |-> [Newest.orders EXCEPT ![o] = order], receipts |-> Newest.receipts]
    BY MovedIsTyped DEF OrderMoves
<1>3. order.revision = Newest.orders[o].revision + 1 /\ order.filled >= Newest.orders[o].filled
    <2>1. order \in [status : Statuses, filled : (Newest.orders[o].filled)..Quantity,
                     revision : {Newest.orders[o].revision + 1}]
        BY <1>1 DEF Records
    <2>2. order.filled \in (Newest.orders[o].filled)..Quantity
        BY <2>1
    <2>3. Newest.orders[o].filled \in Nat
        BY <1>2, NewestIsTyped, LimitsAssumption DEF IsSnapshot, IsPartial, Order
    <2> QED BY <2>1, <2>2, <2>3, LimitsAssumption
<1>4. Newest.orders[o].revision \in Nat
    BY <1>2, NewestIsTyped DEF IsSnapshot, IsPartial, Order
<1> HIDE DEF snapshot
<1>5. /\ snapshot.orders = [Newest.orders EXCEPT ![o] = order]
      /\ snapshot.receipts = Newest.receipts
    BY <1>2
<1>6. Follows(Newest, snapshot)
    BY <1>2, <1>3, <1>4, <1>5 DEF Follows, Becomes
<1>7. DOMAIN snapshot.orders \cap DOMAIN snapshot.receipts = {}
    <2>1. DOMAIN Newest.orders \cap DOMAIN Newest.receipts = {}
        BY BrokerIsHistory DEF HistoryOK, Newest, Revision, IsHistory
    <2> QED BY <1>5, <2>1
<1> QED BY <1>1, <1>2, <1>6, <1>7, AppendKeepsHistory DEF snapshot

\* A move of another sleeve makes a longer history.
LEMMA OtherSleeveKeepsHistory ==
    ASSUME TypeOK, HistoryOK(broker), OtherSleeveMoves
    PROVE  IsHistory(broker') /\ HistoryOK(broker') /\ Grows(broker, broker')
<1>1. broker' = Append(broker, Newest)
    BY DEF OtherSleeveMoves
<1>2. DOMAIN Newest.orders \cap DOMAIN Newest.receipts = {}
    BY BrokerIsHistory DEF HistoryOK, Newest, Revision, IsHistory
<1> QED BY <1>1, <1>2, NewestIsTyped, FollowsIsReflexive, AppendKeepsHistory

\* The admission of a decision's commands makes a longer history, and uses no other
\* identities.
LEMMA AdmissionKeepsHistory ==
    ASSUME TypeOK, HistoryOK(broker), NEW view, NEW adopted, NEW issued \in Issues(view, adopted),
           NEW refused \in SUBSET DOMAIN issued, broker' = Append(broker, Admitted(issued, refused))
    PROVE  /\ IsHistory(broker') /\ HistoryOK(broker') /\ Grows(broker, broker')
           /\ DOMAIN issued \subseteq Used(broker')
           /\ Used(broker') \subseteq Used(broker) \cup DOMAIN issued
<1> DEFINE snapshot == Admitted(issued, refused)
           placed == (DOMAIN issued \cap Places) \ refused
<1>1. IsSnapshot(snapshot)
    BY AdmittedIsTyped
<1>2. /\ DOMAIN snapshot.orders = DOMAIN Newest.orders \cup placed
      /\ DOMAIN snapshot.receipts = DOMAIN Newest.receipts \cup (DOMAIN issued \ placed)
      /\ \A o \in DOMAIN Newest.orders : o \notin placed => snapshot.orders[o] = Newest.orders[o]
      /\ \A c \in DOMAIN Newest.receipts :
            c \notin DOMAIN issued => snapshot.receipts[c] = Newest.receipts[c]
    BY DEF Admitted
<1>3. \A c \in DOMAIN issued : c \notin DOMAIN Newest.orders \cup DOMAIN Newest.receipts
    BY IssuesAreNew DEF Unused
<1>4. DOMAIN Newest.orders \cap DOMAIN Newest.receipts = {}
    BY BrokerIsHistory DEF HistoryOK, Newest, Revision, IsHistory
<1> HIDE DEF snapshot
<1>5. Follows(Newest, snapshot)
    BY <1>2, <1>3 DEF Follows, Becomes
<1>6. DOMAIN snapshot.orders \cap DOMAIN snapshot.receipts = {}
    BY <1>2, <1>3, <1>4
<1>7. /\ IsHistory(broker') /\ HistoryOK(broker') /\ Grows(broker, broker')
      /\ broker'[Len(broker')] = snapshot
    BY <1>1, <1>5, <1>6, AppendKeepsHistory DEF snapshot
<1> QED BY <1>2, <1>7 DEF Used, Newest, Revision

-----------------------------------------------------------------------------
(* FillInvariant is inductive.                                             *)

\* A decision, with its effect on the history.
LEMMA DecisionCases ==
    ASSUME TypeOK, HistoryOK(broker), Decision
    PROVE  \E view, failed, adopted, issued, evicted, durable :
             /\ Chosen(view, failed, adopted, issued)
             /\ section' = SectionAfter(view, failed, adopted, issued, evicted)
             /\ book' = BookAfter(view, failed, adopted, evicted)
             /\ IF durable
                THEN /\ saved' = [section |-> section', book |-> book']
                     /\ acked' = acked \cup Acknowledged(view, section'.entries)
                ELSE UNCHANGED <<saved, acked>>
             /\ IsHistory(broker') /\ HistoryOK(broker') /\ Grows(broker, broker')
             /\ evicted \in Evictions(FinalEntries(section, view, failed, adopted, issued),
                                      Pending(section, failed))
             /\ DOMAIN issued \subseteq Used(broker')
             /\ Used(broker') \subseteq Used(broker) \cup DOMAIN issued
             /\ DOMAIN issued # {} => durable
             /\ \/ broker' = broker
                \/ \E refused \in SUBSET DOMAIN issued :
                      broker' = Append(broker, Admitted(issued, refused))
<1>1. PICK view, failed, adopted, issued, evicted, durable :
             /\ view \in Views
             /\ failed \in DeliveryOutcomes(section, view)
             /\ adopted \in Adoptions(section, view)
             /\ issued \in Issues(view, adopted)
             /\ evicted \in Evictions(FinalEntries(section, view, failed, adopted, issued),
                                      Pending(section, failed))
             /\ Decide(view, failed, adopted, issued, evicted, durable)
    BY DecisionFacts
<1>2. /\ IsHistory(broker') /\ HistoryOK(broker') /\ Grows(broker, broker')
      /\ DOMAIN issued \subseteq Used(broker')
      /\ Used(broker') \subseteq Used(broker) \cup DOMAIN issued
    <2>1. CASE DOMAIN issued = {}
        <3>1. broker' = broker
            BY <1>1, <2>1 DEF Decide
        <3> QED BY <2>1, <3>1, BrokerIsHistory DEF Grows, IsHistory
    <2>2. CASE DOMAIN issued # {}
        <3>1. PICK refused \in SUBSET DOMAIN issued :
                broker' = Append(broker, Admitted(issued, refused))
            BY <1>1, <2>2 DEF Decide
        <3> QED BY <1>1, <3>1, AdmissionKeepsHistory
    <2> QED BY <2>1, <2>2
<1>3. Chosen(view, failed, adopted, issued)
    BY <1>1 DEF Chosen
<1>4. /\ section' = SectionAfter(view, failed, adopted, issued, evicted)
      /\ book' = BookAfter(view, failed, adopted, evicted)
      /\ IF durable
         THEN /\ saved' = [section |-> section', book |-> book']
              /\ acked' = acked \cup Acknowledged(view, section'.entries)
         ELSE UNCHANGED <<saved, acked>>
      /\ DOMAIN issued # {} => durable
      /\ \/ broker' = broker
         \/ \E refused \in SUBSET DOMAIN issued :
               broker' = Append(broker, Admitted(issued, refused))
    BY <1>1 DEF Decide
<1>5. evicted \in Evictions(FinalEntries(section, view, failed, adopted, issued),
                            Pending(section, failed))
    BY <1>1
<1> HIDE DEF Chosen, Decide
<1> QED BY <1>2, <1>3, <1>4, <1>5

\* At the start nothing is told and nothing saved is ahead of the Broker.
LEMMA InitFillInvariant == Init => FillInvariant
<1> SUFFICES ASSUME Init PROVE FillInvariant
    OBVIOUS
<1>1. TypeOK
    BY InitTypeOK
<1>2. PICK orders \in ExistingOrders :
            broker = << [orders |-> orders, receipts |-> [c \in {} |-> "Refused"]] >>
    BY DEF Init
<1>3. Len(broker) = 1 /\ DOMAIN broker[1].receipts = {}
    BY <1>2
<1>4. HistoryOK(broker)
    BY <1>3, FollowsIsReflexive DEF HistoryOK
<1>5. section = EmptySection /\ book = NothingTold
      /\ saved = [section |-> EmptySection, book |-> NothingTold]
    BY DEF Init
<1>6. SoundOver(broker, EmptySection, NothingTold)
    <2>1. /\ EmptySection.newest = 0 /\ Tracked(EmptySection) = {}
          /\ ~EmptySection.seeded /\ NothingTold.closed = {}
        BY DEF EmptySection, Tracked, NothingTold
    <2>2. \A o \in Places : Told(NothingTold, o) = 0
        BY DEF NothingTold, Told
    <2> HIDE DEF Init
    <2> QED BY <1>3, <2>1, <2>2 DEF SoundOver, AgreesOn, ToldByThen
<1> QED BY <1>4, <1>5, <1>6 DEF FillInvariant

\* Every step of Broker, runner and store keeps what is told within what was filled.
LEMMA NextFillInvariant == TypeOK /\ FillInvariant /\ [Next]_vars => FillInvariant'
<1> SUFFICES ASSUME TypeOK, FillInvariant, [Next]_vars PROVE FillInvariant'
    OBVIOUS
<1>1. /\ HistoryOK(broker) /\ IsHistory(broker)
      /\ SoundOver(broker, section, book) /\ SoundOver(broker, saved.section, saved.book)
      /\ IsSection(section) /\ IsSection(saved.section)
    BY BrokerIsHistory DEF FillInvariant, TypeOK
<1>2. ASSUME IsHistory(broker'), HistoryOK(broker'), Grows(broker, broker'),
             UNCHANGED <<section, book, saved>>
      PROVE  FillInvariant'
    <2>1. SoundOver(broker', section, book)
        BY <1>1, <1>2, SoundLasts
    <2>2. SoundOver(broker', saved.section, saved.book)
        BY <1>1, <1>2, SoundLasts
    <2> QED BY <1>2, <2>1, <2>2 DEF FillInvariant
<1>3. ASSUME NEW o \in Places, OrderMoves(o) PROVE FillInvariant'
    BY <1>1, <1>2, <1>3, OrderMovesKeepsHistory DEF OrderMoves
<1>4. CASE OtherSleeveMoves
    BY <1>1, <1>2, <1>4, OtherSleeveKeepsHistory DEF OtherSleeveMoves
<1>5. CASE Decision
    <2>1. PICK view, failed, adopted, issued, evicted, durable :
             /\ Chosen(view, failed, adopted, issued)
             /\ section' = SectionAfter(view, failed, adopted, issued, evicted)
             /\ book' = BookAfter(view, failed, adopted, evicted)
             /\ IF durable
                THEN /\ saved' = [section |-> section', book |-> book']
                     /\ acked' = acked \cup Acknowledged(view, section'.entries)
                ELSE UNCHANGED <<saved, acked>>
             /\ IsHistory(broker') /\ HistoryOK(broker') /\ Grows(broker, broker')
             /\ DOMAIN issued \subseteq Used(broker')
        BY <1>1, <1>5, DecisionCases
    <2>2. SoundOver(broker', section', book')
        BY <1>1, <2>1, DecisionKeepsSound
    <2>3. SoundOver(broker', saved'.section, saved'.book)
        <3>1. CASE durable
            <4>1. saved'.section = section' /\ saved'.book = book'
                BY <2>1, <3>1
            <4> QED BY <2>2, <4>1
        <3>2. CASE ~durable
            <4>1. saved' = saved
                BY <2>1, <3>2
            <4>2. SoundOver(broker', saved.section, saved.book)
                BY <1>1, <2>1, SoundLasts
            <4> QED BY <4>1, <4>2
        <3> QED BY <3>1, <3>2
    <2> QED BY <2>1, <2>2, <2>3 DEF FillInvariant
<1>6. CASE Crash
    BY <1>1, <1>6 DEF Crash, FillInvariant
<1>7. CASE UNCHANGED vars
    BY <1>1, <1>7 DEF vars, FillInvariant
<1> QED BY <1>3, <1>4, <1>5, <1>6, <1>7 DEF Next

\* What the invariant means: nothing is told twice, and a closed order is told in full.
LEMMA FillInvariantSuffices ==
    ASSUME TypeOK, FillInvariant
    PROVE  FillsAccounted /\ NeverToldTwice /\ ClosedOrdersAreTold
<1>1. /\ HistoryOK(broker) /\ IsHistory(broker) /\ Newest = broker[Len(broker)]
      /\ SoundOver(broker, section, book) /\ IsSection(section)
    BY BrokerIsHistory DEF FillInvariant, TypeOK, Newest, Revision
<1>2. Len(broker) \in 1..Len(broker) /\ section.newest \in Nat /\ section.newest <= Len(broker)
    BY <1>1 DEF IsHistory, SoundOver, IsSection
<1>3. FillsAccounted
    BY DEF FillsAccounted, FillInvariant, SoundOver
<1>4. ASSUME NEW o \in Places
      PROVE  /\ o \in DOMAIN Newest.orders => Told(book, o) <= Newest.orders[o].filled
             /\ o \notin DOMAIN Newest.orders => Told(book, o) = 0
    <2>1. ToldByThen(broker, section, book, o)
        BY <1>1 DEF SoundOver
    <2> QED BY <1>1, <1>2, <2>1, ToldIsFilled
<1>5. NeverToldTwice
    BY <1>4 DEF NeverToldTwice, TrueFill
<1>6. ASSUME NEW o \in book.closed \cap Places
      PROVE  /\ o \notin Tracked(section)
             /\ o \in DOMAIN Newest.orders => Terminal(Newest.orders[o])
             /\ Told(book, o) = TrueFill(o)
    <2>1. /\ o \notin Tracked(section)
          /\ FinalByThen(broker, section, book, o) \/ o \in DOMAIN Newest.receipts
        BY <1>1 DEF SoundOver
    <2>2. CASE FinalByThen(broker, section, book, o)
        <3>1. PICK r \in 1..section.newest : /\ o \in DOMAIN broker[r].orders
                                            /\ Terminal(broker[r].orders[o])
                                            /\ Told(book, o) = broker[r].orders[o].filled
            BY <2>2 DEF FinalByThen
        <3>2. r \in 1..Len(broker) /\ r <= Len(broker)
            BY <1>2, <3>1
        <3>3. o \in DOMAIN Newest.orders /\ Newest.orders[o] = broker[r].orders[o]
            BY <1>1, <1>2, <3>1, <3>2, OrdersMoveOn
        <3> QED BY <2>1, <3>1, <3>3 DEF TrueFill
    <2>3. CASE o \in DOMAIN Newest.receipts
        <3>1. o \notin DOMAIN Newest.orders
            BY <1>1, <1>2, <2>3, NewestHasAll
        <3> QED BY <1>4, <2>1, <3>1 DEF TrueFill
    <2> QED BY <2>1, <2>2, <2>3
<1>7. ClosedOrdersAreTold
    BY <1>6 DEF ClosedOrdersAreTold
<1> QED BY <1>3, <1>5, <1>7

\* What the runner has told of an order is always sound over the Broker's history.
LEMMA FillInvariantHolds == Spec => [](TypeOK /\ FillInvariant)
<1> QED BY InitTypeOK, NextTypeOK, InitFillInvariant, NextFillInvariant, PTL DEF Spec

\* Kernel and section agree on every tracked order's fill, in the current checkpoint and
\* in the one a crash goes back to.
THEOREM FillsAreAccounted == Spec => []FillsAccounted
<1>1. TypeOK /\ FillInvariant => FillsAccounted
    BY FillInvariantSuffices
<1> QED BY <1>1, FillInvariantHolds, PTL

\* The kernel is never told more of an order than the Broker filled.
THEOREM NothingIsToldTwice == Spec => []NeverToldTwice
<1>1. TypeOK /\ FillInvariant => NeverToldTwice
    BY FillInvariantSuffices
<1> QED BY <1>1, FillInvariantHolds, PTL

\* An order whose final update was handled or abandoned was told in full, and no view
\* makes the runner track it again.
THEOREM ClosedOrdersStayClosed == Spec => []ClosedOrdersAreTold
<1>1. TypeOK /\ FillInvariant => ClosedOrdersAreTold
    BY FillInvariantSuffices
<1> QED BY <1>1, FillInvariantHolds, PTL

-----------------------------------------------------------------------------
(* AckInvariant is inductive.                                              *)

\* Revisions a section or an acknowledgement refers to are revisions of the history.
LEMMA Revisions ==
    ASSUME TypeOK, FillInvariant
    PROVE  /\ IsHistory(broker) /\ HistoryOK(broker) /\ Newest = broker[Len(broker)]
           /\ section.newest \in Nat /\ section.newest <= Len(broker)
           /\ saved.section.newest \in Nat /\ saved.section.newest <= Len(broker)
           /\ Len(broker) \in Nat
BY BrokerIsHistory DEF FillInvariant, TypeOK, IsSection, SoundOver, IsHistory, Newest, Revision

\* An acknowledged command has an outcome, now and in every later history.
LEMMA AckedHasOutcome ==
    ASSUME TypeOK, FillInvariant, AckInvariant, NEW c \in acked,
           NEW g, IsHistory(g), HistoryOK(g), Grows(broker, g)
    PROVE  /\ c \in Used(broker)
           /\ \/ c \in DOMAIN g[Len(g)].receipts
              \/ \E r \in 1..saved.section.newest :
                    r \in 1..Len(g) /\ c \in DOMAIN g[r].orders /\ Terminal(g[r].orders[c])
<1>1. /\ IsHistory(broker) /\ HistoryOK(broker) /\ Newest = broker[Len(broker)]
      /\ saved.section.newest \in Nat /\ saved.section.newest <= Len(broker)
      /\ Len(broker) \in Nat /\ Len(g) \in Nat
    BY Revisions DEF IsHistory
<1>2. Len(broker) \in 1..Len(g) /\ g[Len(broker)] = broker[Len(broker)]
    BY <1>1 DEF Grows, IsHistory
<1>3. CASE c \in DOMAIN Newest.receipts
    BY <1>1, <1>2, <1>3, NewestHasAll DEF Used
<1>4. CASE c \notin DOMAIN Newest.receipts
    <2>1. PICK r \in 1..saved.section.newest :
            c \in DOMAIN broker[r].orders /\ Terminal(broker[r].orders[c])
        BY <1>4 DEF AckInvariant
    <2>2. r \in 1..Len(broker)
        BY <1>1
    <2>3. r \in 1..Len(g) /\ g[r] = broker[r]
        BY <1>1, <2>2 DEF Grows
    <2>4. c \in DOMAIN broker[Len(broker)].orders
        BY <1>1, <2>1, <2>2, NewestHasAll
    <2> QED BY <2>1, <2>3, <2>4 DEF Used
<1> QED BY <1>3, <1>4

\* No decision tracks an acknowledged command again.
LEMMA AckedStaysUntracked ==
    ASSUME TypeOK, FillInvariant, AckInvariant,
           NEW view, NEW failed, NEW adopted, NEW issued, NEW evicted,
           Chosen(view, failed, adopted, issued),
           NEW g, IsHistory(g), HistoryOK(g), Grows(broker, g), NEW c \in acked
    PROVE  c \notin Tracked(SectionAfter(view, failed, adopted, issued, evicted))
<1>1. c \notin Tracked(section)
    BY DEF AckInvariant, AcknowledgedIsUntracked
<1>2. /\ c \in Used(broker)
      /\ \/ c \in DOMAIN g[Len(g)].receipts
         \/ \E r \in 1..saved.section.newest :
                r \in 1..Len(g) /\ c \in DOMAIN g[r].orders /\ Terminal(g[r].orders[c])
    BY AckedHasOutcome
<1>3. c \notin DOMAIN issued
    BY <1>2, ChosenFacts DEF Unused, Used, Newest, Revision
<1>4. c \notin adopted
    <2> SUFFICES ASSUME c \in adopted PROVE FALSE
        OBVIOUS
    <2>1. c \in DOMAIN view.orders /\ ~Terminal(view.orders[c]) /\ Fresh(section, view)
        BY ChosenFacts DEF Shows
    <2>2. /\ view.revision \in 1..Len(g)
          /\ c \in DOMAIN g[view.revision].orders
          /\ view.orders[c] = g[view.revision].orders[c]
          /\ c \notin DOMAIN g[Len(g)].receipts
        BY <2>1, ViewInHistory DEF Chosen
    <2>3. PICK r \in 1..saved.section.newest :
            r \in 1..Len(g) /\ c \in DOMAIN g[r].orders /\ Terminal(g[r].orders[c])
        BY <1>2, <2>2
    <2>4. section.seeded /\ saved.section.newest <= section.newest
        BY DEF AckInvariant
    <2>5. view.revision > section.newest
        BY <2>1, <2>4 DEF Fresh
    <2>6. r <= view.revision
        BY <2>2, <2>4, <2>5, Revisions
    <2>7. g[view.revision].orders[c] = g[r].orders[c]
        BY <2>2, <2>3, <2>6, OrdersMoveOn
    <2> QED BY <2>1, <2>2, <2>3, <2>7
<1>5. /\ RetriedIn(section, failed) \subseteq Tracked(section)
      /\ Kept(section, view) \subseteq Tracked(section)
    BY ChosenFacts
<1> QED BY <1>1, <1>3, <1>4, <1>5, EntriesAfter

\* At the start no receipt is acknowledged.
LEMMA InitAckInvariant == Init => AckInvariant
<1> SUFFICES ASSUME Init PROVE AckInvariant
    OBVIOUS
<1>1. acked = {} /\ section = EmptySection /\ saved.section = EmptySection
    BY DEF Init
<1>2. EmptySection.newest = 0 /\ EmptySection.seeded = FALSE
    BY DEF EmptySection
<1> HIDE DEF Init
<1> QED BY <1>1, <1>2 DEF AckInvariant, AcknowledgedIsUntracked

\* Every step keeps acknowledged outcomes within what the durable section has compared.
LEMMA NextAckInvariant == TypeOK /\ FillInvariant /\ AckInvariant /\ [Next]_vars => AckInvariant'
<1> SUFFICES ASSUME TypeOK, FillInvariant, AckInvariant, [Next]_vars PROVE AckInvariant'
    OBVIOUS
<1>1. HistoryOK(broker) /\ IsHistory(broker)
    BY Revisions
\* Growth alone disturbs only what is said of the history.
<1>2. ASSUME IsHistory(broker'), HistoryOK(broker'), Grows(broker, broker')
      PROVE  \A c \in acked :
                \/ c \in DOMAIN Newest'.receipts
                \/ \E r \in 1..saved.section.newest :
                      c \in DOMAIN broker'[r].orders /\ Terminal(broker'[r].orders[c])
    BY <1>2, AckedHasOutcome DEF Newest, Revision
<1>3. ASSUME NEW o \in Places, OrderMoves(o) PROVE AckInvariant'
    <2>1. IsHistory(broker') /\ HistoryOK(broker') /\ Grows(broker, broker')
        BY <1>1, <1>3, OrderMovesKeepsHistory
    <2>2. UNCHANGED <<section, saved, acked>>
        BY <1>3 DEF OrderMoves
    <2> QED BY <1>2, <2>1, <2>2 DEF AckInvariant, AcknowledgedIsUntracked
<1>4. CASE OtherSleeveMoves
    <2>1. IsHistory(broker') /\ HistoryOK(broker') /\ Grows(broker, broker')
        BY <1>1, <1>4, OtherSleeveKeepsHistory
    <2>2. UNCHANGED <<section, saved, acked>>
        BY <1>4 DEF OtherSleeveMoves
    <2> QED BY <1>2, <2>1, <2>2 DEF AckInvariant, AcknowledgedIsUntracked
<1>5. CASE Decision
    <2>1. PICK view, failed, adopted, issued, evicted, durable :
             /\ Chosen(view, failed, adopted, issued)
             /\ section' = SectionAfter(view, failed, adopted, issued, evicted)
             /\ book' = BookAfter(view, failed, adopted, evicted)
             /\ IF durable
                THEN /\ saved' = [section |-> section', book |-> book']
                     /\ acked' = acked \cup Acknowledged(view, section'.entries)
                ELSE UNCHANGED <<saved, acked>>
             /\ IsHistory(broker') /\ HistoryOK(broker') /\ Grows(broker, broker')
             /\ DOMAIN issued \subseteq Used(broker')
        BY <1>1, <1>5, DecisionCases
    <2>2. /\ section'.seeded /\ section'.newest \in Nat /\ section.newest <= section'.newest
          /\ view.revision \in 1..section'.newest
        <3>1. section.newest \in Nat /\ view.revision \in 1..Len(broker) /\ Len(broker) \in Nat
            BY <2>1, ChosenFacts, Revisions DEF Revision
        <3>2. section'.seeded /\ section'.newest =
                IF view.revision > section.newest THEN view.revision ELSE section.newest
            BY <2>1 DEF SectionAfter
        <3> QED BY <3>1, <3>2
    <2>3. \A c \in acked : c \notin Tracked(section')
        BY <2>1, AckedStaysUntracked
    <2>4. CASE durable
        <3>1. saved'.section = section' /\ acked' = acked \cup Acknowledged(view, section'.entries)
            BY <2>1, <2>4
        <3>2. \A c \in acked' : c \notin Tracked(section')
            BY <2>3, <3>1 DEF Acknowledged, Tracked
        <3>3. ASSUME NEW c \in acked'
              PROVE  \/ c \in DOMAIN Newest'.receipts
                     \/ \E r \in 1..saved'.section.newest :
                            c \in DOMAIN broker'[r].orders /\ Terminal(broker'[r].orders[c])
            <4>1. CASE c \in acked
                <5>1. saved.section.newest <= section'.newest /\ saved.section.newest \in Nat
                    BY <2>2, Revisions DEF AckInvariant
                <5>2. \A r \in 1..saved.section.newest : r \in 1..section'.newest
                    BY <2>2, <5>1
                <5> QED BY <1>2, <2>1, <3>1, <4>1, <5>2
            <4>2. CASE c \notin acked
                <5>1. \/ c \in DOMAIN view.receipts
                      \/ c \in DOMAIN view.orders /\ Terminal(view.orders[c])
                    BY <3>1, <3>3, <4>2 DEF Acknowledged
                <5>2. /\ DOMAIN view.receipts \subseteq DOMAIN broker'[Len(broker')].receipts
                      /\ \A o \in DOMAIN view.orders :
                            /\ o \in DOMAIN broker'[view.revision].orders
                            /\ view.orders[o] = broker'[view.revision].orders[o]
                    BY <2>1, ViewInHistory DEF Chosen
                <5> QED BY <2>2, <3>1, <5>1, <5>2 DEF Newest, Revision
            <4> QED BY <4>1, <4>2
        <3> QED BY <2>2, <3>1, <3>2, <3>3 DEF AckInvariant, AcknowledgedIsUntracked
    <2>5. CASE ~durable
        <3>1. saved' = saved /\ acked' = acked
            BY <2>1, <2>5
        <3>2. saved.section.newest <= section'.newest
            BY <2>2, Revisions DEF AckInvariant
        <3> QED BY <1>2, <2>1, <2>2, <2>3, <3>1, <3>2 DEF AckInvariant, AcknowledgedIsUntracked
    <2> QED BY <2>4, <2>5
<1>6. CASE Crash
    <2>1. section' = saved.section /\ UNCHANGED <<broker, saved, acked>>
        BY <1>6 DEF Crash
    <2>2. Newest' = Newest
        BY <2>1 DEF Newest, Revision
    <2> QED BY <2>1, <2>2, Revisions DEF AckInvariant, AcknowledgedIsUntracked
<1>7. CASE UNCHANGED vars
    BY <1>7 DEF vars, AckInvariant, AcknowledgedIsUntracked, Newest, Revision
<1> QED BY <1>3, <1>4, <1>5, <1>6, <1>7 DEF Next

\* Across crashes and whatever views follow, what the host was told it may forget never
\* comes back into a checkpoint's section.
THEOREM AcknowledgedStaysUntracked == Spec => []AcknowledgedIsUntracked
<1>1. TypeOK /\ FillInvariant /\ AckInvariant => AcknowledgedIsUntracked
    BY DEF AckInvariant
<1> QED BY <1>1, InitTypeOK, NextTypeOK, InitFillInvariant, NextFillInvariant,
           InitAckInvariant, NextAckInvariant, PTL DEF Spec
-----------------------------------------------------------------------------
(* KnownInvariant is inductive.                                            *)

\* Receipts a view shows are the Broker's.
LEMMA ViewedReceipts ==
    ASSUME TypeOK, NEW view \in Views, NEW g, IsHistory(g), HistoryOK(g), Grows(broker, g),
           NEW c \in DOMAIN view.receipts
    PROVE  c \in DOMAIN g[Len(g)].receipts /\ g[Len(g)].receipts[c] = view.receipts[c]
<1>1. /\ view.revision \in 1..Len(broker)
      /\ c \in DOMAIN broker[view.revision].receipts
      /\ view.receipts[c] = broker[view.revision].receipts[c]
    BY ViewsAreTyped DEF Revision
<1>2. view.revision \in 1..Len(g) /\ g[view.revision] = broker[view.revision]
    BY <1>1, ViewInHistory DEF Grows
<1> QED BY <1>1, <1>2, NewestHasAll

\* What is known stays known while the history grows.
LEMMA KnownLasts ==
    ASSUME NEW h, IsHistory(h), NEW g, IsHistory(g), HistoryOK(g), Grows(h, g),
           NEW s, NEW b, NEW c, KnownTo(h, s, b, c)
    PROVE  KnownTo(g, s, b, c)
<1>1. /\ 1 \in 1..Len(h) /\ Len(h) \in 1..Len(h) /\ Len(h) \in 1..Len(g) /\ Len(h) <= Len(g)
      /\ Len(g) \in 1..Len(g) /\ g[1] = h[1] /\ g[Len(h)] = h[Len(h)]
    BY DEF IsHistory, Grows
<1>2. \A a \in DOMAIN h[Len(h)].receipts :
          /\ a \in DOMAIN g[Len(g)].receipts
          /\ g[Len(g)].receipts[a] = h[Len(h)].receipts[a]
    BY <1>1, NewestHasAll
<1>3. \A o \in DOMAIN h[Len(h)].orders : Terminal(h[Len(h)].orders[o]) =>
          o \in DOMAIN g[Len(g)].orders /\ Terminal(g[Len(g)].orders[o])
    BY <1>1, OrdersMoveOn
<1> QED BY <1>1, <1>2, <1>3 DEF KnownTo

\* A decision loses sight of no command: what it stops tracking it was told the end of,
\* gave up, or needs no news of.
LEMMA DecisionKeepsKnown ==
    ASSUME TypeOK, NEW view, NEW failed, NEW adopted, NEW issued, NEW evicted,
           Chosen(view, failed, adopted, issued),
           evicted \in Evictions(FinalEntries(section, view, failed, adopted, issued),
                                 Pending(section, failed)),
           NEW g, IsHistory(g), HistoryOK(g), Grows(broker, g),
           NEW c \in Used(g), c \in DOMAIN issued \/ KnownTo(broker, section, book, c)
    PROVE  KnownTo(g, SectionAfter(view, failed, adopted, issued, evicted),
                   BookAfter(view, failed, adopted, evicted), c)
<1> DEFINE final == FinalEntries(section, view, failed, adopted, issued)
           s2 == SectionAfter(view, failed, adopted, issued, evicted)
           b2 == BookAfter(view, failed, adopted, evicted)
           e == section.entries[c]
           retried == RetriedIn(section, failed)
           newest == g[Len(g)]
<1>1. /\ evicted \subseteq Tombstones(final)
      /\ DOMAIN final = retried \cup Kept(section, view) \cup adopted \cup DOMAIN issued
      /\ Tracked(s2) = DOMAIN final \ evicted
      /\ b2.closed = book.closed \cup {a \in Updated(section, view) \ retried :
                                          ReportsFinal(a, section.entries[a], view)}
      /\ b2.dropped = (book.dropped \cup Expired(section, view) \cup evicted) \ adopted
    BY DEF Evictions, FinalEntries, SectionAfter, BookAfter, Tracked
<1>2. CASE c \in DOMAIN issued
    <2>1. final[c] = issued[c]
        BY <1>1, <1>2 DEF FinalEntries
    <2>2. PICK target \in Places \cup {NoTarget} :
                issued[c] = IssuedEntry(target, view.revision)
        BY <1>2, IssuesAreNew DEF Chosen
    <2>3. c \notin evicted
        BY <1>1, <2>1, <2>2 DEF Tombstones, IssuedEntry
    <2> QED BY <1>1, <1>2, <2>3 DEF KnownTo
<1>3. CASE c \in adopted /\ c \notin DOMAIN issued
    <2>1. final[c] = AdoptedEntry(c, view.orders[c], view.revision)
        BY <1>1, <1>3 DEF FinalEntries
    <2>2. c \notin evicted
        BY <1>1, <2>1 DEF Tombstones, AdoptedEntry, IssuedEntry
    <2> QED BY <1>1, <1>3, <2>2 DEF KnownTo
<1>4. CASE c \notin adopted \cup DOMAIN issued /\ c \in retried \cup Kept(section, view)
    BY <1>1, <1>4 DEF KnownTo
<1>5. CASE /\ c \notin adopted \cup DOMAIN issued \cup retried \cup Kept(section, view)
           /\ c \in Tracked(section)
    <2>1. /\ ~Stays(c, e, view) /\ c \in Commands /\ e \in Entry
          /\ IsView(view) /\ view \in Views
        BY <1>5, ChosenFacts DEF Kept, Chosen
    <2>2. CASE HasUpdate(c, e, view)
        BY <1>1, <1>5, <2>1, <2>2 DEF KnownTo, Updated, ReportsFinal
    <2>3. CASE c \in Expired(section, view)
        BY <1>1, <1>5, <2>3 DEF KnownTo
    <2>4. CASE ~HasUpdate(c, e, view) /\ c \in DOMAIN view.receipts
        <3>1. ~RefusedIn(c, view) \/ (c \in Places /\ Shows(c, view))
            BY <2>1, <2>4 DEF HasUpdate, PlaceHasUpdate
        <3>2. c \in DOMAIN newest.receipts /\ newest.receipts[c] = view.receipts[c]
            BY <2>1, <2>4, ViewedReceipts
        <3>3. ~Shows(c, view)
            BY <2>1, <3>2, ViewInHistory DEF Shows
        <3>4. view.receipts[c] \in Outcome
            BY <2>1, <2>4 DEF IsView, IsPartial, Outcome
        <3>5. view.receipts[c] = "Accepted"
            BY <2>4, <3>1, <3>3, <3>4 DEF RefusedIn, Outcome
        <3> QED BY <3>2, <3>5 DEF KnownTo
    <2>5. CASE /\ ~HasUpdate(c, e, view) /\ c \notin DOMAIN view.receipts
               /\ c \in Places
        <3>1. ~Shows(c, view)
            <4> SUFFICES ASSUME Shows(c, view) PROVE FALSE
                OBVIOUS
            <4>1. Current(c, e, view) /\ Terminal(view.orders[c])
                BY <2>1, <2>5 DEF Stays, PlaceStays
            <4>2. e.last = SeenStatus(view.orders[c], e.last)
                BY <2>5, <4>1 DEF HasUpdate, PlaceHasUpdate, Changed
            <4>3. SeenStatus(view.orders[c], e.last) \in {"Filled", "Cancelled", "Expired", "Refused"}
                BY <4>1 DEF Terminal, TerminalOrder, SeenStatus
            <4>4. e.last \in OpenSeen \cup {"None"}
                BY <2>1 DEF Entry
            <4> QED BY <4>2, <4>3, <4>4 DEF OpenSeen
        <3>2. Expires(e, view)
            BY <2>1, <2>5, <3>1 DEF Stays, PlaceStays, RefusedIn
        <3>3. ~TargetIsFinal(c, e, view)
            BY <2>5, CommandsAssumption DEF TargetIsFinal
        <3> QED BY <1>5, <2>1, <2>3, <2>5, <3>1, <3>2, <3>3 DEF Expired
    <2>6. CASE /\ ~HasUpdate(c, e, view) /\ c \notin DOMAIN view.receipts
               /\ c \notin Places
        <3>1. TargetIsFinal(c, e, view) \/ Expires(e, view)
            BY <2>1, <2>6 DEF Stays, CancelStays
        <3>2. ~Shows(c, view)
            BY <2>1, <2>6 DEF Shows, IsView, IsPartial
        <3>3. CASE ~TargetIsFinal(c, e, view)
            BY <1>5, <2>1, <2>3, <2>6, <3>1, <3>2, <3>3 DEF Expired
        <3>4. CASE TargetIsFinal(c, e, view)
            <4>1. c \in Cancels /\ e.target \in DOMAIN view.orders
                  /\ Terminal(view.orders[e.target])
                BY <3>4 DEF TargetIsFinal, Shows
            <4>2. /\ view.revision \in 1..Len(g)
                  /\ e.target \in DOMAIN g[view.revision].orders
                  /\ view.orders[e.target] = g[view.revision].orders[e.target]
                BY <2>1, <4>1, ViewInHistory
            <4>3. Len(g) \in 1..Len(g) /\ view.revision <= Len(g)
                BY <4>2 DEF IsHistory
            <4>4. e.target \in DOMAIN newest.orders /\ Terminal(newest.orders[e.target])
                BY <4>1, <4>2, <4>3, OrdersMoveOn
            <4>5. c \in DOMAIN newest.receipts
                BY <2>6, <4>3 DEF Used, IsHistory, IsSnapshot, IsPartial
            <4> QED BY <4>1, <4>4, <4>5 DEF KnownTo
        <3> QED BY <3>3, <3>4
    <2> QED BY <1>5, <2>2, <2>3, <2>4, <2>5, <2>6
<1>6. CASE c \notin adopted \cup DOMAIN issued \cup Tracked(section)
    <2>1. KnownTo(broker, section, book, c)
        BY <1>6
    <2>2. IsHistory(broker)
        BY BrokerIsHistory
    <2>3. KnownTo(g, section, book, c)
        BY <2>1, <2>2, KnownLasts
    <2>4. CASE c \in DOMAIN g[1].orders /\ Told(book, c) = 0
        <3>1. c \in Places
            <4>1. 1 \in 1..Len(g)
                BY DEF IsHistory
            <4> QED BY <2>4, <4>1 DEF IsHistory, IsSnapshot, IsPartial
        <3>2. Told(b2, c) = 0
            BY <1>6, <2>4, <3>1, ToldAfter
        <3> QED BY <2>4, <3>2 DEF KnownTo
    <2>5. CASE c \in book.closed \cup book.dropped
        BY <1>1, <1>6, <2>5 DEF KnownTo
    <2>6. CASE /\ c \notin book.closed \cup book.dropped
               /\ ~(c \in DOMAIN g[1].orders /\ Told(book, c) = 0)
        BY <1>6, <2>3, <2>6 DEF KnownTo
    <2> QED BY <2>4, <2>5, <2>6
<1> QED BY <1>1, <1>2, <1>3, <1>4, <1>5, <1>6

\* At the start there are only orders from before the runner, and nothing is told of them.
LEMMA InitKnownInvariant == Init => KnownInvariant
<1> SUFFICES ASSUME Init, NEW c \in Used(broker)
             PROVE  /\ KnownTo(broker, section, book, c)
                    /\ KnownTo(broker, saved.section, saved.book, c)
    BY DEF KnownInvariant
<1>1. PICK orders \in ExistingOrders :
            broker = << [orders |-> orders, receipts |-> [a \in {} |-> "Refused"]] >>
    BY DEF Init
<1>2. /\ Len(broker) = 1 /\ c \in DOMAIN broker[1].orders /\ c \in Places
      /\ book = NothingTold /\ saved.book = NothingTold
    <2>1. Len(broker) = 1 /\ DOMAIN broker[1].receipts = {}
        BY <1>1
    <2>2. IsSnapshot(broker[1])
        BY <2>1, InitTypeOK DEF TypeOK, Revision
    <2> QED BY <2>1, <2>2 DEF Used, IsSnapshot, IsPartial, Init
<1>3. Told(NothingTold, c) = 0
    BY <1>2 DEF NothingTold, Told
<1> HIDE DEF Init
<1> QED BY <1>2, <1>3 DEF KnownTo

\* Every step keeps the commands used known to the section and to the durable one.
LEMMA NextKnownInvariant ==
    TypeOK /\ FillInvariant /\ KnownInvariant /\ [Next]_vars => KnownInvariant'
<1> SUFFICES ASSUME TypeOK, FillInvariant, KnownInvariant, [Next]_vars PROVE KnownInvariant'
    OBVIOUS
<1>1. HistoryOK(broker) /\ IsHistory(broker) /\ Len(broker) \in 1..Len(broker)
    BY Revisions DEF IsHistory
\* Growth without a new command disturbs nothing.
<1>2. ASSUME IsHistory(broker'), HistoryOK(broker'), Grows(broker, broker'),
             Used(broker') \subseteq Used(broker), UNCHANGED <<section, book, saved>>
      PROVE  KnownInvariant'
    <2>1. ASSUME NEW c \in Used(broker')
          PROVE  /\ KnownTo(broker', section, book, c)
                 /\ KnownTo(broker', saved.section, saved.book, c)
        BY <1>1, <1>2, <2>1, KnownLasts DEF KnownInvariant
    <2> QED BY <1>2, <2>1 DEF KnownInvariant
<1>3. ASSUME NEW o \in Places, OrderMoves(o) PROVE KnownInvariant'
    <2>1. IsHistory(broker') /\ HistoryOK(broker') /\ Grows(broker, broker')
        BY <1>1, <1>3, OrderMovesKeepsHistory
    <2>2. PICK order \in Records(Newest.orders[o].filled, Newest.orders[o].revision + 1) :
                broker' = Append(broker, [Newest EXCEPT !.orders[o] = order])
        BY <1>3 DEF OrderMoves
    <2> DEFINE snapshot == [Newest EXCEPT !.orders[o] = order]
    <2>3. /\ snapshot = [orders |-> [Newest.orders EXCEPT ![o] = order],
                         receipts |-> Newest.receipts]
          /\ IsSnapshot(snapshot)
        BY <1>3, <2>2, MovedIsTyped DEF OrderMoves
    <2>4. DOMAIN snapshot.orders = DOMAIN Newest.orders
          /\ DOMAIN snapshot.receipts = DOMAIN Newest.receipts
        BY <2>3
    <2> HIDE DEF snapshot
    <2>5. Len(broker') = Len(broker) + 1 /\ broker'[Len(broker')] = snapshot
        BY <2>2, <2>3, OneMoreRevision DEF snapshot, Revision
    <2> QED BY <1>2, <1>3, <2>1, <2>4, <2>5 DEF OrderMoves, Used, Newest, Revision
<1>4. CASE OtherSleeveMoves
    <2>1. IsHistory(broker') /\ HistoryOK(broker') /\ Grows(broker, broker')
        BY <1>1, <1>4, OtherSleeveKeepsHistory
    <2>2. broker'[Len(broker')] = Newest
        BY <1>4, NewestIsTyped, OneMoreRevision DEF OtherSleeveMoves, Revision
    <2> QED BY <1>2, <1>4, <2>1, <2>2 DEF OtherSleeveMoves, Used, Newest, Revision
<1>5. CASE Decision
    <2>1. PICK view, failed, adopted, issued, evicted, durable :
             /\ Chosen(view, failed, adopted, issued)
             /\ section' = SectionAfter(view, failed, adopted, issued, evicted)
             /\ book' = BookAfter(view, failed, adopted, evicted)
             /\ IF durable
                THEN /\ saved' = [section |-> section', book |-> book']
                     /\ acked' = acked \cup Acknowledged(view, section'.entries)
                ELSE UNCHANGED <<saved, acked>>
             /\ IsHistory(broker') /\ HistoryOK(broker') /\ Grows(broker, broker')
             /\ evicted \in Evictions(FinalEntries(section, view, failed, adopted, issued),
                                      Pending(section, failed))
             /\ Used(broker') \subseteq Used(broker) \cup DOMAIN issued
             /\ DOMAIN issued # {} => durable
        BY <1>1, <1>5, DecisionCases
    <2>2. ASSUME NEW c \in Used(broker') PROVE KnownTo(broker', section', book', c)
        <3>1. c \in DOMAIN issued \/ KnownTo(broker, section, book, c)
            BY <2>1, <2>2 DEF KnownInvariant
        <3> QED BY <2>1, <2>2, <3>1, DecisionKeepsKnown
    <2>3. ASSUME NEW c \in Used(broker') PROVE KnownTo(broker', saved'.section, saved'.book, c)
        <3>1. CASE durable
            <4>1. saved'.section = section' /\ saved'.book = book'
                BY <2>1, <3>1
            <4> QED BY <2>2, <2>3, <4>1
        <3>2. CASE ~durable
            <4>1. saved' = saved /\ c \in Used(broker)
                BY <2>1, <2>3, <3>2
            <4>2. KnownTo(broker', saved.section, saved.book, c)
                BY <1>1, <2>1, <4>1, KnownLasts DEF KnownInvariant
            <4> QED BY <4>1, <4>2
        <3> QED BY <3>1, <3>2
    <2> QED BY <2>2, <2>3 DEF KnownInvariant
<1>6. CASE Crash
    BY <1>6 DEF Crash, KnownInvariant
<1>7. CASE UNCHANGED vars
    BY <1>7 DEF vars, KnownInvariant
<1> QED BY <1>3, <1>4, <1>5, <1>6, <1>7 DEF Next

\* In the checkpoint a crash goes back to, an acknowledged order was told in full and an
\* acknowledged refusal was told, but for the documented exceptions: the host may
\* forget what it was told to.
THEOREM AcknowledgedWasTold == Spec => []AcknowledgedIsTold
<1>1. ASSUME TypeOK, FillInvariant, AckInvariant, KnownInvariant,
             NEW c \in acked \ saved.book.dropped
      PROVE  IF c \in DOMAIN Newest.orders
             THEN \/ c \in saved.book.closed /\ Told(saved.book, c) = TrueFill(c)
                  \/ c \in DOMAIN broker[1].orders /\ Told(saved.book, c) = 0
             ELSE Newest.receipts[c] = "Refused" =>
                     \/ c \in saved.book.closed
                     \/ c \in Cancels /\ \E o \in DOMAIN Newest.orders : Terminal(Newest.orders[o])
    <2>1. /\ IsHistory(broker) /\ HistoryOK(broker) /\ Newest = broker[Len(broker)]
          /\ saved.section.newest \in Nat /\ saved.section.newest <= Len(broker)
          /\ Len(broker) \in 1..Len(broker) /\ 1 \in 1..Len(broker)
          /\ IsSection(saved.section)
        BY <1>1, Revisions DEF IsHistory, TypeOK
    <2>2. c \in Used(broker) /\ c \notin Tracked(saved.section)
        <3>1. Grows(broker, broker)
            BY <2>1 DEF Grows
        <3> QED BY <1>1, <2>1, <3>1, AckedHasOutcome DEF AckInvariant, AcknowledgedIsUntracked
    <2>3. KnownTo(broker, saved.section, saved.book, c)
        BY <1>1, <2>2 DEF KnownInvariant
    <2>4. DOMAIN Newest.orders \cap DOMAIN Newest.receipts = {}
        BY <2>1, NewestHasAll
    <2>5. CASE c \in DOMAIN Newest.orders
        <3>1. c \in Places
            BY <2>1, <2>5 DEF IsHistory, IsSnapshot, IsPartial
        <3>2. CASE c \in saved.book.closed
            <4>1. FinalByThen(broker, saved.section, saved.book, c)
                BY <1>1, <2>1, <2>4, <2>5, <3>1, <3>2 DEF FillInvariant, SoundOver
            <4>2. PICK r \in 1..saved.section.newest :
                    /\ c \in DOMAIN broker[r].orders /\ Terminal(broker[r].orders[c])
                    /\ Told(saved.book, c) = broker[r].orders[c].filled
                BY <4>1 DEF FinalByThen
            <4>3. r \in 1..Len(broker) /\ r <= Len(broker)
                BY <2>1
            <4>4. Newest.orders[c] = broker[r].orders[c]
                BY <2>1, <4>2, <4>3, OrdersMoveOn
            <4> QED BY <2>5, <3>2, <4>2, <4>4 DEF TrueFill
        <3>3. CASE c \notin saved.book.closed
            BY <1>1, <2>1, <2>2, <2>3, <2>4, <2>5, <3>3 DEF KnownTo
        <3> QED BY <3>2, <3>3
    <2>6. CASE c \notin DOMAIN Newest.orders
        <3>1. c \notin DOMAIN broker[1].orders
            BY <2>1, <2>6, NewestHasAll
        <3> QED BY <1>1, <2>1, <2>2, <2>3, <2>6, <3>1 DEF KnownTo
    <2> QED BY <2>5, <2>6
<1>2. TypeOK /\ FillInvariant /\ AckInvariant /\ KnownInvariant => AcknowledgedIsTold
    BY <1>1 DEF AcknowledgedIsTold
<1> QED BY <1>2, InitTypeOK, NextTypeOK, InitFillInvariant, NextFillInvariant,
           InitAckInvariant, NextAckInvariant, InitKnownInvariant, NextKnownInvariant,
           PTL DEF Spec

-----------------------------------------------------------------------------
(* The abstract state of a history.                                        *)

\* Fills and SettledOrders, of any history.
FillsIn(h, o) ==
    {0} \cup {h[r].orders[o].filled : r \in {q \in 1..Len(h) : o \in DOMAIN h[q].orders}}

SettledIn(h) ==
    {o \in Places : \/ o \in DOMAIN h[Len(h)].receipts
                    \/ o \in DOMAIN h[Len(h)].orders /\ Terminal(h[Len(h)].orders[o])}

\* The abstract variables of the state and of its successor.
LEMMA AbstractState ==
    /\ \A o : Fills(o) = FillsIn(broker, o) /\ Fills(o)' = FillsIn(broker', o)
    /\ SettledOrders = SettledIn(broker) /\ SettledOrders' = SettledIn(broker')
BY DEF Fills, FillsIn, SettledOrders, SettledIn, Newest, Revision

\* The fills an order has had are none or those of its records.
LEMMA FillsOfOrder ==
    ASSUME NEW h, IsHistory(h), NEW o, NEW n
    PROVE  /\ n \in FillsIn(h, o) <=>
                 \/ n = 0
                 \/ \E r \in 1..Len(h) : o \in DOMAIN h[r].orders /\ n = h[r].orders[o].filled
           /\ n \in FillsIn(h, o) => n \in 0..Quantity
<1>1. n \in FillsIn(h, o) <=>
          \/ n = 0
          \/ \E r \in 1..Len(h) : o \in DOMAIN h[r].orders /\ n = h[r].orders[o].filled
    BY DEF FillsIn
<1>2. ASSUME NEW r \in 1..Len(h), o \in DOMAIN h[r].orders
      PROVE  h[r].orders[o].filled \in 0..Quantity
    BY <1>2 DEF IsHistory, IsSnapshot, IsPartial, Order
<1> QED BY <1>1, <1>2, LimitsAssumption

\* One more revision adds the fill it shows.
LEMMA FillsOfOneMore ==
    ASSUME NEW h, IsHistory(h), NEW g, IsHistory(g), Grows(h, g), Len(g) = Len(h) + 1, NEW o
    PROVE  FillsIn(g, o) =
               FillsIn(h, o) \cup IF o \in DOMAIN g[Len(g)].orders
                                  THEN {g[Len(g)].orders[o].filled} ELSE {}
<1> DEFINE last == IF o \in DOMAIN g[Len(g)].orders THEN {g[Len(g)].orders[o].filled} ELSE {}
<1>1. /\ Len(h) \in Nat /\ Len(g) \in 1..Len(g)
      /\ \A r \in 1..Len(g) : r \in 1..Len(h) \/ r = Len(g)
      /\ \A r \in 1..Len(h) : r \in 1..Len(g) /\ g[r] = h[r]
    BY DEF IsHistory, Grows
<1>2. ASSUME NEW n PROVE n \in FillsIn(g, o) <=> n \in FillsIn(h, o) \/ n \in last
    BY <1>1, FillsOfOrder
<1> QED BY <1>2

\* It adds none if that fill was had before.
LEMMA NothingFilled ==
    ASSUME NEW h, IsHistory(h), NEW g, IsHistory(g), Grows(h, g), Len(g) = Len(h) + 1, NEW o,
           o \in DOMAIN g[Len(g)].orders => g[Len(g)].orders[o].filled \in FillsIn(h, o)
    PROVE  FillsIn(g, o) = FillsIn(h, o)
<1>1. CASE o \in DOMAIN g[Len(g)].orders
    <2>1. FillsIn(g, o) = FillsIn(h, o) \cup {g[Len(g)].orders[o].filled}
        BY <1>1, FillsOfOneMore
    <2> QED BY <1>1, <2>1
<1>2. CASE o \notin DOMAIN g[Len(g)].orders
    <2>1. FillsIn(g, o) = FillsIn(h, o) \cup {}
        BY <1>2, FillsOfOneMore
    <2> QED BY <2>1
<1> QED BY <1>1, <1>2

\* What was told of an order is a fill it has had.
LEMMA ToldIsFill ==
    ASSUME NEW h, IsHistory(h), NEW s, IsSection(s), NEW b, SoundOver(h, s, b), NEW o \in Places
    PROVE  Told(b, o) \in FillsIn(h, o)
<1>1. s.newest \in Nat /\ s.newest <= Len(h) /\ Len(h) \in Nat /\ ToldByThen(h, s, b, o)
    BY DEF IsHistory, IsSection, SoundOver
<1>2. \A r \in 1..s.newest : r \in 1..Len(h)
    BY <1>1
<1> QED BY <1>1, <1>2, FillsOfOrder DEF ToldByThen

\* A closed order is settled, and was told of its last fill.
LEMMA ClosedIsLastFill ==
    ASSUME NEW h, IsHistory(h), HistoryOK(h), NEW s, IsSection(s), NEW b, SoundOver(h, s, b),
           NEW o \in b.closed \cap Places
    PROVE  o \in SettledIn(h) /\ \A n \in FillsIn(h, o) : n <= Told(b, o)
<1>1. /\ s.newest \in Nat /\ s.newest <= Len(h) /\ Len(h) \in 1..Len(h) /\ Len(h) \in Nat
      /\ FinalByThen(h, s, b, o) \/ o \in DOMAIN h[Len(h)].receipts
    BY DEF IsHistory, IsSection, SoundOver
<1>2. CASE FinalByThen(h, s, b, o)
    <2>1. PICK r \in 1..s.newest : /\ o \in DOMAIN h[r].orders
                                  /\ Terminal(h[r].orders[o])
                                  /\ Told(b, o) = h[r].orders[o].filled
        BY <1>2 DEF FinalByThen
    <2>2. r \in 1..Len(h) /\ r \in Nat
        BY <1>1
    <2>3. o \in SettledIn(h) /\ Told(b, o) \in Nat
        BY <1>1, <2>1, <2>2, OrdersMoveOn DEF SettledIn
    <2>4. ASSUME NEW q \in 1..Len(h), o \in DOMAIN h[q].orders
          PROVE  h[q].orders[o].filled <= Told(b, o)
        <3>1. CASE q <= r
            BY <2>1, <2>2, <2>4, <3>1, OrdersMoveOn
        <3>2. CASE r <= q
            <4>1. h[q].orders[o] = h[r].orders[o]
                BY <2>1, <2>2, <3>2, OrdersMoveOn
            <4> QED BY <2>1, <2>3, <4>1
        <3> QED BY <2>2, <3>1, <3>2
    <2> QED BY <2>3, <2>4, FillsOfOrder
<1>3. CASE o \in DOMAIN h[Len(h)].receipts
    <2>1. o \in SettledIn(h)
        BY <1>3 DEF SettledIn
    <2>2. \A q \in 1..Len(h) : o \notin DOMAIN h[q].orders
        BY <1>3, NewestHasAll
    <2>3. \A n \in FillsIn(h, o) : n = 0
        BY <2>2, FillsOfOrder
    <2>4. Told(b, o) = 0
        BY <2>3, ToldIsFill
    <2> QED BY <2>1, <2>3, <2>4
<1> QED BY <1>1, <1>2, <1>3

-----------------------------------------------------------------------------
(* The Broker's steps.                                                     *)

\* An order that moves along fills or settles.
LEMMA OrderMovesIsFill ==
    ASSUME TypeOK, FillInvariant, NEW o \in Places, OrderMoves(o)
    PROVE  /\ o \notin SettledIn(broker)
           /\ \E n \in 0..Quantity :
                 /\ \A m \in FillsIn(broker, o) : m <= n
                 /\ FillsIn(broker', o) = FillsIn(broker, o) \cup {n}
           /\ \A p \in Places \ {o} : FillsIn(broker', p) = FillsIn(broker, p)
           /\ SettledIn(broker') \in {SettledIn(broker), SettledIn(broker) \cup {o}}
<1>1. PICK order \in Records(Newest.orders[o].filled, Newest.orders[o].revision + 1) :
            broker' = Append(broker, [Newest EXCEPT !.orders[o] = order])
    BY DEF OrderMoves
<1> DEFINE snapshot == [Newest EXCEPT !.orders[o] = order]
<1>2. /\ IsHistory(broker) /\ HistoryOK(broker) /\ Newest = broker[Len(broker)]
      /\ IsHistory(broker') /\ HistoryOK(broker') /\ Grows(broker, broker')
    BY Revisions, OrderMovesKeepsHistory
<1>3. /\ o \in DOMAIN Newest.orders /\ ~Terminal(Newest.orders[o]) /\ order \in Order
      /\ IsSnapshot(snapshot)
      /\ snapshot = [orders |-> [Newest.orders EXCEPT ![o] = order], receipts |-> Newest.receipts]
    BY <1>1, MovedIsTyped DEF OrderMoves
<1>4. Len(broker') = Len(broker) + 1 /\ broker'[Len(broker')] = snapshot
    <2> HIDE DEF snapshot
    <2> QED BY <1>1, <1>3, OneMoreRevision DEF Revision, snapshot
<1>5. Len(broker) \in 1..Len(broker) /\ Len(broker') \in 1..Len(broker')
    BY <1>2 DEF IsHistory
<1> HIDE DEF snapshot
<1>6. /\ DOMAIN snapshot.orders = DOMAIN Newest.orders /\ snapshot.receipts = Newest.receipts
      /\ snapshot.orders[o] = order
      /\ \A p \in DOMAIN Newest.orders : p # o => snapshot.orders[p] = Newest.orders[p]
    BY <1>3
<1>7. o \notin SettledIn(broker)
    BY <1>2, <1>3, <1>5 DEF SettledIn, HistoryOK
<1>8. ASSUME NEW p \in Places \ {o} PROVE FillsIn(broker', p) = FillsIn(broker, p)
    <2>1. p \in DOMAIN snapshot.orders =>
            p \in DOMAIN Newest.orders /\ snapshot.orders[p] = Newest.orders[p]
        BY <1>6, <1>8
    <2>2. p \in DOMAIN snapshot.orders => snapshot.orders[p].filled \in FillsIn(broker, p)
        BY <1>2, <1>5, <2>1, FillsOfOrder
    <2> QED BY <1>2, <1>4, <2>2, NothingFilled
<1>9. FillsIn(broker', o) = FillsIn(broker, o) \cup {order.filled}
    BY <1>2, <1>3, <1>4, <1>6, FillsOfOneMore
<1>10. order.filled \in 0..Quantity
    BY <1>3 DEF Order
<1>11. ASSUME NEW m \in FillsIn(broker, o) PROVE m <= order.filled
    <2>1. CASE m = 0
        BY <1>10, <2>1, LimitsAssumption
    <2>2. ASSUME NEW r \in 1..Len(broker), o \in DOMAIN broker[r].orders,
                 m = broker[r].orders[o].filled
          PROVE  m <= order.filled
        <3>1. r \in 1..Len(broker') /\ r <= Len(broker') /\ broker'[r] = broker[r]
            BY <1>2, <1>4, <1>5, <2>2 DEF Grows, IsHistory
        <3> QED BY <1>2, <1>4, <1>5, <1>6, <2>2, <3>1, OrdersMoveOn
    <2> QED BY <1>2, <2>1, <2>2, FillsOfOrder
<1>12. SettledIn(broker') = IF Terminal(order) THEN SettledIn(broker) \cup {o} ELSE SettledIn(broker)
    BY <1>2, <1>3, <1>4, <1>6, <1>7 DEF SettledIn
<1> QED BY <1>7, <1>8, <1>9, <1>10, <1>11, <1>12

\* Another Sleeve's move leaves the orders as they are.
LEMMA OtherSleeveIsStutter ==
    ASSUME TypeOK, FillInvariant, OtherSleeveMoves
    PROVE  /\ \A o \in Places : FillsIn(broker', o) = FillsIn(broker, o)
           /\ SettledIn(broker') = SettledIn(broker)
<1>1. /\ IsHistory(broker) /\ HistoryOK(broker) /\ Newest = broker[Len(broker)]
      /\ IsHistory(broker') /\ HistoryOK(broker') /\ Grows(broker, broker')
    BY Revisions, OtherSleeveKeepsHistory
<1>2. Len(broker') = Len(broker) + 1 /\ broker'[Len(broker')] = Newest
    BY NewestIsTyped, OneMoreRevision DEF OtherSleeveMoves, Revision
<1>3. Len(broker) \in 1..Len(broker)
    BY <1>1 DEF IsHistory
<1>4. \A o \in Places : FillsIn(broker', o) = FillsIn(broker, o)
    <2> TAKE o \in Places
    <2>1. o \in DOMAIN Newest.orders => Newest.orders[o].filled \in FillsIn(broker, o)
        BY <1>1, <1>3, FillsOfOrder
    <2> QED BY <1>1, <1>2, <2>1, NothingFilled
<1> QED BY <1>1, <1>2, <1>4 DEF SettledIn

\* Commands the Broker admits or refuses are new orders without a fill, or no orders.
LEMMA AdmissionFillsNothing ==
    ASSUME TypeOK, FillInvariant, NEW view, NEW adopted, NEW issued \in Issues(view, adopted),
           NEW refused \in SUBSET DOMAIN issued, broker' = Append(broker, Admitted(issued, refused))
    PROVE  /\ \A o \in Places : FillsIn(broker', o) = FillsIn(broker, o)
           /\ SettledIn(broker) \subseteq SettledIn(broker')
           /\ \A o \in SettledIn(broker') \ SettledIn(broker) :
                 o \notin Used(broker) /\ FillsIn(broker, o) = {0}
<1> DEFINE snapshot == Admitted(issued, refused)
           placed == (DOMAIN issued \cap Places) \ refused
<1>1. /\ IsHistory(broker) /\ HistoryOK(broker) /\ Newest = broker[Len(broker)]
      /\ IsHistory(broker') /\ HistoryOK(broker') /\ Grows(broker, broker')
    BY Revisions, AdmissionKeepsHistory
<1>2. Len(broker') = Len(broker) + 1 /\ broker'[Len(broker')] = snapshot
    BY AdmittedIsTyped, OneMoreRevision DEF Revision
<1>3. /\ DOMAIN snapshot.orders = DOMAIN Newest.orders \cup placed
      /\ DOMAIN snapshot.receipts = DOMAIN Newest.receipts \cup (DOMAIN issued \ placed)
      /\ \A o \in placed : snapshot.orders[o].filled = 0
      /\ \A o \in DOMAIN Newest.orders : o \notin placed => snapshot.orders[o] = Newest.orders[o]
    BY DEF Admitted
<1>4. \A c \in DOMAIN issued : c \notin DOMAIN Newest.orders \cup DOMAIN Newest.receipts
    BY IssuesAreNew DEF Unused
<1>5. Len(broker) \in 1..Len(broker)
    BY <1>1 DEF IsHistory
<1> HIDE DEF snapshot
<1>6. ASSUME NEW o \in Places PROVE FillsIn(broker', o) = FillsIn(broker, o)
    <2>1. o \in DOMAIN snapshot.orders => snapshot.orders[o].filled \in FillsIn(broker, o)
        BY <1>1, <1>3, <1>5, FillsOfOrder
    <2> QED BY <1>1, <1>2, <2>1, NothingFilled
<1>7. SettledIn(broker) \subseteq SettledIn(broker')
    BY <1>1, <1>2, <1>3, <1>4 DEF SettledIn
<1>8. ASSUME NEW o \in SettledIn(broker') \ SettledIn(broker)
      PROVE  o \notin Used(broker) /\ FillsIn(broker, o) = {0}
    <2>1. o \in DOMAIN issued
        BY <1>1, <1>2, <1>3, <1>8 DEF SettledIn
    <2>2. o \notin Used(broker)
        BY <1>1, <1>4, <2>1 DEF Used
    <2>3. \A r \in 1..Len(broker) : o \notin DOMAIN broker[r].orders
        BY <1>1, <2>2, NewestHasAll DEF Used
    <2> QED BY <1>1, <2>2, <2>3, FillsOfOrder
<1> QED BY <1>6, <1>7, <1>8

-----------------------------------------------------------------------------
(* A decision.                                                             *)

\* The books only grow, and what closes was tracked.
LEMMA BooksGrow ==
    ASSUME TypeOK, NEW view, NEW failed, NEW adopted, NEW issued, NEW evicted,
           Chosen(view, failed, adopted, issued), NEW b,
           b = BookAfter(view, failed, adopted, evicted)
    PROVE  /\ \A o \in Places : Told(b, o) >= Told(book, o)
           /\ book.closed \subseteq b.closed
           /\ b.closed \ book.closed \subseteq Tracked(section)
<1>1. book.closed \subseteq b.closed /\ b.closed \ book.closed \subseteq Tracked(section)
    BY DEF BookAfter, Updated
<1>2. ASSUME NEW o \in Places PROVE Told(b, o) >= Told(book, o)
    <2> DEFINE Fill == NewlyFilled(o, section.entries[o], view)
    <2>1. /\ Told(book, o) \in Nat
          /\ o \in Tracked(section) =>
                Told(b, o) = IF o \in RetriedIn(section, failed)
                             THEN Told(book, o) ELSE Told(book, o) + Fill
          /\ o \in adopted => Told(b, o) = IF view.orders[o].filled > Told(book, o)
                                           THEN view.orders[o].filled ELSE Told(book, o)
          /\ o \notin Tracked(section) \cup adopted => Told(b, o) = Told(book, o)
        BY ToldAfter
    <2>2. /\ IsView(view)
          /\ o \in adopted => Shows(o, view)
          /\ o \in Tracked(section) => section.entries[o] \in Entry
        BY ChosenFacts
    <2>3. Shows(o, view) => view.orders[o].filled \in Nat
        BY <2>2, LimitsAssumption DEF Shows, IsView, IsPartial, Order
    <2>4. o \in Tracked(section) => section.entries[o].filled \in Nat
        BY <2>2, LimitsAssumption DEF Entry
    <2>5. o \in Tracked(section) => Fill \in Nat
        BY <2>3, <2>4 DEF NewlyFilled, Current
    <2>6. o \in adopted => view.orders[o].filled \in Nat
        BY <2>2, <2>3
    <2> HIDE DEF Fill
    <2> QED BY <2>1, <2>5, <2>6
<1> QED BY <1>1, <1>2

\* A decision tells fills the Broker has reached, closes what is told in full and saves all
\* or nothing.
LEMMA DecisionIsReport ==
    ASSUME TypeOK, FillInvariant, TypeOK', FillInvariant', Decision
    PROVE  /\ \A o \in Places : FillsIn(broker', o) = FillsIn(broker, o)
           /\ SettledIn(broker) \subseteq SettledIn(broker')
           /\ \A o \in SettledIn(broker') \ SettledIn(broker) : FillsIn(broker, o) = {0}
           /\ \A o \in Places :
                 /\ Told(book', o) \in FillsIn(broker, o)
                 /\ Told(book', o) >= Told(book, o)
                 /\ o \in book.closed => Told(book', o) = Told(book, o)
           /\ book.closed \subseteq book'.closed
           /\ \A o \in (book'.closed \ book.closed) \cap Places :
                 o \in SettledIn(broker) /\ \A n \in FillsIn(broker, o) : n <= Told(book', o)
           /\ saved' = saved \/ saved' = [section |-> section', book |-> book']
<1>1. /\ IsHistory(broker) /\ HistoryOK(broker)
      /\ IsSection(section) /\ SoundOver(broker, section, book)
    BY Revisions DEF FillInvariant, TypeOK
<1>2. PICK view, failed, adopted, issued, evicted, durable :
             /\ Chosen(view, failed, adopted, issued)
             /\ section' = SectionAfter(view, failed, adopted, issued, evicted)
             /\ book' = BookAfter(view, failed, adopted, evicted)
             /\ IF durable
                THEN /\ saved' = [section |-> section', book |-> book']
                     /\ acked' = acked \cup Acknowledged(view, section'.entries)
                ELSE UNCHANGED <<saved, acked>>
             /\ IsHistory(broker') /\ HistoryOK(broker') /\ Grows(broker, broker')
             /\ \/ broker' = broker
                \/ \E refused \in SUBSET DOMAIN issued :
                      broker' = Append(broker, Admitted(issued, refused))
    BY <1>1, DecisionCases
<1>3. IsSection(section') /\ SoundOver(broker', section', book')
    BY DEF TypeOK, FillInvariant
<1>4. /\ \A o \in Places : FillsIn(broker', o) = FillsIn(broker, o)
      /\ SettledIn(broker) \subseteq SettledIn(broker')
      /\ \A o \in SettledIn(broker') \ SettledIn(broker) :
            o \notin Used(broker) /\ FillsIn(broker, o) = {0}
    <2>1. CASE broker' = broker
        BY <2>1
    <2>2. CASE \E refused \in SUBSET DOMAIN issued :
                  broker' = Append(broker, Admitted(issued, refused))
        BY <1>2, <2>2, AdmissionFillsNothing DEF Chosen
    <2> QED BY <1>2, <2>1, <2>2
<1>5. /\ \A o \in Places : Told(book', o) >= Told(book, o)
      /\ book.closed \subseteq book'.closed
      /\ book'.closed \ book.closed \subseteq Tracked(section)
    BY <1>2, BooksGrow
<1>6. ASSUME NEW o \in Places PROVE Told(book', o) \in FillsIn(broker, o) /\ Told(book', o) \in Nat
    <2>1. Told(book', o) \in FillsIn(broker', o)
        BY <1>2, <1>3, ToldIsFill
    <2>2. Told(book', o) \in 0..Quantity
        BY <1>2, <2>1, FillsOfOrder
    <2> QED BY <1>4, <2>1, <2>2, LimitsAssumption
<1>7. ASSUME NEW o \in book.closed \cap Places PROVE Told(book', o) = Told(book, o)
    <2>1. Told(book', o) <= Told(book, o)
        BY <1>1, <1>6, ClosedIsLastFill
    <2>2. Told(book, o) \in FillsIn(broker, o) /\ Told(book, o) \in 0..Quantity
        BY <1>1, ToldIsFill, FillsOfOrder
    <2> QED BY <1>5, <1>6, <2>1, <2>2, LimitsAssumption
<1>8. ASSUME NEW o \in (book'.closed \ book.closed) \cap Places
      PROVE  o \in SettledIn(broker) /\ \A n \in FillsIn(broker, o) : n <= Told(book', o)
    <2>1. o \in SettledIn(broker') /\ \A n \in FillsIn(broker', o) : n <= Told(book', o)
        BY <1>2, <1>3, ClosedIsLastFill
    <2>2. o \in Used(broker)
        BY <1>1, <1>5 DEF SoundOver
    <2> QED BY <1>4, <2>1, <2>2
<1>9. saved' = saved \/ saved' = [section |-> section', book |-> book']
    BY <1>2
<1> QED BY <1>4, <1>5, <1>6, <1>7, <1>8, <1>9

-----------------------------------------------------------------------------
(* Initial states map to initial states, every step to a step or a stutter. *)

\* The runner's initial states are initial states of fill reporting.
LEMMA InitIsInit == TypeOK /\ FillInvariant /\ Init => Reporting!Init
<1> SUFFICES ASSUME TypeOK, FillInvariant, Init PROVE Reporting!Init
    OBVIOUS
<1>1. book = NothingTold /\ saved = [section |-> EmptySection, book |-> NothingTold]
    BY DEF Init
<1>2. NothingTold.closed = {} /\ \A o \in Places : Told(NothingTold, o) = 0
    BY DEF NothingTold, Told
<1>3. \A o \in Places : Fills(o) \in SUBSET (0..Quantity) /\ 0 \in Fills(o)
    BY BrokerIsHistory, AbstractState, FillsOfOrder
<1>4. SettledOrders \subseteq Places
    BY DEF SettledOrders
<1> HIDE DEF Init
<1> QED BY <1>1, <1>2, <1>3, <1>4 DEF Reporting!Init, BookTold

\* Each step of the runner, as a step of FillReporting.
LEMMA NextIsNext ==
    TypeOK /\ FillInvariant /\ TypeOK' /\ FillInvariant' /\ [Next]_vars
        => [Reporting!Next]_(Reporting!vars)
<1> SUFFICES ASSUME TypeOK, FillInvariant, TypeOK', FillInvariant', [Next]_vars
             PROVE  [Reporting!Next]_(Reporting!vars)
    OBVIOUS
<1>1. ASSUME NEW o \in Places, OrderMoves(o) PROVE Reporting!Fill(o)
    <2>1. UNCHANGED <<section, book, saved>>
        BY <1>1 DEF OrderMoves
    <2>2. PICK n \in 0..Quantity : /\ \A m \in FillsIn(broker, o) : m <= n
                                   /\ FillsIn(broker', o) = FillsIn(broker, o) \cup {n}
        BY <1>1, OrderMovesIsFill
    <2>3. /\ o \notin SettledOrders
          /\ SettledOrders' \in {SettledOrders, SettledOrders \cup {o}}
          /\ \A p \in Places : Fills(p)' = IF p = o THEN Fills(p) \cup {n} ELSE Fills(p)
        BY <1>1, <2>2, OrderMovesIsFill, AbstractState
    <2>4. [p \in Places |-> Fills(p)]' = [[p \in Places |-> Fills(p)] EXCEPT ![o] = @ \cup {n}]
        BY <2>3
    <2>5. \A m \in [p \in Places |-> Fills(p)][o] : m <= n
        BY <2>2, AbstractState
    <2> QED BY <2>1, <2>3, <2>4, <2>5 DEF Reporting!Fill, BookTold
<1>2. CASE OtherSleeveMoves
    <2>1. UNCHANGED <<section, book, saved>>
        BY <1>2 DEF OtherSleeveMoves
    <2>2. SettledOrders' = SettledOrders /\ \A p \in Places : Fills(p)' = Fills(p)
        BY <1>2, OtherSleeveIsStutter, AbstractState
    <2> QED BY <2>1, <2>2 DEF Reporting!vars, BookTold
<1>3. CASE Decision
    <2>1. /\ \A o \in Places : Fills(o)' = Fills(o)
          /\ SettledOrders \subseteq SettledOrders'
          /\ \A o \in SettledOrders' \ SettledOrders : o \in Places /\ Fills(o) = {0}
          /\ \A o \in Places : /\ Told(book', o) \in Fills(o)
                               /\ Told(book', o) >= Told(book, o)
                               /\ o \in book.closed => Told(book', o) = Told(book, o)
          /\ book.closed \subseteq book'.closed
          /\ \A o \in (book'.closed \ book.closed) \cap Places :
                o \in SettledOrders /\ \A n \in Fills(o) : n <= Told(book', o)
          /\ saved' = saved \/ saved' = [section |-> section', book |-> book']
        BY <1>3, DecisionIsReport, AbstractState DEF SettledOrders
    <2> DEFINE had == [o \in Places |-> Fills(o)]
               told == BookTold(book)
               closed == book.closed \cap Places
               kept == [told |-> BookTold(saved.book), closed |-> saved.book.closed \cap Places]
    <2>2. /\ \A o \in Places : had[o] = Fills(o) /\ had'[o] = Fills(o)'
          /\ \A o \in Places : told[o] = Told(book, o) /\ told'[o] = Told(book', o)
          /\ closed' = book'.closed \cap Places
        BY DEF BookTold
    <2>3. UNCHANGED had
        BY <2>1
    <2>4. kept' \in {kept, [told |-> told', closed |-> closed']}
        <3>1. CASE saved' = saved
            BY <3>1 DEF BookTold
        <3>2. CASE saved' = [section |-> section', book |-> book']
            <4>1. saved'.book = book'
                BY <3>2
            <4> QED BY <4>1 DEF BookTold
        <3> QED BY <2>1, <3>1, <3>2
    <2> HIDE DEF had, told, kept
    <2>5. /\ \A o \in SettledOrders' \ SettledOrders : had[o] = {0}
          /\ \A o \in Places : /\ told'[o] \in had[o] /\ told'[o] >= told[o]
                               /\ o \in closed => told'[o] = told[o]
        BY <2>1, <2>2
    <2>6. closed \subseteq closed'
        BY <2>1
    <2>7. \A o \in closed' \ closed : o \in SettledOrders /\ Reporting!IsLastFill(o, told'[o])
        BY <2>1, <2>2, <2>5 DEF Reporting!IsLastFill, had
    <2>8. SettledOrders \subseteq SettledOrders'
        BY <2>1
    <2>9. Reporting!Report
        BY <2>3, <2>4, <2>5, <2>6, <2>7, <2>8 DEF Reporting!Report, had, told, kept
    <2> QED BY <2>9 DEF Reporting!Next
<1>4. CASE Crash
    <2>1. book' = saved.book /\ UNCHANGED <<broker, saved>>
        BY <1>4 DEF Crash
    <2>2. SettledOrders' = SettledOrders /\ \A p \in Places : Fills(p)' = Fills(p)
        BY <2>1, AbstractState
    <2>3. Reporting!Recover
        BY <2>1, <2>2 DEF Reporting!Recover, BookTold
    <2> QED BY <2>3 DEF Reporting!Next
<1>5. CASE UNCHANGED vars
    <2>1. UNCHANGED <<broker, book, saved>>
        BY <1>5 DEF vars
    <2>2. SettledOrders' = SettledOrders /\ \A p \in Places : Fills(p)' = Fills(p)
        BY <2>1, AbstractState
    <2> QED BY <2>1, <2>2 DEF Reporting!vars, BookTold
<1> QED BY <1>1, <1>2, <1>3, <1>4, <1>5 DEF Next, Reporting!Next

\* Over all views, failures, evictions, adoptions and crashes, the kernel's books of each
\* order follow the fills it has had, in order and up to the last one where it closes, and go
\* back only to the last durable write: the runner implements FillReporting.
THEOREM RunnerFollowsFills == Spec => ReportsFollowFills
<1> QED BY FillInvariantHolds, InitIsInit, NextIsNext, PTL DEF Spec, ReportsFollowFills, Reporting!Spec
=============================================================================
