------------------------ MODULE RunnerSectionProofs ------------------------
(***************************************************************************)
(* Proofs about RunnerSection for every value of the constants.            *)
(***************************************************************************)
EXTENDS RunnerSection, FiniteSetTheorems, TLAPS

-----------------------------------------------------------------------------
(* The comparison of one entry with one view.                              *)

IsView(view) ==
    /\ view.revision \in Nat
    /\ view.complete \in BOOLEAN
    /\ IsPartial(view.orders, Places, Order)
    /\ IsPartial(view.receipts, Commands, Outcome)

\* A status shown for an order that is not terminal does not end it.
LEMMA OpenOrdersLookOpen ==
    ASSUME NEW order \in Order, NEW last \in OpenSeen \cup {"None"}, ~Terminal(order)
    PROVE  SeenStatus(order, last) \in OpenSeen
BY DEF Order, OrderStatus, Terminal, TerminalOrder, OpenSeen, SeenStatus

\* Adopting an open order yields an entry.
LEMMA AdoptedIsEntry ==
    ASSUME NEW o \in Places, NEW order \in Order, ~Terminal(order), NEW r \in Nat
    PROVE  AdoptedEntry(o, order, r) \in Entry
<1>1. SeenStatus(order, "None") \in OpenSeen
    BY OpenOrdersLookOpen
<1>2. order.filled \in 0..Quantity /\ order.revision \in Nat
    BY DEF Order
<1> QED BY <1>1, <1>2 DEF AdoptedEntry, IssuedEntry, Entry

\* An entry a view does not show stays an entry.
LEMMA AbsentIsEntry ==
    ASSUME NEW e \in Entry, NEW view, IsView(view)
    PROVE  Absent(e, view) \in Entry
<1> USE DEF Entry
<1>1. [e EXCEPT !.vanished = TRUE, !.vanishedAt = view.revision, !.absent = 0] \in Entry
    BY DEF IsView
<1>2. [e EXCEPT !.absent = @ + 1] \in Entry
    OBVIOUS
<1> HIDE DEF Entry
<1> QED BY <1>1, <1>2 DEF Absent

\* Reporting an open order's record leaves an entry.
LEMMA ReportedIsEntry ==
    ASSUME NEW e \in Entry, NEW order \in Order, ~Terminal(order)
    PROVE  Reported(e, order) \in Entry
<1>1. SeenStatus(order, e.last) \in OpenSeen
    BY OpenOrdersLookOpen DEF Entry
<1>2. order.filled \in 0..Quantity /\ order.revision \in Nat
    BY DEF Order
<1> QED BY <1>1, <1>2 DEF Reported, Entry

\* An entry that stays is an entry again.
LEMMA AfterIsEntry ==
    ASSUME NEW c \in Commands, NEW e \in Entry, NEW view, IsView(view), Stays(c, e, view)
    PROVE  After(c, e, view) \in Entry
<1>1. CASE c \in Places /\ Current(c, e, view)
    <2>1. ~Terminal(view.orders[c])
        BY <1>1 DEF Stays, PlaceStays, Current
    <2>2. view.orders[c] \in Order
        BY <1>1 DEF Current, Shows, IsView, IsPartial
    <2> QED BY <1>1, <2>1, <2>2, ReportedIsEntry DEF After, PlaceAfter
<1>2. CASE ~(c \in Places /\ Current(c, e, view))
    BY <1>2, AbsentIsEntry DEF After, PlaceAfter
<1> QED BY <1>1, <1>2

\* Counters of a retried update.
LEMMA ReinstatedIsEntry ==
    ASSUME NEW e \in Entry, NEW failure \in Failure
    PROVE  Reinstated(e, failure) \in Entry
<1>1. Attempts(e, failure) \in Nat
    BY DEF Attempts, Entry
<1>2. Deferrals(e, failure) \in Nat
    BY DEF Deferrals, Failure, Entry
<1> QED BY <1>1, <1>2 DEF Reinstated, Entry

\* An entry whose update was handled, or had none, is an entry again.
LEMMA SettledIsEntry ==
    ASSUME NEW c \in Commands, NEW e \in Entry, NEW view, IsView(view), Stays(c, e, view)
    PROVE  Settled(c, e, view) \in Entry
<1> DEFINE next == After(c, e, view)
<1>1. next \in Entry
    BY AfterIsEntry
<1>2. [next EXCEPT !.failures = 0, !.deferrals = 0] \in Entry
    <2> HIDE DEF next
    <2> QED BY <1>1 DEF Entry
<1> QED BY <1>1, <1>2 DEF Settled

-----------------------------------------------------------------------------
(* One decision keeps the section typed.                                   *)

\* Every view is typed.
LEMMA ViewsAreTyped ==
    ASSUME TypeOK, NEW view \in Views
    PROVE  /\ IsView(view)
           /\ view.revision \in 1..Revision
           /\ \A o \in DOMAIN view.orders :
                 /\ o \in DOMAIN broker[view.revision].orders
                 /\ view.orders[o] = broker[view.revision].orders[o]
           /\ \A c \in DOMAIN view.receipts :
                 /\ c \in DOMAIN broker[view.revision].receipts
                 /\ view.receipts[c] = broker[view.revision].receipts[c]
<1>1. PICK r \in 1..Revision, complete \in BOOLEAN, hidden \in SUBSET Commands :
            view = View(r, complete, hidden)
    BY DEF Views
<1>2. IsSnapshot(broker[r])
    BY DEF TypeOK
<1>3. r \in Nat
    OBVIOUS
<1>4. IsPartial(view.orders, Places, Order) /\ IsPartial(view.receipts, Commands, Outcome)
    BY <1>1, <1>2 DEF View, IsSnapshot, IsPartial
<1> QED BY <1>1, <1>3, <1>4 DEF View, IsView

\* What a decision chooses: failures of its own updates, untracked open orders to
\* adopt, new entries of unused commands.
LEMMA FailuresAreOfUpdates ==
    ASSUME NEW view, NEW failed \in DeliveryOutcomes(section, view)
    PROVE  /\ DOMAIN failed \subseteq Updated(section, view)
           /\ \A c \in DOMAIN failed : failed[c] \in Failure
BY DEF DeliveryOutcomes, OutcomesOf

\* Only orders the view shows, and the section does not know, are adopted.
LEMMA AdoptionsAreAdoptable ==
    ASSUME NEW view, NEW adopted \in Adoptions(section, view)
    PROVE  adopted \subseteq Adoptable(section, view)
BY DEF Adoptions

\* A decision issues commands under identities nobody has used, as the host enters them.
LEMMA IssuesAreNew ==
    ASSUME NEW view, NEW adopted, NEW issued \in Issues(view, adopted)
    PROVE  /\ DOMAIN issued \subseteq Commands
           /\ \A c \in DOMAIN issued :
                 /\ Unused(c)
                 /\ \E target \in Places \cup {NoTarget} :
                        issued[c] = IssuedEntry(target, view.revision)
<1>1. PICK I \in IssueSets(view, adopted) :
            issued \in {[c \in I |-> IssuedEntry(target[c], view.revision)] :
                            target \in {t \in [I -> Places \cup {NoTarget}] :
                                            \A c \in I : t[c] \in MayTarget(view, I, c)}}
    BY DEF Issues
<1>2. PICK target \in [I -> Places \cup {NoTarget}] :
            issued = [c \in I |-> IssuedEntry(target[c], view.revision)]
    BY <1>1
<1>3. I \subseteq Commands /\ \A c \in I : Unused(c)
    BY DEF IssueSets
<1> QED BY <1>2, <1>3

\* The entries a decision writes are entries of commands.
LEMMA FinalEntriesAreTyped ==
    ASSUME TypeOK, NEW view \in Views,
           NEW failed \in DeliveryOutcomes(section, view),
           NEW adopted \in Adoptions(section, view),
           NEW issued \in Issues(view, adopted)
    PROVE  IsPartial(FinalEntries(section, view, failed, adopted, issued), Commands, Entry)
<1> DEFINE entries == FinalEntries(section, view, failed, adopted, issued)
           D == RetriedIn(section, failed) \cup Kept(section, view) \cup adopted \cup DOMAIN issued
<1>1. IsView(view)
    BY ViewsAreTyped
<1>2. \A c \in Tracked(section) : c \in Commands /\ section.entries[c] \in Entry
    BY DEF TypeOK, IsSection, IsPartial, Tracked
<1>3. /\ RetriedIn(section, failed) \subseteq Tracked(section)
      /\ \A c \in RetriedIn(section, failed) : failed[c] \in Failure
    BY FailuresAreOfUpdates DEF RetriedIn, Updated
<1>4. Kept(section, view) \subseteq Tracked(section)
    BY DEF Kept
<1>5. \A o \in adopted : o \in Places /\ view.orders[o] \in Order /\ ~Terminal(view.orders[o])
    BY <1>1, AdoptionsAreAdoptable DEF Adoptable, IsView, IsPartial
<1>6. D \subseteq Commands
    BY <1>2, <1>3, <1>4, <1>5, IssuesAreNew DEF Commands
<1>7. ASSUME NEW c \in D PROVE entries[c] \in Entry
    <2>0. view.revision \in Nat
        BY <1>1 DEF IsView
    <2>1. CASE c \in DOMAIN issued
        <3>1. PICK target \in Places \cup {NoTarget} :
                    issued[c] = IssuedEntry(target, view.revision)
            BY <2>1, IssuesAreNew
        <3>2. IssuedEntry(target, view.revision) \in Entry
            BY <2>0, LimitsAssumption DEF IssuedEntry, Entry
        <3> QED BY <2>1, <3>1, <3>2 DEF FinalEntries
    <2>2. CASE c \notin DOMAIN issued /\ c \in adopted
        BY <2>0, <2>2, <1>5, AdoptedIsEntry DEF FinalEntries
    <2>3. CASE c \notin DOMAIN issued /\ c \notin adopted /\ c \in RetriedIn(section, failed)
        BY <2>3, <1>2, <1>3, ReinstatedIsEntry DEF FinalEntries
    <2>4. CASE c \notin DOMAIN issued /\ c \notin adopted /\ c \notin RetriedIn(section, failed)
        <3>1. c \in Kept(section, view)
            BY <2>4
        <3>2. Stays(c, section.entries[c], view) /\ c \in Commands /\ section.entries[c] \in Entry
            BY <3>1, <1>2 DEF Kept
        <3>3. entries[c] = Settled(c, section.entries[c], view)
            BY <2>4 DEF FinalEntries
        <3> QED BY <3>2, <3>3, <1>1, SettledIsEntry
    <2> QED BY <2>1, <2>2, <2>3, <2>4
<1>8. entries = [c \in D |-> entries[c]]
    BY DEF FinalEntries
<1> HIDE DEF entries, D
<1>9. DOMAIN entries = D /\ entries \in [D -> Entry]
    BY <1>7, <1>8
<1> QED BY <1>6, <1>9 DEF IsPartial, entries

\* The section a decision writes is a section.
LEMMA SectionAfterIsTyped ==
    ASSUME TypeOK, NEW view \in Views,
           NEW failed \in DeliveryOutcomes(section, view),
           NEW adopted \in Adoptions(section, view),
           NEW issued \in Issues(view, adopted), NEW evicted
    PROVE  IsSection(SectionAfter(view, failed, adopted, issued, evicted))
<1> DEFINE entries == FinalEntries(section, view, failed, adopted, issued)
           kept == [c \in DOMAIN entries \ evicted |-> entries[c]]
<1>1. IsPartial(entries, Commands, Entry)
    BY FinalEntriesAreTyped
<1>2. view.revision \in Nat /\ section.newest \in Nat
    BY ViewsAreTyped DEF IsView, TypeOK, IsSection
<1>3. IsPartial(kept, Commands, Entry)
    <2> HIDE DEF entries
    <2> QED BY <1>1 DEF IsPartial
<1> HIDE DEF entries
<1>4. SectionAfter(view, failed, adopted, issued, evicted) =
        [seeded |-> TRUE,
         newest |-> IF view.revision > section.newest THEN view.revision ELSE section.newest,
         entries |-> kept]
    BY DEF SectionAfter, entries
<1> HIDE DEF kept
<1> QED BY <1>2, <1>3, <1>4 DEF IsSection

\* The books a decision writes are books.
LEMMA BookAfterIsTyped ==
    ASSUME TypeOK, NEW view \in Views,
           NEW failed \in DeliveryOutcomes(section, view),
           NEW adopted \in Adoptions(section, view),
           NEW evicted \in SUBSET Commands
    PROVE  BookAfter(view, failed, adopted, evicted) \in Books
<1> DEFINE updated == Updated(section, view)
           abandoned == AbandonedIn(section, failed)
           Fill(o) == NewlyFilled(o, section.entries[o], view)
           Before(o) == IF view.orders[o].filled > Told(book, o)
                        THEN view.orders[o].filled - Told(book, o) ELSE 0
           closed == book.closed \cup
                            {c \in updated \ RetriedIn(section, failed) :
                                ReportsFinal(c, section.entries[c], view)}
           dropped == (book.dropped \cup Expired(section, view) \cup evicted) \ adopted
           counted == [o \in Places |-> book.counted[o] +
                            IF o \in updated \ DOMAIN failed THEN Fill(o) ELSE 0]
           lost == [o \in Places |-> book.lost[o] +
                            IF o \in abandoned THEN Fill(o) ELSE 0]
           unreported == [o \in Places |-> book.unreported[o] +
                            IF o \in adopted THEN Before(o) ELSE 0]
<1>1. book \in Books /\ IsView(view)
    BY ViewsAreTyped DEF TypeOK
<1>2. updated \subseteq Tracked(section) /\ abandoned \subseteq Tracked(section)
    BY FailuresAreOfUpdates DEF Updated, AbandonedIn
<1>3. \A c \in Tracked(section) : c \in Commands /\ section.entries[c] \in Entry
    BY DEF TypeOK, IsSection, IsPartial, Tracked
<1>4. ASSUME NEW o \in Tracked(section) PROVE Fill(o) \in Nat
    <2>1. Current(o, section.entries[o], view) => view.orders[o].filled \in Nat
        BY <1>1 DEF Current, Shows, IsView, IsPartial, Order
    <2>2. section.entries[o].filled \in Nat
        BY <1>3 DEF Entry
    <2> QED BY <2>1, <2>2 DEF NewlyFilled
<1>5. ASSUME NEW o \in adopted PROVE o \in Places /\ Before(o) \in Nat
    <2>1. o \in Places /\ view.orders[o].filled \in Nat
        BY <1>1, AdoptionsAreAdoptable DEF Adoptable, IsView, IsPartial, Order
    <2>2. Told(book, o) \in Nat
        BY <1>1, <2>1 DEF Told, Books
    <2> QED BY <2>1, <2>2
<1>6. counted \in [Places -> Nat]
    BY <1>1, <1>2, <1>4 DEF Books
<1>7. lost \in [Places -> Nat]
    BY <1>1, <1>2, <1>4 DEF Books
<1>8. unreported \in [Places -> Nat]
    BY <1>1, <1>5 DEF Books
<1>9. closed \in SUBSET Commands /\ dropped \in SUBSET Commands
    BY <1>1, <1>2, <1>3 DEF Books, Expired
<1>10. BookAfter(view, failed, adopted, evicted) =
        [counted |-> counted, lost |-> lost, unreported |-> unreported,
         closed |-> closed, dropped |-> dropped]
    BY DEF BookAfter
<1> HIDE DEF counted, lost, unreported, closed, dropped
<1> QED BY <1>6, <1>7, <1>8, <1>9, <1>10 DEF Books

-----------------------------------------------------------------------------
(* The Broker's history.                                                   *)

\* The history's part of the type invariant.
BrokerOK ==
    /\ broker \in Seq({broker[r] : r \in 1..Revision})
    /\ Revision > 0 /\ \A r \in 1..Revision : IsSnapshot(broker[r])

\* One more snapshot, as a sequence.
LEMMA OneMoreRevision ==
    ASSUME TypeOK, NEW snapshot, IsSnapshot(snapshot), broker' = Append(broker, snapshot)
    PROVE  /\ Revision' = Revision + 1
           /\ Revision \in Nat /\ Revision > 0
           /\ \A r \in 1..Revision : broker'[r] = broker[r]
           /\ broker'[Revision + 1] = snapshot
           /\ broker' \in Seq({broker'[r] : r \in 1..Revision'})
           /\ \A r \in 1..Revision' : IsSnapshot(broker'[r])
           /\ BrokerOK'
<1> DEFINE S == {broker[r] : r \in 1..Revision} \cup {snapshot}
<1>1. broker \in Seq(S) /\ Revision \in Nat /\ Revision > 0
    BY DEF TypeOK, Revision
<1>2. broker' \in Seq(S) /\ Len(broker') = Len(broker) + 1
    BY <1>1 DEF Revision
<1>3. \A r \in 1..Revision : broker'[r] = broker[r]
    BY <1>1 DEF Revision
<1>4. broker'[Revision + 1] = snapshot
    BY <1>1 DEF Revision
<1>5. S = {broker'[r] : r \in 1..Revision'}
    BY <1>1, <1>2, <1>3, <1>4 DEF Revision
<1>6. \A r \in 1..Revision' : IsSnapshot(broker'[r])
    BY <1>1, <1>2, <1>3, <1>4 DEF Revision, TypeOK
<1>7. Revision' > 0
    BY <1>1, <1>2 DEF Revision
<1>8. broker' \in Seq({broker'[r] : r \in 1..Revision'})
    BY <1>2, <1>5
<1>9. BrokerOK'
    BY <1>6, <1>7, <1>8 DEF BrokerOK
<1> QED BY <1>1, <1>2, <1>3, <1>4, <1>6, <1>8, <1>9 DEF Revision

\* The newest snapshot is a snapshot.
LEMMA NewestIsTyped == ASSUME TypeOK PROVE IsSnapshot(Newest)
<1>1. Revision \in Nat /\ Revision > 0
    BY DEF TypeOK, Revision
<1>2. Revision \in 1..Revision
    BY <1>1
<1> QED BY <1>2 DEF TypeOK, Newest

\* An order that moves along leaves a snapshot, as does another Sleeve's move.
LEMMA MovedIsTyped ==
    ASSUME TypeOK, NEW o \in DOMAIN Newest.orders,
           NEW order \in Records(Newest.orders[o].filled, Newest.orders[o].revision + 1)
    PROVE  /\ order \in Order
           /\ [Newest EXCEPT !.orders[o] = order] =
                [orders |-> [Newest.orders EXCEPT ![o] = order], receipts |-> Newest.receipts]
           /\ IsSnapshot([Newest EXCEPT !.orders[o] = order])
<1>1. IsSnapshot(Newest)
    BY NewestIsTyped
<1>2. Newest.orders[o] \in Order
    BY <1>1 DEF IsSnapshot, IsPartial
<1>3. order \in Order
    <2>1. order \in [status : Statuses, filled : (Newest.orders[o].filled)..Quantity,
                     revision : {Newest.orders[o].revision + 1}]
        BY DEF Records
    <2>2. Newest.orders[o].filled \in 0..Quantity /\ Newest.orders[o].revision \in Nat \ {0}
        BY <1>2 DEF Order
    <2> QED BY <2>1, <2>2, HostAssumption, LimitsAssumption DEF Order
<1> DEFINE orders == Newest.orders
           receipts == Newest.receipts
<1>4. Newest = [orders |-> orders, receipts |-> receipts]
    BY <1>1 DEF IsSnapshot
<1>5. [Newest EXCEPT !.orders[o] = order] =
            [orders |-> [orders EXCEPT ![o] = order], receipts |-> receipts]
    <2> DEFINE moved == [orders EXCEPT ![o] = order]
    <2>1. [Newest EXCEPT !.orders[o] = order] = [Newest EXCEPT !.orders = moved]
        OBVIOUS
    <2> HIDE DEF orders, receipts, moved
    <2>2. [[orders |-> orders, receipts |-> receipts] EXCEPT !.orders = moved]
            = [orders |-> moved, receipts |-> receipts]
        OBVIOUS
    <2> QED BY <1>4, <2>1, <2>2 DEF moved
<1>6. IsPartial([orders EXCEPT ![o] = order], Places, Order)
    BY <1>1, <1>3 DEF IsSnapshot, IsPartial
<1> QED BY <1>1, <1>3, <1>5, <1>6 DEF IsSnapshot

\* A durable decision's commands are admitted or refused: the Broker's next snapshot.
LEMMA AdmittedIsTyped ==
    ASSUME TypeOK, NEW view, NEW adopted, NEW issued \in Issues(view, adopted),
           NEW refused \in SUBSET DOMAIN issued
    PROVE  IsSnapshot(Admitted(issued, refused))
<1> DEFINE placed == (DOMAIN issued \cap Places) \ refused
           First(o) == IF \E c \in (DOMAIN issued \cap Cancels) \ refused : issued[c].target = o
                       THEN "Cancelled" ELSE "DurablyAccepted"
           orders == [o \in DOMAIN Newest.orders \cup placed |->
                        IF o \in placed
                        THEN [status |-> First(o), filled |-> 0, revision |-> 1]
                        ELSE Newest.orders[o]]
           receipts == [c \in DOMAIN Newest.receipts \cup (DOMAIN issued \ placed) |->
                        IF c \notin DOMAIN issued THEN Newest.receipts[c]
                        ELSE IF c \in refused THEN "Refused" ELSE "Accepted"]
<1>1. IsSnapshot(Newest) /\ DOMAIN issued \subseteq Commands
    BY NewestIsTyped, IssuesAreNew
<1>2. \A o : [status |-> First(o), filled |-> 0, revision |-> 1] \in Order
    <2> TAKE o
    <2>1. First(o) \in OrderStatus
        BY DEF OrderStatus, TerminalOrder
    <2> HIDE DEF First
    <2> QED BY <2>1, LimitsAssumption DEF Order
<1>3. IsPartial(orders, Places, Order)
    <2> HIDE DEF First
    <2> QED BY <1>1, <1>2 DEF IsSnapshot, IsPartial
<1>4. IsPartial(receipts, Commands, Outcome)
    BY <1>1 DEF IsSnapshot, IsPartial, Outcome
<1>5. Admitted(issued, refused) = [orders |-> orders, receipts |-> receipts]
    BY DEF Admitted
<1> HIDE DEF orders, receipts
<1> QED BY <1>3, <1>4, <1>5 DEF IsSnapshot

-----------------------------------------------------------------------------
(* The type invariant.                                                     *)

\* The runner starts with its variables of their types.
LEMMA InitTypeOK == Init => TypeOK
<1> SUFFICES ASSUME Init PROVE TypeOK
    OBVIOUS
<1>1. PICK orders \in ExistingOrders :
            broker = << [orders |-> orders, receipts |-> [c \in {} |-> "Refused"]] >>
    BY DEF Init
<1>2. PICK had \in SUBSET Existing : orders \in [had -> Order]
    <2>1. Records(0, 1) \subseteq Order
        BY HostAssumption, LimitsAssumption DEF Records, Order
    <2>2. PICK had \in SUBSET Existing : orders \in [had -> Records(0, 1)]
        BY DEF ExistingOrders
    <2> QED BY <2>1, <2>2
<1>3. IsSnapshot([orders |-> orders, receipts |-> [c \in {} |-> "Refused"]])
    BY <1>2, HostAssumption DEF IsSnapshot, IsPartial
<1>4. Revision = 1 /\ broker \in Seq({broker[r] : r \in 1..Revision})
    BY <1>1 DEF Revision
<1>5. \A r \in 1..Revision : IsSnapshot(broker[r])
    BY <1>1, <1>3, <1>4
<1>6. IsSection(EmptySection)
    BY DEF IsSection, EmptySection, IsPartial
<1>7. NothingTold \in Books
    BY DEF NothingTold, Books
<1> QED BY <1>4, <1>5, <1>6, <1>7 DEF Init, TypeOK

\* What a decision does, in one place: the facts every proof about it uses.
LEMMA DecisionFacts ==
    ASSUME Decision
    PROVE  \E view, failed, adopted, issued, evicted, durable :
             /\ view \in Views
             /\ failed \in DeliveryOutcomes(section, view)
             /\ adopted \in Adoptions(section, view)
             /\ issued \in Issues(view, adopted)
             /\ evicted \in SUBSET DOMAIN FinalEntries(section, view, failed, adopted, issued)
             /\ evicted \in Evictions(FinalEntries(section, view, failed, adopted, issued),
                                      Pending(section, failed))
             /\ Decide(view, failed, adopted, issued, evicted, durable)
<1>1. PICK view \in Views, durable \in Durability : DecideOver(view, durable)
    BY DEF Decision
<1>2. PICK failed \in DeliveryOutcomes(section, view), adopted \in Adoptions(section, view) :
        \E issued \in Issues(view, adopted) :
            \E evicted \in Evictions(FinalEntries(section, view, failed, adopted, issued),
                                    Pending(section, failed)) :
                Decide(view, failed, adopted, issued, evicted, durable)
    BY <1>1 DEF DecideOver
<1>3. PICK issued \in Issues(view, adopted) :
            \E evicted \in Evictions(FinalEntries(section, view, failed, adopted, issued),
                                    Pending(section, failed)) :
                Decide(view, failed, adopted, issued, evicted, durable)
    BY <1>2
<1>4. PICK evicted \in Evictions(FinalEntries(section, view, failed, adopted, issued),
                                Pending(section, failed)) :
                Decide(view, failed, adopted, issued, evicted, durable)
    BY <1>3
<1>5. evicted \in SUBSET DOMAIN FinalEntries(section, view, failed, adopted, issued)
    BY DEF Evictions, Tombstones
<1> QED BY <1>2, <1>3, <1>4, <1>5

\* The type invariant is inductive on its own.
LEMMA NextTypeOK == TypeOK /\ [Next]_vars => TypeOK'
<1> SUFFICES ASSUME TypeOK, [Next]_vars PROVE TypeOK'
    OBVIOUS
<1>1. ASSUME NEW o \in Places, OrderMoves(o) PROVE TypeOK'
    <2>1. PICK order \in Records(Newest.orders[o].filled, Newest.orders[o].revision + 1) :
            broker' = Append(broker, [Newest EXCEPT !.orders[o] = order])
        BY <1>1 DEF OrderMoves
    <2>2. IsSnapshot([Newest EXCEPT !.orders[o] = order])
        BY <1>1, MovedIsTyped DEF OrderMoves
    <2>3. BrokerOK'
        BY <2>1, <2>2, OneMoreRevision
    <2> QED BY <1>1, <2>3 DEF OrderMoves, TypeOK, BrokerOK
<1>2. CASE OtherSleeveMoves
    <2>1. broker' = Append(broker, Newest)
        BY <1>2 DEF OtherSleeveMoves
    <2>2. BrokerOK'
        BY <2>1, NewestIsTyped, OneMoreRevision
    <2> QED BY <1>2, <2>2 DEF OtherSleeveMoves, TypeOK, BrokerOK
<1>3. CASE Decision
    <2>1. PICK view, failed, adopted, issued, evicted, durable :
             /\ view \in Views
             /\ failed \in DeliveryOutcomes(section, view)
             /\ adopted \in Adoptions(section, view)
             /\ issued \in Issues(view, adopted)
             /\ evicted \in SUBSET DOMAIN FinalEntries(section, view, failed, adopted, issued)
             /\ Decide(view, failed, adopted, issued, evicted, durable)
        BY <1>3, DecisionFacts
    <2>2. IsSection(section')
        BY <2>1, SectionAfterIsTyped DEF Decide
    <2>3. evicted \in SUBSET Commands
        BY <2>1, FinalEntriesAreTyped DEF IsPartial
    <2>4. book' \in Books
        BY <2>1, <2>3, BookAfterIsTyped DEF Decide
    <2>5. IsSection(saved'.section) /\ saved'.book \in Books
        BY <2>1, <2>2, <2>4 DEF Decide, TypeOK
    <2>6. acked' \in SUBSET Commands
        <3>1. IsView(view)
            BY <2>1, ViewsAreTyped
        <3>2. Acknowledged(view, section'.entries) \subseteq Commands
            BY <3>1 DEF Acknowledged, IsView, IsPartial, Commands
        <3> QED BY <2>1, <3>2 DEF Decide, TypeOK
    <2>7. CASE UNCHANGED broker
        BY <2>2, <2>4, <2>5, <2>6, <2>7 DEF TypeOK, Revision
    <2>8. CASE ~UNCHANGED broker
        <3>1. PICK refused \in SUBSET DOMAIN issued :
                broker' = Append(broker, Admitted(issued, refused))
            BY <2>1, <2>8 DEF Decide
        <3>2. IsSnapshot(Admitted(issued, refused))
            BY <2>1, AdmittedIsTyped
        <3>3. BrokerOK'
            BY <3>1, <3>2, OneMoreRevision
        <3> QED BY <2>2, <2>4, <2>5, <2>6, <3>3 DEF TypeOK, BrokerOK
    <2> QED BY <2>7, <2>8
<1>4. CASE Crash
    BY <1>4 DEF Crash, TypeOK, Revision
<1>5. CASE UNCHANGED vars
    BY <1>5 DEF vars, TypeOK, Revision
<1> QED BY <1>1, <1>2, <1>3, <1>4, <1>5 DEF Next

\* The state keeps its type: whatever views the runner is given and however the
\* kernel fails, the section, the books and the host's history stay well formed.
THEOREM TypeCorrect == Spec => []TypeOK
<1> QED BY InitTypeOK, NextTypeOK, PTL DEF Spec

-----------------------------------------------------------------------------
(* A section that is read is written readable.                             *)

\* Sets of commands are finite, and count as natural numbers.
LEMMA CommandsAreFinite ==
    ASSUME NEW S, S \subseteq Commands
    PROVE  IsFiniteSet(S) /\ Cardinality(S) \in Nat
BY CommandsAssumption, FS_Subset, FS_CardinalityType

\* Two sets of commands have, together, at most as many as both.
LEMMA CountOfUnion ==
    ASSUME NEW S, NEW T, S \subseteq Commands, T \subseteq Commands
    PROVE  Cardinality(S \cup T) <= Cardinality(S) + Cardinality(T)
<1>1. /\ IsFiniteSet(S) /\ IsFiniteSet(T)
      /\ Cardinality(S) \in Nat /\ Cardinality(T) \in Nat /\ Cardinality(S \cap T) \in Nat
    BY CommandsAreFinite
<1>2. Cardinality(S \cup T) = Cardinality(S) + Cardinality(T) - Cardinality(S \cap T)
    BY <1>1, FS_Union
<1> QED BY <1>1, <1>2

\* A part of a set of commands has at most as many.
LEMMA CountOfPart ==
    ASSUME NEW S, NEW T, S \subseteq T, T \subseteq Commands
    PROVE  Cardinality(S) <= Cardinality(T)
BY CommandsAreFinite, FS_Subset

\* An entry that stays can be read again, with its tombstone short of expiry.
LEMMA SettledIsValid ==
    ASSUME NEW c \in Commands, NEW e \in Entry, ValidEntry(c, e),
           NEW view, IsView(view), Stays(c, e, view)
    PROVE  ValidEntry(c, Settled(c, e, view))
<1> DEFINE next == After(c, e, view)
           reset == [next EXCEPT !.failures = 0, !.deferrals = 0]
<1>1. next \in Entry
    BY AfterIsEntry
<1>2. ValidEntry(c, next)
    <2>1. CASE c \in Places /\ Current(c, e, view)
        <3>1. next = Reported(e, view.orders[c])
            BY <2>1 DEF After, PlaceAfter
        <3> HIDE DEF next
        <3>2. /\ next.failures = e.failures /\ next.deferrals = e.deferrals
              /\ next.target = e.target
              /\ next.vanished = FALSE /\ next.vanishedAt = 0 /\ next.absent = 0
            BY <3>1 DEF Reported, Entry
        <3> QED BY <2>1, <3>2, CommandsAssumption, LimitsAssumption DEF ValidEntry, Commands
    <2>2. CASE c \in Places /\ ~Current(c, e, view) /\ Shows(c, view)
        BY <2>2 DEF After, PlaceAfter
    <2>3. CASE c \in Places => ~Current(c, e, view) /\ ~Shows(c, view)
        <3>1. next = Absent(e, view) /\ ~Expires(e, view)
            BY <2>3 DEF After, PlaceAfter, Stays, PlaceStays, CancelStays
        <3> HIDE DEF next
        <3>2. CASE next = e
            BY <3>2
        <3>3. CASE next = [e EXCEPT !.vanished = TRUE, !.vanishedAt = view.revision, !.absent = 0]
            <4>1. /\ next.failures = e.failures /\ next.deferrals = e.deferrals
                  /\ next.target = e.target /\ next.last = e.last
                  /\ next.vanished = TRUE /\ next.absent = 0
                BY <3>3 DEF Entry
            <4> QED BY <4>1, LimitsAssumption DEF ValidEntry
        <3>4. CASE /\ next = [e EXCEPT !.absent = @ + 1]
                   /\ AbsenceCounts(e, view) /\ e.vanished /\ view.revision > e.vanishedAt
            <4>1. /\ next.failures = e.failures /\ next.deferrals = e.deferrals
                  /\ next.target = e.target /\ next.last = e.last
                  /\ next.vanished = e.vanished /\ next.absent = e.absent + 1
                BY <3>4 DEF Entry
            <4>2. e.absent + 1 < TombstoneExpiryViews
                BY <3>1, <3>4, LimitsAssumption DEF Expires, Entry
            <4> QED BY <3>4, <4>1, <4>2 DEF ValidEntry
        <3> QED BY <3>1, <3>2, <3>3, <3>4 DEF Absent
    <2> QED BY <2>1, <2>2, <2>3 DEF Current
<1> HIDE DEF next
<1>3. /\ reset.failures = 0 /\ reset.deferrals = 0
      /\ reset.target = next.target /\ reset.last = next.last
      /\ reset.vanished = next.vanished /\ reset.vanishedAt = next.vanishedAt
      /\ reset.absent = next.absent
    BY <1>1 DEF Entry
<1> HIDE DEF reset
<1>4. ValidEntry(c, reset)
    BY <1>2, <1>3, LimitsAssumption DEF ValidEntry
<1> QED BY <1>2, <1>4 DEF Settled, next, reset

\* An update that is delivered again leaves an entry below the limits.
LEMMA ReinstatedIsValid ==
    ASSUME NEW c, NEW e \in Entry, ValidEntry(c, e), NEW failure \in Failure, Retried(e, failure)
    PROVE  ValidEntry(c, Reinstated(e, failure)) /\ Reinstated(e, failure).vanished = e.vanished
<1> DEFINE next == Reinstated(e, failure)
<1>1. /\ next.failures = Attempts(e, failure) /\ next.deferrals = Deferrals(e, failure)
      /\ next.target = e.target /\ next.last = e.last /\ next.vanished = e.vanished
      /\ next.vanishedAt = e.vanishedAt /\ next.absent = e.absent
    BY DEF Reinstated, Entry
<1> HIDE DEF next
<1> QED BY <1>1 DEF Retried, ValidEntry, next

\* So do the entries of orders adopted and of commands issued.
LEMMA AdoptedIsValid ==
    ASSUME NEW o \in Places, NEW order, NEW r
    PROVE  ValidEntry(o, AdoptedEntry(o, order, r)) /\ ~AdoptedEntry(o, order, r).vanished
<1> DEFINE e == AdoptedEntry(o, order, r)
<1>1. /\ e.target = o /\ e.vanished = FALSE /\ e.vanishedAt = 0 /\ e.absent = 0
      /\ e.failures = 0 /\ e.deferrals = 0
    BY DEF AdoptedEntry, IssuedEntry
<1> HIDE DEF e
<1> QED BY <1>1, CommandsAssumption, LimitsAssumption DEF ValidEntry, e

\* An entry the host issues is one the next start can read.
LEMMA IssuedIsValid ==
    ASSUME NEW view, IsView(view), NEW adopted, NEW issued \in Issues(view, adopted),
           NEW c \in DOMAIN issued
    PROVE  c \in Commands /\ ValidEntry(c, issued[c]) /\ ~issued[c].vanished
<1>1. PICK I \in IssueSets(view, adopted) :
            issued \in {[d \in I |-> IssuedEntry(target[d], view.revision)] :
                            target \in {t \in [I -> Places \cup {NoTarget}] :
                                            \A d \in I : t[d] \in MayTarget(view, I, d)}}
    BY DEF Issues
<1>2. PICK target \in [I -> Places \cup {NoTarget}] :
            /\ issued = [d \in I |-> IssuedEntry(target[d], view.revision)]
            /\ \A d \in I : target[d] \in MayTarget(view, I, d)
    BY <1>1
<1>3. c \in I /\ c \in Commands /\ issued[c] = IssuedEntry(target[c], view.revision)
    BY <1>2 DEF IssueSets
<1>4. target[c] \in MayTarget(view, I, c)
    BY <1>2, <1>3
<1>5. /\ c \in Places => target[c] = c
      /\ c \in Cancels => target[c] \in Places
      /\ c \in CancelAlls => target[c] = NoTarget
    <2>1. CASE c \in Places
        BY <1>4, <2>1, CommandsAssumption DEF MayTarget
    <2>2. CASE c \in Cancels
        BY <1>4, <2>2, CommandsAssumption DEF MayTarget, IsView, IsPartial
    <2>3. CASE c \in CancelAlls
        BY <1>4, <2>3, CommandsAssumption DEF MayTarget
    <2> QED BY <1>3, <2>1, <2>2, <2>3, CommandsAssumption DEF Commands
<1> QED BY <1>3, <1>5, LimitsAssumption DEF ValidEntry, IssuedEntry

\* Every entry a decision writes is valid, and a live one was counted as live.
LEMMA FinalEntriesAreValid ==
    ASSUME TypeOK, ValidSection(section), NEW view \in Views,
           NEW failed \in DeliveryOutcomes(section, view),
           NEW adopted \in Adoptions(section, view),
           NEW issued \in Issues(view, adopted),
           NEW c \in DOMAIN FinalEntries(section, view, failed, adopted, issued)
    PROVE  LET e == FinalEntries(section, view, failed, adopted, issued)[c]
           IN  /\ ValidEntry(c, e)
               /\ ~e.vanished => \/ c \in Live(DerivedEntries(section, view, adopted))
                                 \/ c \in Reinstatable(section, view)
                                 \/ c \in DOMAIN issued
<1> DEFINE e == FinalEntries(section, view, failed, adopted, issued)[c]
           derived == DerivedEntries(section, view, adopted)
           before == section.entries[c]
<1>1. IsView(view)
    BY ViewsAreTyped
<1>2. \A d \in Tracked(section) :
          d \in Commands /\ section.entries[d] \in Entry /\ ValidEntry(d, section.entries[d])
    BY DEF TypeOK, IsSection, IsPartial, Tracked, ValidSection
<1>3. \A d \in DOMAIN failed : d \in Updated(section, view) /\ failed[d] \in Failure
    BY FailuresAreOfUpdates
<1>4. \A o \in adopted : o \in Places
    BY <1>1, AdoptionsAreAdoptable DEF Adoptable, IsView, IsPartial
<1>5. c \in RetriedIn(section, failed) \cup Kept(section, view) \cup adopted \cup DOMAIN issued
    BY DEF FinalEntries
<1>6. /\ DOMAIN derived = Kept(section, view) \cup adopted
      /\ c \in adopted => derived[c] = AdoptedEntry(c, view.orders[c], view.revision)
      /\ c \in Kept(section, view) \ adopted => derived[c] = After(c, before, view)
    BY DEF DerivedEntries
<1>7. CASE c \in DOMAIN issued
    <2>1. e = issued[c]
        BY <1>7 DEF FinalEntries
    <2> QED BY <1>1, <1>7, <2>1, IssuedIsValid
<1>8. CASE c \notin DOMAIN issued /\ c \in adopted
    <2>1. e = AdoptedEntry(c, view.orders[c], view.revision)
        BY <1>8 DEF FinalEntries
    <2>2. ValidEntry(c, e) /\ ~e.vanished
        BY <1>4, <1>8, <2>1, AdoptedIsValid
    <2>3. c \in Live(derived)
        BY <1>6, <1>8, <2>1, <2>2 DEF Live
    <2> QED BY <2>2, <2>3
<1>9. CASE c \notin DOMAIN issued \cup adopted /\ c \in RetriedIn(section, failed)
    <2>1. e = Reinstated(before, failed[c])
        BY <1>5, <1>9 DEF FinalEntries
    <2>2. /\ c \in Updated(section, view) /\ c \in Tracked(section)
          /\ failed[c] \in Failure /\ Retried(before, failed[c])
        BY <1>3, <1>9 DEF RetriedIn, Updated
    <2>3. ValidEntry(c, e) /\ e.vanished = before.vanished
        BY <1>2, <2>1, <2>2, ReinstatedIsValid
    <2>4. ~before.vanished => c \in Live(derived) \/ c \in Reinstatable(section, view)
        BY <1>6, <1>9, <2>2 DEF Reinstatable, Kept, Live
    <2> QED BY <2>3, <2>4
<1>10. CASE c \notin DOMAIN issued \cup adopted \cup RetriedIn(section, failed)
    <2>1. e = Settled(c, before, view) /\ c \in Kept(section, view)
        BY <1>5, <1>10 DEF FinalEntries
    <2>2. c \in Tracked(section) /\ Stays(c, before, view)
        BY <2>1 DEF Kept
    <2>3. ValidEntry(c, e)
        BY <1>1, <1>2, <2>1, <2>2, SettledIsValid
    <2>4. e.vanished = After(c, before, view).vanished
        <3>1. After(c, before, view) \in Entry
            BY <1>1, <1>2, <2>2, AfterIsEntry
        <3> DEFINE next == After(c, before, view)
        <3>2. [next EXCEPT !.failures = 0, !.deferrals = 0].vanished = next.vanished
            <4> HIDE DEF next
            <4> QED BY <3>1 DEF next, Entry
        <3> QED BY <2>1, <3>2 DEF Settled
    <2>5. ~e.vanished => c \in Live(derived)
        BY <1>6, <1>10, <2>1, <2>4 DEF Live
    <2> QED BY <2>3, <2>5
<1> QED BY <1>5, <1>7, <1>8, <1>9, <1>10

\* The section stays within its bounds: what stays is held back or adopted into the
\* room left, what is issued fits beside the live entries, and tombstones over the
\* bound are evicted.
LEMMA DecisionKeepsReadable ==
    ASSUME TypeOK, ValidSection(section), NEW view \in Views,
           NEW failed \in DeliveryOutcomes(section, view),
           NEW adopted \in Adoptions(section, view),
           NEW issued \in Issues(view, adopted),
           NEW evicted \in Evictions(FinalEntries(section, view, failed, adopted, issued),
                                     Pending(section, failed)),
           Cardinality(HeldBack(section, view)) <= MaxSectionEntries
    PROVE  ValidSection(SectionAfter(view, failed, adopted, issued, evicted))
<1> DEFINE final == FinalEntries(section, view, failed, adopted, issued)
           entries == SectionAfter(view, failed, adopted, issued, evicted).entries
           live == Live(DerivedEntries(section, view, adopted))
           back == Reinstatable(section, view)
<1>1. IsPartial(final, Commands, Entry)
    BY FinalEntriesAreTyped
<1>2. /\ DOMAIN entries = DOMAIN final \ evicted
      /\ \A c \in DOMAIN entries : entries[c] = final[c]
    BY DEF SectionAfter
<1>3. \A c \in DOMAIN final :
          /\ ValidEntry(c, final[c])
          /\ ~final[c].vanished => c \in live \cup back \cup DOMAIN issued
    BY FinalEntriesAreValid
<1>4. /\ Tracked(section) \subseteq Commands /\ adopted \subseteq Commands
      /\ DOMAIN issued \subseteq Commands
    BY ViewsAreTyped, AdoptionsAreAdoptable, IssuesAreNew
    DEF TypeOK, IsSection, IsPartial, Tracked, Adoptable, IsView, Commands
<1>5. /\ RetriedIn(section, failed) \subseteq Updated(section, view)
      /\ Updated(section, view) \subseteq Tracked(section)
      /\ Kept(section, view) \subseteq Tracked(section)
      /\ back \subseteq Tracked(section)
      /\ live \subseteq Kept(section, view) \cup adopted
    BY FailuresAreOfUpdates DEF RetriedIn, Updated, Kept, Reinstatable, Live, DerivedEntries
<1> HIDE DEF entries, final, live, back
<1>6. /\ DOMAIN final \subseteq Commands /\ Tombstones(final) \subseteq DOMAIN final
      /\ evicted \subseteq Tombstones(final)
    BY <1>1 DEF IsPartial, Tombstones, Evictions, final
<1>7. Cardinality(Tombstones(entries)) <= MaxTombstones
    <2>1. Tombstones(entries) = Tombstones(final) \ evicted
        BY <1>2 DEF Tombstones
    <2> DEFINE all == Cardinality(Tombstones(final))
    <2>2. Cardinality(evicted) = IF all - MaxTombstones > 0 THEN all - MaxTombstones ELSE 0
        BY DEF Evictions, final
    <2>3. IsFiniteSet(Tombstones(final)) /\ all \in Nat
        BY <1>6, CommandsAreFinite
    <2>4. Tombstones(final) \cap evicted = evicted
        BY <1>6
    <2>5. Cardinality(Tombstones(final) \ evicted) = all - Cardinality(evicted)
        BY <2>3, <2>4, FS_Difference
    <2>6. Cardinality(Tombstones(entries)) = all - Cardinality(evicted)
        BY <2>1, <2>5
    <2> HIDE DEF all
    <2> QED BY <2>2, <2>3, <2>6, LimitsAssumption
<1>8. Cardinality(DOMAIN entries) <= MaxSectionEntries
    <2>1. CASE DOMAIN issued = {}
        <3> DEFINE held == HeldBack(section, view)
        <3>1. DOMAIN entries \subseteq held \cup adopted /\ held \subseteq Commands
            BY <1>2, <1>4, <1>5, <2>1 DEF final, FinalEntries, HeldBack
        <3>2. Cardinality(adopted) <= MaxSectionEntries - Cardinality(held)
            <4>1. Cardinality(held) \in Nat /\ Cardinality(adopted) \in Nat
                BY <1>4, <3>1, CommandsAreFinite
            <4> QED BY <4>1, LimitsAssumption DEF Adoptions, MaxSectionEntries
        <3>3. Cardinality(held \cup adopted) <= Cardinality(held) + Cardinality(adopted)
            BY <1>4, <3>1, CountOfUnion
        <3>4. Cardinality(DOMAIN entries) <= Cardinality(held \cup adopted)
            BY <1>4, <3>1, CountOfPart
        <3>5. /\ Cardinality(held) \in Nat /\ Cardinality(adopted) \in Nat
              /\ Cardinality(held \cup adopted) \in Nat /\ Cardinality(DOMAIN entries) \in Nat
            BY <1>2, <1>4, <1>6, <3>1, CommandsAreFinite
        <3> HIDE DEF held
        <3> QED BY <3>2, <3>3, <3>4, <3>5, LimitsAssumption DEF MaxSectionEntries
    <2>2. CASE DOMAIN issued # {}
        <3>1. Cardinality(live) + Cardinality(back) + Cardinality(DOMAIN issued) <= MaxRunnerEntries
            BY <2>2 DEF Issues, IssueSets, live, back
        <3> DEFINE counted == live \cup back
                   kept == counted \cup DOMAIN issued
        <3>2. DOMAIN entries \subseteq kept \cup Tombstones(entries)
            BY <1>2, <1>3 DEF Tombstones
        <3>3. /\ live \subseteq Commands /\ back \subseteq Commands /\ DOMAIN issued \subseteq Commands
              /\ counted \subseteq Commands /\ kept \subseteq Commands
              /\ Tombstones(entries) \subseteq Commands /\ kept \cup Tombstones(entries) \subseteq Commands
            BY <1>2, <1>4, <1>5, <1>6 DEF Tombstones
        <3>4. /\ Cardinality(counted) <= Cardinality(live) + Cardinality(back)
              /\ Cardinality(kept) <= Cardinality(counted) + Cardinality(DOMAIN issued)
              /\ Cardinality(kept \cup Tombstones(entries))
                    <= Cardinality(kept) + Cardinality(Tombstones(entries))
              /\ Cardinality(DOMAIN entries) <= Cardinality(kept \cup Tombstones(entries))
            BY <3>2, <3>3, CountOfUnion, CountOfPart
        <3>5. /\ Cardinality(live) \in Nat /\ Cardinality(back) \in Nat
              /\ Cardinality(DOMAIN issued) \in Nat /\ Cardinality(counted) \in Nat
              /\ Cardinality(kept) \in Nat /\ Cardinality(Tombstones(entries)) \in Nat
              /\ Cardinality(kept \cup Tombstones(entries)) \in Nat
              /\ Cardinality(DOMAIN entries) \in Nat
            BY <1>2, <1>6, <3>3, CommandsAreFinite
        <3> HIDE DEF counted, kept
        <3> QED BY <1>7, <3>1, <3>4, <3>5, LimitsAssumption DEF MaxSectionEntries
    <2> QED BY <2>1, <2>2
<1> QED BY <1>2, <1>3, <1>7, <1>8 DEF ValidSection, Tracked, entries

\* The runner starts with a section it can read.
LEMMA InitSectionIsReadable == Init => SectionIsReadable
<1>1. Tracked(EmptySection) = {} /\ Tombstones(EmptySection.entries) = {}
    BY DEF EmptySection, Tracked, Tombstones
<1>2. Cardinality({}) = 0
    BY FS_EmptySet
<1>3. ValidSection(EmptySection)
    BY <1>1, <1>2, LimitsAssumption DEF ValidSection, MaxSectionEntries
<1> QED BY <1>3 DEF Init, SectionIsReadable

\* Every step leaves a section that the next start can read.
LEMMA NextSectionIsReadable == TypeOK /\ SectionIsReadable /\ [Next]_vars => SectionIsReadable'
<1> SUFFICES ASSUME TypeOK, SectionIsReadable, [Next]_vars PROVE SectionIsReadable'
    OBVIOUS
<1>1. ASSUME NEW o \in Places, OrderMoves(o) PROVE SectionIsReadable'
    BY <1>1 DEF OrderMoves, SectionIsReadable
<1>2. CASE OtherSleeveMoves
    BY <1>2 DEF OtherSleeveMoves, SectionIsReadable
<1>3. CASE Decision
    <2>1. PICK view, failed, adopted, issued, evicted, durable :
             /\ view \in Views
             /\ failed \in DeliveryOutcomes(section, view)
             /\ adopted \in Adoptions(section, view)
             /\ issued \in Issues(view, adopted)
             /\ evicted \in Evictions(FinalEntries(section, view, failed, adopted, issued),
                                      Pending(section, failed))
             /\ Decide(view, failed, adopted, issued, evicted, durable)
        BY <1>3, DecisionFacts
    <2>2. ValidSection(section')
        BY <2>1, DecisionKeepsReadable DEF SectionIsReadable, Decide
    <2>3. ValidSection(saved'.section)
        BY <2>1, <2>2 DEF SectionIsReadable, Decide
    <2> QED BY <2>2, <2>3 DEF SectionIsReadable
<1>4. CASE Crash
    BY <1>4 DEF Crash, SectionIsReadable
<1>5. CASE UNCHANGED vars
    BY <1>5 DEF vars, SectionIsReadable
<1> QED BY <1>1, <1>2, <1>3, <1>4, <1>5 DEF Next

\* A decision always writes a section the next one can read: its entries and tombstones
\* within the bounds, its counters below their limits, whatever fails, is adopted,
\* reinstated or issued.
THEOREM SectionStaysReadable == Spec => []SectionIsReadable
<1> QED BY InitTypeOK, NextTypeOK, InitSectionIsReadable, NextSectionIsReadable, PTL DEF Spec
=============================================================================
