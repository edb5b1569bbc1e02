---------------------------- MODULE RunnerSection ----------------------------
(***************************************************************************)
(* The Decision V6 runner over many decisions: the Broker's orders, the    *)
(* views the host makes of them, the checkpoint's runner section, and the  *)
(* kernel's books.                                                         *)
(*                                                                         *)
(* `broker` is the account's history: broker[r] is the Sleeve's orders and *)
(* receipts as of Broker revision r (the revision is account-wide and also *)
(* moves with other Sleeves).  A view is of any revision so far, so it may *)
(* be stale or reordered, and may miss any order or receipt for a while;   *)
(* one the host truncated still shows every open order.                    *)
(*                                                                         *)
(* `section` and `book` are the checkpoint the next context carries; saved *)
(* is the last one a durable write holds.  A decision with commands needs  *)
(* the durable write, which admits the commands and applies the            *)
(* acknowledgements; any other decision may be lost in a crash.  A         *)
(* rejected decision and one whose durable write fails change nothing.     *)
(***************************************************************************)
EXTENDS OrderUpdates, Sequences

CONSTANTS
    Existing,       \* places the Sleeve may already have when the runner first sees it
    Statuses,       \* the order statuses the Broker uses (all of them, or fewer for TLC)
    MaxRevision,    \* bound on the Broker revision
    MaxIssued,      \* bound on the commands of one decision
    Durability      \* are decisions durable: BOOLEAN, or {TRUE} where none is lost

ASSUME HostAssumption ==
    /\ Existing \subseteq Places
    /\ "DurablyAccepted" \in Statuses /\ Statuses \subseteq OrderStatus
    /\ MaxRevision \in Nat \ {0}
    /\ MaxIssued \in Nat
    /\ TRUE \in Durability /\ Durability \subseteq BOOLEAN

VARIABLES
    broker,     \* Broker revision -> the Sleeve's orders and receipts
    section,    \* the runner section of the next context's checkpoint
    book,       \* what the kernel and the diagnostics were told, per place
    saved,      \* the section and the book of the last durable write
    acked       \* commands acknowledged in a durable write

vars == <<broker, section, book, saved, acked>>

Revision == Len(broker)
Newest == broker[Revision]

-----------------------------------------------------------------------------
(* The Broker.                                                             *)

Outcome == {"Accepted", "Refused"}

IsSnapshot(s) ==
    /\ s = [orders |-> s.orders, receipts |-> s.receipts]
    /\ IsPartial(s.orders, Places, Order)
    /\ IsPartial(s.receipts, Commands, Outcome)

\* Records an order with `filled` filled may move to: fills only grow, and a
\* status says what it says of the fill.
Records(filled, revision) ==
    {order \in [status : Statuses, filled : filled..Quantity, revision : {revision}] :
        /\ order.status = "Filled" <=> order.filled = Quantity
        /\ order.status = "PartiallyFilled" => order.filled > 0
        /\ order.status \in {"DurablyAccepted", "Dispatched", "Resting", "Rejected"} =>
               order.filled = 0}

\* The Sleeve's orders before the runner, open or final, as the Broker has them.
ExistingOrders == UNION {[had -> Records(0, 1)] : had \in SUBSET Existing}

NothingTold ==
    [counted |-> [o \in Places |-> 0], lost |-> [o \in Places |-> 0],
     unreported |-> [o \in Places |-> 0], closed |-> {}, dropped |-> {}]

Init ==
    /\ \E orders \in ExistingOrders :
          broker = << [orders |-> orders, receipts |-> [c \in {} |-> "Refused"]] >>
    /\ section = EmptySection
    /\ book = NothingTold
    /\ saved = [section |-> EmptySection, book |-> NothingTold]
    /\ acked = {}

\* An open order moves along: it rests, fills, is cancelled, expires...
OrderMoves(o) ==
    /\ Revision < MaxRevision
    /\ o \in DOMAIN Newest.orders
    /\ ~Terminal(Newest.orders[o])
    /\ \E order \in Records(Newest.orders[o].filled, Newest.orders[o].revision + 1) :
          broker' = Append(broker, [Newest EXCEPT !.orders[o] = order])
    /\ UNCHANGED <<section, book, saved, acked>>

\* Another Sleeve of the account moves the Broker revision.
OtherSleeveMoves ==
    /\ Revision < MaxRevision
    /\ broker' = Append(broker, Newest)
    /\ UNCHANGED <<section, book, saved, acked>>

-----------------------------------------------------------------------------
(* Views.                                                                  *)

\* The view of revision r that misses the commands `hidden`.
View(r, complete, hidden) ==
    [revision |-> r, complete |-> complete,
     orders   |-> [o \in DOMAIN broker[r].orders \ hidden |-> broker[r].orders[o]],
     receipts |-> [c \in DOMAIN broker[r].receipts \ hidden |-> broker[r].receipts[c]]]

\* A truncated view drops terminal orders only, never an open one.
Views ==
    {view \in {View(r, complete, hidden) : r \in 1..Revision, complete \in BOOLEAN,
                                          hidden \in SUBSET Commands} :
        view.complete \/ \A o \in DOMAIN broker[view.revision].orders :
            ~Terminal(broker[view.revision].orders[o]) => Shows(o, view)}

\* The view of everything, as of now.
FullView == View(Revision, TRUE, {})

-----------------------------------------------------------------------------
(* One decision.                                                           *)

Told(b, o) == b.counted[o] + b.lost[o] + b.unreported[o]

\* What the kernel and the diagnostics know after the decision: handled updates
\* are counted, abandoned ones reported as lost, and an adopted order's fill beyond
\* what was told is never reported.  A command is closed once its final update was
\* handled or abandoned, and dropped once its tombstone expired or was evicted.
BookAfter(view, failed, adopted, evicted) ==
    LET updated   == Updated(section, view)
        abandoned == AbandonedIn(section, failed)
        Fill(o)   == NewlyFilled(o, section.entries[o], view)
        Before(o) == IF view.orders[o].filled > Told(book, o)
                     THEN view.orders[o].filled - Told(book, o) ELSE 0
    IN  [counted    |-> [o \in Places |-> book.counted[o] +
                            IF o \in updated \ DOMAIN failed THEN Fill(o) ELSE 0],
         lost       |-> [o \in Places |-> book.lost[o] +
                            IF o \in abandoned THEN Fill(o) ELSE 0],
         unreported |-> [o \in Places |-> book.unreported[o] +
                            IF o \in adopted THEN Before(o) ELSE 0],
         closed     |-> book.closed \cup
                            {c \in updated \ RetriedIn(section, failed) :
                                ReportsFinal(c, section.entries[c], view)},
         dropped    |-> (book.dropped \cup Expired(section, view) \cup evicted) \ adopted]

SectionAfter(view, failed, adopted, issued, evicted) ==
    LET entries == FinalEntries(section, view, failed, adopted, issued)
    IN  [seeded  |-> TRUE,
         newest  |-> IF view.revision > section.newest THEN view.revision ELSE section.newest,
         entries |-> [c \in DOMAIN entries \ evicted |-> entries[c]]]

\* Command ids are the decision's own: never used before.
Unused(c) == c \notin DOMAIN Newest.orders \cup DOMAIN Newest.receipts

\* What a command of a decision with the commands I may name: a cancel an order
\* the view shows or a place of the decision itself, a cancel-all only over a
\* complete view.
MayTarget(view, I, c) ==
    CASE c \in Places -> {c}
      [] c \in Cancels -> DOMAIN view.orders \cup (I \cap Places)
      [] c \in CancelAlls -> IF view.complete THEN {NoTarget} ELSE {}

\* The sets of commands a decision may issue: unused ones, within the live
\* entries, where failed updates may bring back entries too.
IssueSets(view, adopted) ==
    LET live == Cardinality(Live(DerivedEntries(section, view, adopted)))
                + Cardinality(Reinstatable(section, view))
    IN  {I \in SUBSET {c \in Commands : Unused(c)} :
            /\ Cardinality(I) <= MaxIssued
            /\ I # {} => live + Cardinality(I) <= MaxRunnerEntries}

\* The entries of the commands a decision over the view may issue.
Issues(view, adopted) ==
    UNION {{[c \in I |-> IssuedEntry(target[c], view.revision)] :
                target \in {t \in [I -> Places \cup {NoTarget}] :
                                \A c \in I : t[c] \in MayTarget(view, I, c)}} :
           I \in IssueSets(view, adopted)}

\* The Broker admits or refuses each command: an admitted place is an order, any
\* other outcome a receipt.  A command never has both.  A place the same decision
\* cancels is admitted as a cancelled order.
Admitted(issued, refused) ==
    LET placed == (DOMAIN issued \cap Places) \ refused
        First(o) == IF \E c \in (DOMAIN issued \cap Cancels) \ refused : issued[c].target = o
                    THEN "Cancelled" ELSE "DurablyAccepted"
    IN  [orders   |-> [o \in DOMAIN Newest.orders \cup placed |->
                        IF o \in placed
                        THEN [status |-> First(o), filled |-> 0, revision |-> 1]
                        ELSE Newest.orders[o]],
         receipts |-> [c \in DOMAIN Newest.receipts \cup (DOMAIN issued \ placed) |->
                        IF c \notin DOMAIN issued THEN Newest.receipts[c]
                        ELSE IF c \in refused THEN "Refused" ELSE "Accepted"]]

\* A completed decision over the view: compare, deliver, run the trigger, write
\* the section back.
Decide(view, failed, adopted, issued, evicted, durable) ==
    /\ Cardinality(HeldBack(section, view)) <= MaxSectionEntries
    /\ section' = SectionAfter(view, failed, adopted, issued, evicted)
    /\ book' = BookAfter(view, failed, adopted, evicted)
    /\ IF durable
       THEN /\ saved' = [section |-> section', book |-> book']
            /\ acked' = acked \cup Acknowledged(view, section'.entries)
       ELSE UNCHANGED <<saved, acked>>
    /\ IF DOMAIN issued = {}
       THEN UNCHANGED broker
       ELSE /\ durable
            /\ Revision < MaxRevision
            /\ \E refused \in SUBSET DOMAIN issued :
                  broker' = Append(broker, Admitted(issued, refused))

DecideOver(view, durable) ==
    \E failed \in DeliveryOutcomes(section, view), adopted \in Adoptions(section, view) :
        \E issued \in Issues(view, adopted) :
            \E evicted \in Evictions(FinalEntries(section, view, failed, adopted, issued),
                                    Pending(section, failed)) :
                Decide(view, failed, adopted, issued, evicted, durable)

Decision == \E view \in Views, durable \in Durability : DecideOver(view, durable)

\* The host resumes from the last durable checkpoint.
Crash ==
    /\ section' = saved.section
    /\ book' = saved.book
    /\ UNCHANGED <<broker, saved, acked>>

Next ==
    \/ \E o \in Places : OrderMoves(o)
    \/ OtherSleeveMoves
    \/ Decision
    \/ Crash

Spec == Init /\ [][Next]_vars

\* The host keeps running decisions over the whole, current state and keeps
\* writing them durably.
FairSpec == Spec /\ WF_vars(DecideOver(FullView, TRUE))

-----------------------------------------------------------------------------
(* Properties.                                                             *)

Books ==
    [counted : [Places -> Nat], lost : [Places -> Nat], unreported : [Places -> Nat],
     closed : SUBSET Commands, dropped : SUBSET Commands]

\* The state has its type.
TypeOK ==
    /\ broker \in Seq({broker[r] : r \in 1..Revision})
    /\ Revision > 0 /\ \A r \in 1..Revision : IsSnapshot(broker[r])
    /\ IsSection(section) /\ book \in Books
    /\ IsSection(saved.section) /\ saved.book \in Books
    /\ acked \in SUBSET Commands

\* Whatever views the runner was given, the section and the kernel agree: what
\* was counted, reported as lost and reported as filled before adoption adds up
\* to the fill the order's entry records, in the current checkpoint and in the
\* one a crash goes back to.
AgreesOn(s, b) ==
    \A o \in Tracked(s) \cap Places : Told(b, o) = s.entries[o].filled

FillsAccounted == AgreesOn(section, book) /\ AgreesOn(saved.section, saved.book)

\* The fill of an order as of now (none if the Broker never admitted it).
TrueFill(o) == IF o \in DOMAIN Newest.orders THEN Newest.orders[o].filled ELSE 0

\* No fill is ever told twice, whatever stale, partial or reordered views the
\* runner was given and whatever it adopted again: the kernel never knows more
\* of an order than the Broker filled.
NeverToldTwice == \A o \in Places : Told(book, o) <= TrueFill(o)

\* Once an order's final update was handled or abandoned, every fill of it was
\* told (or reported as lost), and no later view makes the runner track it again.
ClosedOrdersAreTold ==
    \A o \in book.closed \cap Places :
        /\ o \notin Tracked(section)
        /\ o \in DOMAIN Newest.orders => Terminal(Newest.orders[o])
        /\ Told(book, o) = TrueFill(o)

\* The host forgets what is acknowledged, so an acknowledgement must not outrun
\* the news: in the checkpoint a crash goes back to, an acknowledged order was
\* told in full and an acknowledged refusal was told.  The exceptions are the
\* documented ones: a dropped tombstone, an order the Sleeve had before the runner
\* and never showed it open, a refused cancel whose target was final.
AcknowledgedIsTold ==
    \A c \in acked \ saved.book.dropped :
        IF c \in DOMAIN Newest.orders
        THEN \/ c \in saved.book.closed /\ Told(saved.book, c) = TrueFill(c)
             \/ c \in DOMAIN broker[1].orders /\ Told(saved.book, c) = 0
        ELSE Newest.receipts[c] = "Refused" =>
                \/ c \in saved.book.closed
                \/ c \in Cancels /\ \E o \in DOMAIN Newest.orders : Terminal(Newest.orders[o])

\* Acknowledged commands never come back into a section, across crashes.
AcknowledgedIsUntracked ==
    acked \cap (Tracked(section) \cup Tracked(saved.section)) = {}

\* The section a decision writes is one the next decision can read and compare:
\* bounded entries and tombstones, counters below their limits.
SectionIsReadable == ValidSection(section) /\ ValidSection(saved.section)

\* FillReporting, with the Broker's history reduced to the fills each order has had.
Fills(o) ==
    {0} \cup {broker[r].orders[o].filled : r \in {q \in 1..Revision : o \in DOMAIN broker[q].orders}}

SettledOrders ==
    {o \in Places : \/ o \in DOMAIN Newest.receipts
                    \/ o \in DOMAIN Newest.orders /\ Terminal(Newest.orders[o])}

BookTold(b) == [o \in Places |-> Told(b, o)]

Reporting == INSTANCE FillReporting WITH
    Orders  <- Places,
    had     <- [o \in Places |-> Fills(o)],
    settled <- SettledOrders,
    told    <- BookTold(book),
    closed  <- book.closed \cap Places,
    kept    <- [told |-> BookTold(saved.book), closed |-> saved.book.closed \cap Places]

\* The runner implements FillReporting: over all views, failures, evictions, adoptions and
\* crashes, every step is a fill, a report of fills the order has had, in order and up to
\* the last one where it closes, or a return to the last durable write.
ReportsFollowFills == Reporting!Spec

\* From some point on the host's views are whole and current.
ViewsSettle ==
    <>[][Decision => \E durable \in Durability : DecideOver(FullView, durable)]_vars

\* The command's outcome is in: its order is final or it has a receipt.
Answered(c) ==
    \/ c \in DOMAIN Newest.receipts
    \/ c \in DOMAIN Newest.orders /\ Terminal(Newest.orders[c])

\* Once the views are whole, every outcome is acknowledged in a durable write, however
\* often the kernel fails, updates are deferred and the host crashes: no update is
\* retried or held forever, and the host's lists of final orders and receipts drain.
OutcomesAreAcknowledged ==
    ViewsSettle => \A c \in Commands : Answered(c) ~> c \in acked

-----------------------------------------------------------------------------
(* The invariants behind FillsAccounted, NeverToldTwice,                    *)
(* ClosedOrdersAreTold, AcknowledgedIsUntracked and AcknowledgedIsTold      *)
(* (FillAccountingProofs.tla), over a history h.                            *)

\* What later becomes of an order: it moves on to a higher revision without losing
\* a fill, and not at all once it is final.
Becomes(before, after) ==
    \/ after = before
    \/ /\ ~Terminal(before)
       /\ after.revision > before.revision
       /\ after.filled >= before.filled

Follows(s, t) ==
    /\ \A c \in DOMAIN s.receipts : c \in DOMAIN t.receipts /\ t.receipts[c] = s.receipts[c]
    /\ \A o \in DOMAIN s.orders :
          o \in DOMAIN t.orders /\ Becomes(s.orders[o], t.orders[o])

\* Orders only move on, receipts stay as they are, and no command has both.
HistoryOK(h) ==
    /\ \A r, q \in 1..Len(h) : r <= q => Follows(h[r], h[q])
    /\ \A r \in 1..Len(h) : DOMAIN h[r].orders \cap DOMAIN h[r].receipts = {}

\* Commands the Broker has an order or a receipt of.
Used(h) == DOMAIN h[Len(h)].orders \cup DOMAIN h[Len(h)].receipts

\* What was told of the order is its fill at a revision the section has compared.
ToldByThen(h, s, b, o) ==
    \/ Told(b, o) = 0
    \/ \E r \in 1..s.newest : o \in DOMAIN h[r].orders /\ Told(b, o) = h[r].orders[o].filled

\* The order was final by a revision the section has compared, and told in full.
FinalByThen(h, s, b, o) ==
    \E r \in 1..s.newest : /\ o \in DOMAIN h[r].orders
                           /\ Terminal(h[r].orders[o])
                           /\ Told(b, o) = h[r].orders[o].filled

\* The section s and the books b are sound over the history h.
SoundOver(h, s, b) ==
    /\ s.newest <= Len(h)
    /\ Tracked(s) \subseteq Used(h)
    /\ AgreesOn(s, b)
    /\ \A o \in Places : ToldByThen(h, s, b, o)
    /\ \A o \in b.closed \cap Places :
          o \notin Tracked(s) /\ (FinalByThen(h, s, b, o) \/ o \in DOMAIN h[Len(h)].receipts)
    /\ ~s.seeded => b.closed = {} /\ \A o \in Places : Told(b, o) = 0

FillInvariant ==
    /\ HistoryOK(broker)
    /\ SoundOver(broker, section, book)
    /\ SoundOver(broker, saved.section, saved.book)

\* An acknowledged command's outcome was in by the newest revision the durable
\* section has compared, and no checkpoint is behind that section.
AckInvariant ==
    /\ saved.section.newest <= section.newest
    /\ saved.section.seeded => section.seeded
    /\ acked # {} => saved.section.seeded
    /\ AcknowledgedIsUntracked
    /\ \A c \in acked :
          \/ c \in DOMAIN Newest.receipts
          \/ \E r \in 1..saved.section.newest :
                c \in DOMAIN broker[r].orders /\ Terminal(broker[r].orders[c])

\* What the section and the books know of a command the Broker has an order or a receipt
\* of: it is tracked, its story was told or given up, it is an order from before the
\* runner that was never tracked, or it needs no news (an accepted receipt, or a
\* cancel dropped for a final target).
KnownTo(h, s, b, c) ==
    LET newest == h[Len(h)]
    IN  \/ c \in Tracked(s) \cup b.closed \cup b.dropped
        \/ c \in DOMAIN h[1].orders /\ Told(b, c) = 0
        \/ /\ c \in DOMAIN newest.receipts
           /\ \/ newest.receipts[c] = "Accepted"
              \/ c \in Cancels /\ \E o \in DOMAIN newest.orders : Terminal(newest.orders[o])

\* Neither the section nor the durable one loses sight of a command.
KnownInvariant ==
    \A c \in Used(broker) : /\ KnownTo(broker, section, book, c)
                            /\ KnownTo(broker, saved.section, saved.book, c)
=============================================================================
