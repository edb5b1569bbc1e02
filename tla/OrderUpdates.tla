---------------------------- MODULE OrderUpdates ----------------------------
(***************************************************************************)
(* The order-update comparison of the Decision V6 runner.                  *)
(*                                                                         *)
(* A decision compares the Broker state and the command receipts of its    *)
(* context (a view) with what the checkpoint's runner section last saw (an *)
(* entry per place, cancel and cancel-all of the Strategy), derives the    *)
(* order updates to deliver, and writes the section back.  Nothing is      *)
(* queued: an update is always a difference between an entry and a view.   *)
(*                                                                         *)
(* This module holds the comparison as operators on one entry and one      *)
(* view, and the end of a decision (reinstated, abandoned, evicted and     *)
(* adopted entries) as operators on a section.  RunnerSection.tla gives    *)
(* them a Broker, a host and a kernel; UpdateDelivery.tla gives them the   *)
(* delivery loop.                                                          *)
(*                                                                         *)
(* Abstractions: a command is an id; a place's order id and client order   *)
(* id are that id, and a cancel names its target by it.  Markets, sides,   *)
(* prices, fees and texts are left out.  A quantity is a small number.     *)
(***************************************************************************)
EXTENDS Integers, FiniteSets

CONSTANTS
    Places,                  \* command ids of places (one order each)
    Cancels,                 \* command ids of cancels
    CancelAlls,              \* command ids of cancel-alls
    NoTarget,                \* the target of a cancel-all: no order in particular
    Quantity,                \* the quantity of every order
    MaxRunnerEntries,        \* MAX_RUNNER_ENTRIES = 256
    MaxTombstones,           \* MAX_TOMBSTONES = 32
    TombstoneExpiryViews,    \* TOMBSTONE_EXPIRY_VIEWS = 16
    MaxDeliveryAttempts,     \* MAX_DELIVERY_ATTEMPTS = 3
    MaxDeliveryDeferrals     \* MAX_DELIVERY_DEFERRALS = 8

Commands == Places \cup Cancels \cup CancelAlls

ASSUME CommandsAssumption ==
    /\ IsFiniteSet(Commands)
    /\ Places \cap (Cancels \cup CancelAlls) = {}
    /\ Cancels \cap CancelAlls = {}
    /\ NoTarget \notin Commands

ASSUME LimitsAssumption ==
    /\ Quantity \in Nat \ {0}
    /\ MaxRunnerEntries \in Nat
    /\ MaxTombstones \in Nat
    /\ TombstoneExpiryViews \in Nat \ {0}
    /\ MaxDeliveryAttempts \in Nat \ {0}
    /\ MaxDeliveryDeferrals \in Nat \ {0, 1}

\* What a runner section may hold in all, checked when a checkpoint is read.
MaxSectionEntries == MaxRunnerEntries + MaxTombstones

-----------------------------------------------------------------------------
(* Statuses.                                                               *)

TerminalOrder == {"Filled", "Cancelled", "Expired", "Rejected"}

OrderStatus ==
    {"DurablyAccepted", "Dispatched", "Resting", "PartiallyFilled",
     "CancellationRequested", "RecoveryRequired"} \cup TerminalOrder

\* The statuses a Strategy is shown that do not end an order.
OpenSeen == {"Accepted", "Resting", "PartiallyFilled"}

\* An order record as the Broker reports it.
Order == [status : OrderStatus, filled : 0..Quantity, revision : Nat \ {0}]

Terminal(order) == order.status \in TerminalOrder

\* The status a Strategy sees for an order.  A cancellation request or a
\* recovery hold is no news of its own.
SeenStatus(order, last) ==
    CASE order.status \in {"DurablyAccepted", "Dispatched"} -> "Accepted"
      [] order.status \in {"CancellationRequested", "RecoveryRequired"} ->
            IF order.filled > 0 THEN "PartiallyFilled"
            ELSE IF last = "None" THEN "Accepted" ELSE last
      [] order.status = "Rejected" -> "Refused"
      [] OTHER -> order.status

-----------------------------------------------------------------------------
(* Entries, sections and views.                                            *)

\* What the Strategy has seen of one of its commands.
Entry ==
    [target     : Places \cup {NoTarget},      \* itself for a place
     last       : OpenSeen \cup {"None"},      \* never terminal
     filled     : 0..Quantity,
     revision   : Nat,                         \* order revision last reported
     issued     : Nat,                         \* Broker revision it was issued at
     vanished   : BOOLEAN,                     \* a tombstone
     vanishedAt : Nat,
     absent     : Nat,
     failures   : Nat,
     deferrals  : Nat]

\* The entry of a command issued in a decision over a view at revision r.
IssuedEntry(target, r) ==
    [target |-> target, last |-> "None", filled |-> 0, revision |-> 0,
     issued |-> r, vanished |-> FALSE, vanishedAt |-> 0, absent |-> 0,
     failures |-> 0, deferrals |-> 0]

\* The entry of an open order the section starts to track.
AdoptedEntry(o, order, r) ==
    [IssuedEntry(o, r) EXCEPT !.last = SeenStatus(order, "None"),
                              !.filled = order.filled,
                              !.revision = order.revision]

\* f is a partial function from D to R.
IsPartial(f, D, R) == DOMAIN f \subseteq D /\ f \in [DOMAIN f -> R]

\* A section: is it seeded, the newest Broker revision it compared, and the
\* entries of the tracked commands (a partial function of the commands).
IsSection(s) ==
    /\ s = [seeded |-> s.seeded, newest |-> s.newest, entries |-> s.entries]
    /\ s.seeded \in BOOLEAN
    /\ s.newest \in Nat
    /\ IsPartial(s.entries, Commands, Entry)

\* A decision's first section, when no checkpoint exists yet.
EmptySection == [seeded |-> FALSE, newest |-> 0, entries |-> [c \in {} |-> {}]]

Tracked(section) == DOMAIN section.entries

Tombstones(entries) == {c \in DOMAIN entries : entries[c].vanished}
Live(entries) == {c \in DOMAIN entries : ~entries[c].vanished}

\* A view: the Broker revision it is of, whether the host kept every order in
\* it, the orders and the receipts it shows (partial functions).
Shows(c, view) == c \in DOMAIN view.orders
RefusedIn(c, view) == c \in DOMAIN view.receipts /\ view.receipts[c] = "Refused"

-----------------------------------------------------------------------------
(* One entry against one view.                                             *)

\* The view may predate the command's admission: its absence is no news.
MayPredate(e, view) == view.revision <= e.issued

\* An entry the view shows nothing of: is that news?
AbsenceCounts(e, view) == view.complete /\ ~MayPredate(e, view)

Expires(e, view) ==
    /\ AbsenceCounts(e, view)
    /\ e.vanished
    /\ view.revision > e.vanishedAt
    /\ e.absent + 1 >= TombstoneExpiryViews

\* What becomes of an entry a view does not show (unless it expires).
Absent(e, view) ==
    IF ~AbsenceCounts(e, view) THEN e
    ELSE IF ~e.vanished
         THEN [e EXCEPT !.vanished = TRUE, !.vanishedAt = view.revision, !.absent = 0]
         ELSE IF view.revision > e.vanishedAt
              THEN [e EXCEPT !.absent = @ + 1]
              ELSE e

\* The record shown is not older than the one last reported.
Current(c, e, view) == Shows(c, view) /\ view.orders[c].revision >= e.revision

\* The entry after an open order's record is reported.
Reported(e, order) ==
    [e EXCEPT !.last = SeenStatus(order, e.last),
              !.filled = IF order.filled > @ THEN order.filled ELSE @,
              !.revision = order.revision,
              !.vanished = FALSE, !.vanishedAt = 0, !.absent = 0]

Changed(e, order) ==
    \/ e.vanished
    \/ e.last # SeenStatus(order, e.last)
    \/ e.filled # order.filled

\* A place goes missing from a complete newer view for the first time: its last
\* status is reported once more, final as far as the runner knows.
Vanishes(c, e, view) ==
    /\ c \in Places
    /\ ~Shows(c, view) /\ ~RefusedIn(c, view)
    /\ AbsenceCounts(e, view) /\ ~e.vanished

PlaceHasUpdate(c, e, view) ==
    \/ Current(c, e, view) /\ Changed(e, view.orders[c])
    \/ ~Shows(c, view) /\ RefusedIn(c, view)
    \/ Vanishes(c, e, view)

\* Mutant: a final order keeps its entry.
PlaceStaysFinal(c, e, view) ==
    IF Shows(c, view) THEN TRUE ELSE ~RefusedIn(c, view) /\ ~Expires(e, view)

PlaceStays(c, e, view) ==
    IF Shows(c, view)
    THEN Current(c, e, view) => ~Terminal(view.orders[c])
    ELSE ~RefusedIn(c, view) /\ ~Expires(e, view)

PlaceAfter(c, e, view) ==
    IF Current(c, e, view) THEN Reported(e, view.orders[c])
    ELSE IF Shows(c, view) THEN e ELSE Absent(e, view)

\* A final target tells the story whatever the cancel's outcome.
TargetIsFinal(c, e, view) ==
    /\ c \in Cancels
    /\ Shows(e.target, view)
    /\ Terminal(view.orders[e.target])

\* Mutant: a cancel waits for its target, whatever its receipt.
CancelWaits(c, e, view) == ~TargetIsFinal(c, e, view) /\ ~Expires(e, view)

CancelStays(c, e, view) ==
    /\ c \notin DOMAIN view.receipts
    /\ ~TargetIsFinal(c, e, view)
    /\ ~Expires(e, view)

-----------------------------------------------------------------------------
(* One entry's step: is there an update, does the entry stay, and as what. *)

HasUpdate(c, e, view) ==
    IF c \in Places THEN PlaceHasUpdate(c, e, view) ELSE RefusedIn(c, view)

Stays(c, e, view) ==
    IF c \in Places THEN PlaceStays(c, e, view) ELSE CancelStays(c, e, view)

After(c, e, view) ==
    IF c \in Places THEN PlaceAfter(c, e, view) ELSE Absent(e, view)

\* Mutant: an update reports the whole fill each time.
WholeFill(c, e, view) ==
    IF Current(c, e, view) THEN view.orders[c].filled ELSE 0

\* The fill an update of a place reports: what the order filled since the entry.
NewlyFilled(c, e, view) ==
    IF Current(c, e, view) /\ view.orders[c].filled > e.filled
    THEN view.orders[c].filled - e.filled ELSE 0

\* The update ends the order's story: a final status, or a refusal receipt.
ReportsFinal(c, e, view) ==
    HasUpdate(c, e, view) /\ ~Stays(c, e, view)

-----------------------------------------------------------------------------
(* A section against one view.                                             *)

Updated(section, view) ==
    {c \in Tracked(section) : HasUpdate(c, section.entries[c], view)}

Kept(section, view) ==
    {c \in Tracked(section) : Stays(c, section.entries[c], view)}

\* Tombstones that expire in this view (an expiry carries no update).
Expired(section, view) ==
    {c \in Tracked(section) :
        /\ ~Stays(c, section.entries[c], view)
        /\ Expires(section.entries[c], view)
        /\ ~Shows(c, view) /\ c \notin DOMAIN view.receipts
        /\ ~TargetIsFinal(c, section.entries[c], view)}

\* Entries the section may hold after delivery: a pruned entry comes back when
\* its update fails.  Over the bound, the decision fails (RunnerSectionFull).
HeldBack(section, view) == Kept(section, view) \cup Updated(section, view)

\* Mutant: any view adopts.
FreshAlways(section, view) == TRUE

\* Only a view newer than any the section has seen (or the first) adopts.
Fresh(section, view) == ~section.seeded \/ view.revision > section.newest

Adoptable(section, view) ==
    {o \in DOMAIN view.orders : /\ Fresh(section, view)
                                /\ ~Terminal(view.orders[o])
                                /\ o \notin Tracked(section)}

\* The orders adopted: all there is room for (in the view's order, which is not
\* modelled: any choice of that many).
Adoptions(section, view) ==
    LET room == MaxSectionEntries - Cardinality(HeldBack(section, view))
        all  == Adoptable(section, view)
    IN  {A \in SUBSET all :
            \/ A = all /\ Cardinality(all) <= room
            \/ Cardinality(all) > room /\ Cardinality(A) = room}

\* The entries as they stand if every update is handled.
DerivedEntries(section, view, adopted) ==
    [c \in Kept(section, view) \cup adopted |->
        IF c \in adopted THEN AdoptedEntry(c, view.orders[c], view.revision)
        ELSE After(c, section.entries[c], view)]

\* Live entries a failed update would bring back beyond the derived ones.
Reinstatable(section, view) ==
    {c \in Updated(section, view) :
        /\ ~section.entries[c].vanished
        /\ ~(/\ Stays(c, section.entries[c], view)
             /\ ~After(c, section.entries[c], view).vanished)}

-----------------------------------------------------------------------------
(* The end of a decision.  `failed` is a partial function of the updated   *)
(* commands: how the kernel failed on their updates.                       *)

Failure == {"Counted", "Deferred", "RolledBack", "Held"}

\* The consecutive deferral a put-off update would be.
Deferral(e) == e.deferrals + 1

\* The updates a cancel's update follows: its target's, or for a cancel-all any
\* place's (in the code those issued before it; issue order is not modelled here).
TargetUpdates(updated, entries, c) ==
    {o \in updated \cap Places : (c \in Cancels /\ entries[c].target = o) \/ c \in CancelAlls}

\* How the deliveries of the updates of one decision may fail, as a partial
\* function of them (UpdateDelivery.tla runs the loop that yields them).
OutcomesOf(updated, entries) ==
    LET FailedTarget(c, failed) ==
            \E o \in TargetUpdates(updated, entries, c) \cap DOMAIN failed :
                failed[o] \in {"Counted", "Deferred"}
        \* All or nothing: a kernel that cannot be restored undoes every update.
        RollsBackAll(failed) ==
            (\E c \in DOMAIN failed : failed[c] = "RolledBack") =>
                /\ DOMAIN failed = updated
                /\ \E c \in updated : failed[c] = "Counted"
        HoldsBehindTarget(failed) ==
            /\ \A c \in DOMAIN failed : failed[c] = "Held" =>
                  /\ c \notin Places /\ FailedTarget(c, failed)
                  /\ Deferral(entries[c]) < MaxDeliveryDeferrals
            /\ \A c \in updated \cap Cancels :
                  FailedTarget(c, failed) /\ Deferral(entries[c]) < MaxDeliveryDeferrals =>
                      c \in DOMAIN failed /\ failed[c] \in {"Held", "RolledBack"}
        \* Another update of the decision took the room; a cancel never defers
        \* into abandonment.
        DefersForRoom(failed) ==
            \A c \in DOMAIN failed : failed[c] = "Deferred" =>
                /\ c \in Places \/ Deferral(entries[c]) < MaxDeliveryDeferrals
                /\ \E d \in updated \ {c} : d \notin DOMAIN failed \/ failed[d] = "RolledBack"
    IN  {failed \in UNION {[F -> Failure] : F \in SUBSET updated} :
            RollsBackAll(failed) /\ HoldsBehindTarget(failed) /\ DefersForRoom(failed)}

DeliveryOutcomes(section, view) == OutcomesOf(Updated(section, view), section.entries)

\* Mutant: a failure is not counted.
AttemptsUncounted(e, failure) == e.failures

Attempts(e, failure) ==
    IF failure = "Counted" THEN e.failures + 1 ELSE e.failures

Deferrals(e, failure) ==
    CASE failure = "Counted" -> 0
      [] failure \in {"Deferred", "Held"} -> e.deferrals + 1
      [] failure = "RolledBack" -> e.deferrals

\* Mutant: one attempt and one deferral too many.
RetriedOnceMore(e, failure) ==
    /\ Attempts(e, failure) <= MaxDeliveryAttempts
    /\ Deferrals(e, failure) <= MaxDeliveryDeferrals

\* The update is delivered again: its entry stays as it was.
Retried(e, failure) ==
    /\ Attempts(e, failure) < MaxDeliveryAttempts
    /\ Deferrals(e, failure) < MaxDeliveryDeferrals

Reinstated(e, failure) ==
    [e EXCEPT !.failures = Attempts(e, failure), !.deferrals = Deferrals(e, failure)]

RetriedIn(section, failed) ==
    {c \in DOMAIN failed : Retried(section.entries[c], failed[c])}

\* Updates that count as seen though the kernel never handled them.
AbandonedIn(section, failed) ==
    {c \in DOMAIN failed : ~Retried(section.entries[c], failed[c])}

\* Tombstones whose order is back but whose update failed are evicted last.
Pending(section, failed) ==
    {c \in RetriedIn(section, failed) : section.entries[c].vanished}

\* The entry after delivery: an update that was handled resets the counters.
Settled(c, e, view) ==
    IF HasUpdate(c, e, view)
    THEN [After(c, e, view) EXCEPT !.failures = 0, !.deferrals = 0]
    ELSE After(c, e, view)

\* Mutant: an entry whose update failed is written as if it had been handled.
FinalEntriesAsSeen(section, view, failed, adopted, issued) ==
    [c \in RetriedIn(section, failed) \cup Kept(section, view)
               \cup adopted \cup DOMAIN issued |->
        IF c \in DOMAIN issued THEN issued[c]
        ELSE IF c \in adopted THEN AdoptedEntry(c, view.orders[c], view.revision)
        ELSE IF c \in Kept(section, view) THEN Settled(c, section.entries[c], view)
        ELSE Reinstated(section.entries[c], failed[c])]

\* The section's entries after delivery, before eviction.  `issued` holds the
\* entries of the decision's own commands.
FinalEntries(section, view, failed, adopted, issued) ==
    [c \in RetriedIn(section, failed) \cup Kept(section, view)
               \cup adopted \cup DOMAIN issued |->
        IF c \in DOMAIN issued THEN issued[c]
        ELSE IF c \in adopted THEN AdoptedEntry(c, view.orders[c], view.revision)
        ELSE IF c \in RetriedIn(section, failed)
             THEN Reinstated(section.entries[c], failed[c])
             ELSE Settled(c, section.entries[c], view)]

\* Tombstone c goes before tombstone d when there are too many.
EvictedBefore(entries, pending, c, d) ==
    \/ c \notin pending /\ d \in pending
    \/ /\ c \in pending <=> d \in pending
       /\ entries[c].vanishedAt < entries[d].vanishedAt

\* Mutant: tombstones are never evicted.
EvictionsOfNone(entries, pending) == {{}}

\* The sets of tombstones an end of decision may evict: as many as are over the
\* bound, none before an older one (ties are broken by issue order, which is
\* not modelled: any of them).
Evictions(entries, pending) ==
    LET all  == Tombstones(entries)
        over == Cardinality(all) - MaxTombstones
    IN  {E \in SUBSET all :
            /\ Cardinality(E) = IF over > 0 THEN over ELSE 0
            /\ \A c \in E, d \in all \ E : ~EvictedBefore(entries, pending, d, c)}

\* Mutant: whatever the view shows is acknowledged, tracked or not.
AcknowledgedAll(view, entries) ==
    DOMAIN view.receipts \cup {o \in DOMAIN view.orders : Terminal(view.orders[o])}

\* The receipts and terminal orders of the view the section no longer tracks.
Acknowledged(view, entries) ==
    {c \in DOMAIN view.receipts \cup
           {o \in DOMAIN view.orders : Terminal(view.orders[o])} : c \notin DOMAIN entries}

-----------------------------------------------------------------------------
(* What a checkpoint's section must satisfy to be read again.              *)

ValidEntry(c, e) ==
    /\ e.failures < MaxDeliveryAttempts
    /\ e.deferrals < MaxDeliveryDeferrals
    /\ ~e.vanished => e.vanishedAt = 0 /\ e.absent = 0
    /\ e.absent < TombstoneExpiryViews
    /\ c \in Places => e.target = c
    /\ c \notin Places => e.last = "None"
    /\ c \in Cancels => e.target \in Places
    /\ c \in CancelAlls => e.target = NoTarget

ValidSection(section) ==
    /\ Cardinality(Tracked(section)) <= MaxSectionEntries
    /\ Cardinality(Tombstones(section.entries)) <= MaxTombstones
    /\ \A c \in Tracked(section) : ValidEntry(c, section.entries[c])
=============================================================================
