---------------------------- MODULE DecisionHost ----------------------------
(***************************************************************************)
(* The host of one Decision V6 decision (kernel_v6.rs, KernelHost): what a *)
(* kernel's calls do to the decision while the order updates and the       *)
(* trigger run, what a failed update undoes, the checkpoint the decision   *)
(* ends with, and the contract's check of the result (decision_v6.rs,      *)
(* validate_decision_result_v6).                                           *)
(*                                                                         *)
(* The host counts as it goes (plan rows, provisional orders, marks of     *)
(* requested cancels, timer keys, runner entries, reserved cash) and       *)
(* refuses what does not fit; the check counts again from the result.      *)
(*                                                                         *)
(* An order is named by its client order id.  The calls' own terms         *)
(* (markets, prices, quantities, request bounds) and the result's size are *)
(* left out: a refused call changes nothing.                               *)
(***************************************************************************)
EXTENDS PlanRows, FiniteSets, SequencesExt

CONSTANTS
    Ids,                    \* client order ids
    Keys,                   \* timer keys
    Contexts,               \* the contexts a decision may be of
    MaxStrategyCommands,    \* MAX_STRATEGY_COMMANDS = 64
    MaxRequests,            \* MAX_OUTSTANDING_EXTERNAL_REQUESTS = 8
    MaxRunnerEntries,       \* MAX_RUNNER_ENTRIES = 256
    MaxTombstones,          \* MAX_TOMBSTONES = 32
    NoUpdate                \* no update is being delivered

ASSUME HostAssumption ==
    /\ IsFiniteSet(Ids)
    /\ MaxStrategyCommands \in Nat
    /\ MaxRequests \in Nat
    /\ MaxRunnerEntries \in Nat
    /\ MaxTombstones \in Nat
    /\ NoUpdate \notin Ids

VARIABLES
    context,    \* the decision's context after the comparison
    phase,      \* where the decision is
    due,        \* the updates left to deliver
    current,    \* the update being delivered
    failed,     \* the updates the kernel failed on
    abandoned,  \* those of them given up: the entry is pruned all the same
    host,       \* the decision so far
    saved,      \* the decision before the update being delivered
    checkpoint  \* the kernel checkpoint to keep

vars == <<context, phase, due, current, failed, abandoned, host, saved, checkpoint>>

CommandsOf(commands, kinds) == {i \in 1..Len(commands) : commands[i].kind \in kinds}

BrokerKinds == {"Place", "Cancel", "CancelAll"}

-----------------------------------------------------------------------------
(* The context and its checkpoint.                                         *)

\* `open` and `final` orders, all tracked; `refused` places whose receipt is in;
\* `hidden` places the section keeps as tombstones, for the view does not show them
\* (with an update: those this view is the first not to show); the orders with an
\* update; the cancels tracked.
Context ==
    [open : SUBSET Ids, final : SUBSET Ids, refused : SUBSET Ids, hidden : SUBSET Ids,
     updates : SUBSET Ids, waiting : Nat, complete : BOOLEAN, timers : BOOLEAN,
     requests : BOOLEAN, acknowledgeable : BOOLEAN, mode : Modes]

ASSUME ContextsAssumption == Contexts \subseteq Context

\* The checkpoint a decision starts from: its sequence (counted from there) and its
\* runner section, the entries before the comparison.  `issued` are the commands a
\* decision adds.
CheckpointOf(c) ==
    [sequence |-> 0,
     live     |-> c.open \cup c.final \cup c.refused \cup (c.hidden \cap c.updates),
     vanished |-> c.hidden \ c.updates,
     waiting  |-> c.waiting,
     issued   |-> <<>>]

\* The contract's check of a section: its bounds, and every place's client order id
\* once.  The counters' bounds are RunnerSection's; the entries' shapes are left out.
ValidSection(section) ==
    LET issued == section.issued
        places == CommandsOf(issued, {"Place"})
    IN  /\ Cardinality(section.live) + Cardinality(section.vanished) + section.waiting
               + Cardinality(CommandsOf(issued, BrokerKinds))
           <= MaxRunnerEntries + MaxTombstones
        /\ Cardinality(section.vanished) <= MaxTombstones
        /\ section.live \cap section.vanished = {}
        /\ \A i \in places : issued[i].client \notin section.live \cup section.vanished
        /\ \A i, j \in places : i # j => issued[i].client # issued[j].client

\* A command has an order or a receipt, never both; every final order and every
\* refusal of a tracked place is an update; the host keeps the open-order cap.
IsContext(c) ==
    /\ Cardinality(c.open) <= MaxOpenOrders(c.mode)
    /\ \A f, g \in {"open", "final", "refused", "hidden"} : f # g => c[f] \cap c[g] = {}
    /\ c.final \cup c.refused \subseteq c.updates
    /\ c.updates \subseteq c.open \cup c.final \cup c.refused \cup c.hidden
    /\ c.final \cup c.refused # {} => c.acknowledgeable
    /\ ValidSection(CheckpointOf(c))

\* The updates whose entry is pruned or becomes a tombstone: a failed one brings a
\* live entry back.
Reinstatable == context.final \cup context.refused \cup (context.hidden \cap context.updates)

-----------------------------------------------------------------------------
(* The decision so far.                                                    *)

\* A client order id derived from the command's ordinal, where the call names none.
DerivedId(ordinal) == <<"tv3", ordinal>>
Unnamed == DerivedId(-1)

Client(c, ordinal) == IF c = Unnamed THEN DerivedId(ordinal) ELSE c

HostStart(c) ==
    [commands    |-> <<>>,
     provisional |-> [id \in {} |-> [cancelling |-> FALSE, commitment |-> 0]],
     marked      |-> {},
     plan        |-> EmptyPlan(c.mode, Cardinality(c.open)),
     timers      |-> {},
     entries     |-> 0,
     reserved    |-> 0]

Ordinal == Len(host.commands)
Placed == DOMAIN host.provisional

Running == phase \in {"Handling", "Trigger"}
OrdinalLeft == Ordinal < MaxStrategyCommands

\* Mutant: entries a failed update could bring back are not counted.
EntryLeftNow ==
    Cardinality(context.open) + context.waiting + host.entries < MaxRunnerEntries

\* Room for one more live entry, also if every update fails.
EntryLeft ==
    Cardinality(context.open) + context.waiting + host.entries
        + Cardinality(Reinstatable) < MaxRunnerEntries

\* A Broker command is admitted against the plan rows and the live entries.
BrokerCommandFits(plan) ==
    /\ Fits(plan, context.acknowledgeable)
    /\ EntryLeft

\* Mutant: the decision's own places do not count against the cap.
CapLeftInContext == Cardinality(context.open) < MaxOpenOrders(context.mode)

CapLeft == Cardinality(context.open) + Cardinality(Placed) < MaxOpenOrders(context.mode)

\* Mutant: an id is looked up among the decision's orders and the context's only.
InUseInView(id) == id \in Placed \cup context.open \cup context.final

\* An id used by an order of the decision, the context or the compared section.
InUse(id) == id \in Placed \cup context.open \cup context.final \cup context.hidden

Place(c, commitment) ==
    LET id      == Client(c, Ordinal)
        command == [kind |-> "Place", id |-> Ordinal, client |-> id]
    IN  /\ Running /\ OrdinalLeft /\ CapLeft
        /\ ~InUse(id)
        /\ BrokerCommandFits(WithPlace(host.plan))
        /\ host' = [host EXCEPT
                !.commands = Append(@, command),
                !.provisional = [o \in Placed \cup {id} |->
                    IF o = id THEN [cancelling |-> FALSE, commitment |-> commitment] ELSE @[o]],
                !.plan = WithPlace(@),
                !.entries = @ + 1,
                !.reserved = @ + commitment]
        /\ UNCHANGED <<context, phase, due, current, failed, abandoned, saved, checkpoint>>

CancelOwn(id) ==
    LET command == [kind |-> "Cancel", id |-> Ordinal, client |-> id, own |-> TRUE]
    IN  /\ Running /\ OrdinalLeft
        /\ id \in Placed
        /\ BrokerCommandFits(WithCancel(host.plan, FALSE))
        /\ host' = [host EXCEPT
                !.commands = Append(@, command),
                !.provisional[id].cancelling = TRUE,
                !.plan = WithCancel(@, FALSE),
                !.entries = @ + 1]
        /\ UNCHANGED <<context, phase, due, current, failed, abandoned, saved, checkpoint>>

CancelOrder(id) ==
    LET command == [kind |-> "Cancel", id |-> Ordinal, client |-> id, own |-> FALSE]
    IN  /\ Running /\ OrdinalLeft
        /\ id \notin Placed
        /\ id \in context.open \cup context.final
        /\ BrokerCommandFits(WithCancel(host.plan, id \in context.final))
        /\ host' = [host EXCEPT
                !.commands = Append(@, command),
                !.marked = @ \cup {id},
                !.plan = WithCancel(@, id \in context.final),
                !.entries = @ + 1]
        /\ UNCHANGED <<context, phase, due, current, failed, abandoned, saved, checkpoint>>

CancelAll ==
    LET command == [kind |-> "CancelAll", id |-> Ordinal]
    IN  /\ Running /\ context.complete /\ OrdinalLeft
        /\ BrokerCommandFits(WithCancelAll(host.plan))
        /\ host' = [host EXCEPT
                !.commands = Append(@, command),
                !.provisional = [id \in Placed |-> [@[id] EXCEPT !.cancelling = TRUE]],
                !.marked = @ \cup context.open,
                !.plan = WithCancelAll(@),
                !.entries = @ + 1]
        /\ UNCHANGED <<context, phase, due, current, failed, abandoned, saved, checkpoint>>

\* Mutant: a key may be named again.
AnyKey(key) == TRUE

KeyFree(key) == key \notin host.timers

\* A timer is scheduled or cancelled, one call per key and decision.
Timer(kind, key) ==
    /\ Running /\ context.timers
    /\ KeyFree(key)
    /\ OrdinalLeft
    /\ host' = [host EXCEPT
            !.commands = Append(@, [kind |-> kind, id |-> Ordinal, key |-> key]),
            !.timers = @ \cup {key}]
    /\ UNCHANGED <<context, phase, due, current, failed, abandoned, saved, checkpoint>>

Count(commands, kind) == Cardinality({i \in 1..Len(commands) : commands[i].kind = kind})

Request ==
    /\ Running /\ context.requests
    /\ Count(host.commands, "Request") < MaxRequests
    /\ OrdinalLeft
    /\ host' = [host EXCEPT !.commands = Append(@, [kind |-> "Request", id |-> Ordinal])]
    /\ UNCHANGED <<context, phase, due, current, failed, abandoned, saved, checkpoint>>

Stop ==
    /\ Running /\ OrdinalLeft
    /\ host' = [host EXCEPT !.commands = Append(@, [kind |-> "Stop", id |-> Ordinal])]
    /\ UNCHANGED <<context, phase, due, current, failed, abandoned, saved, checkpoint>>

-----------------------------------------------------------------------------
(* The updates and the trigger.                                            *)

BeginUpdate(id) ==
    /\ phase = "Updates" /\ id \in due
    /\ due' = due \ {id}
    /\ current' = id
    /\ saved' = host
    /\ phase' = "Handling"
    /\ UNCHANGED <<context, failed, abandoned, host, checkpoint>>

\* A failed update is told again by a later decision, or this was its last attempt and
\* it is given up (noted where its entry would else come back).
GivesUpOrNot(id) == abandoned' \in {abandoned, abandoned \cup ({id} \cap Reinstatable)}

\* The update is held, or the kernel's state cannot be saved before it.
SkipUpdate(id) ==
    /\ phase = "Updates" /\ id \in due
    /\ due' = due \ {id}
    /\ failed' = failed \cup {id}
    /\ GivesUpOrNot(id)
    /\ UNCHANGED <<context, phase, current, host, saved, checkpoint>>

UpdateEnds == phase = "Handling" /\ phase' = "Updates" /\ current' = NoUpdate

Handled ==
    /\ UpdateEnds
    /\ UNCHANGED <<context, due, failed, abandoned, host, saved, checkpoint>>

\* Mutant: the plan rows of a failed update stay.
RestoredButPlan == [saved EXCEPT !.plan = host.plan]

\* Mutant: the runner entries of a failed update stay.
RestoredButEntries == [saved EXCEPT !.entries = host.entries]

\* Mutant: the plan rows of the updates handled before are forgotten.
RestoredPlanOfStart == [saved EXCEPT !.plan = HostStart(context).plan]

\* A failed update's calls are undone.
Restored == saved

Fails ==
    /\ UpdateEnds
    /\ host' = Restored
    /\ failed' = failed \cup {current}
    /\ GivesUpOrNot(current)
    /\ UNCHANGED <<context, due, saved, checkpoint>>

\* The kernel cannot be restored: the decision goes back to its start, and every
\* update that had not failed is told again.
CannotRestore ==
    /\ UpdateEnds
    /\ host' = HostStart(context)
    /\ failed' = context.updates
    /\ due' = {}
    /\ GivesUpOrNot(current)
    /\ UNCHANGED <<context, saved, checkpoint>>

TriggerBegins ==
    /\ phase = "Updates" /\ due = {}
    /\ phase' = "Trigger"
    /\ UNCHANGED <<context, due, current, failed, abandoned, host, saved, checkpoint>>

\* The entries that failed updates bring back.
Reinstated == Reinstatable \cap (failed \ abandoned)

\* Mutant: no tombstone is evicted.
EvictedNone(tombstones) == {tombstones}

\* Of the tombstones, as many as the section keeps; which are older is left open.
Evicted(tombstones) ==
    {kept \in SUBSET tombstones :
        IF Cardinality(tombstones) <= MaxTombstones THEN kept = tombstones
        ELSE Cardinality(kept) = MaxTombstones}

\* The trigger completes the decision and its checkpoint, or rejects it, drops its
\* commands and keeps the checkpoint it started from.
TriggerEnds ==
    /\ phase = "Trigger"
    /\ \/ /\ phase' = "Completed"
          /\ \E vanished \in Evicted(context.hidden \ Reinstated) :
                checkpoint' = [checkpoint EXCEPT
                    !.sequence = @ + 1,
                    !.live     = context.open \cup Reinstated,
                    !.vanished = vanished,
                    !.issued   = host.commands]
          /\ UNCHANGED host
       \/ /\ phase' = "Rejected"
          /\ host' = HostStart(context)
          /\ UNCHANGED checkpoint
    /\ UNCHANGED <<context, due, current, failed, abandoned, saved>>

Init ==
    /\ context \in {c \in Contexts : IsContext(c)}
    /\ phase = "Updates"
    /\ due = context.updates
    /\ current = NoUpdate
    /\ failed = {} /\ abandoned = {}
    /\ host = HostStart(context)
    /\ saved = HostStart(context)
    /\ checkpoint = CheckpointOf(context)

Next ==
    \/ \E id \in Ids : BeginUpdate(id) \/ SkipUpdate(id)
    \/ Handled \/ Fails \/ CannotRestore \/ TriggerBegins \/ TriggerEnds
    \/ \E c \in Ids \cup {Unnamed}, commitment \in 0..1 : Place(c, commitment)
    \/ \E id \in Ids \cup Placed : CancelOwn(id) \/ CancelOrder(id)
    \/ CancelAll
    \/ \E key \in Keys, kind \in {"ScheduleTimer", "CancelTimer"} : Timer(kind, key)
    \/ Request \/ Stop

Spec == Init /\ [][Next]_vars

-----------------------------------------------------------------------------
(* The contract's check of the result.                                     *)

PlanAfter(c, plan, command) ==
    CASE command.kind = "Place" -> WithPlace(plan)
      [] command.kind = "Cancel" ->
             WithCancel(plan, ~command.own /\ command.client \in c.final)
      [] command.kind = "CancelAll" -> WithCancelAll(plan)
      [] OTHER -> plan

\* The plan counted again, command by command.
PlanOf(c, commands) ==
    LET plan[n \in 0..Len(commands)] ==
            IF n = 0 THEN EmptyPlan(c.mode, Cardinality(c.open))
            ELSE PlanAfter(c, plan[n - 1], commands[n])
    IN  plan[Len(commands)]

TimerKinds == {"ScheduleTimer", "CancelTimer"}

\* Each place and each timer key once.
NamedOnce(commands) ==
    /\ \A i, j \in CommandsOf(commands, {"Place"}) :
           i # j => commands[i].client # commands[j].client
    /\ \A i, j \in CommandsOf(commands, TimerKinds) :
           i # j => commands[i].key # commands[j].key

TargetsExist(c, commands) ==
    \A i \in CommandsOf(commands, {"Cancel"}) :
        IF commands[i].own
        THEN \E j \in CommandsOf(commands, {"Place"}) :
                 j < i /\ commands[j].client = commands[i].client
        ELSE commands[i].client \in c.open \cup c.final

Granted(c, commands) ==
    /\ CommandsOf(commands, TimerKinds) # {} => c.timers
    /\ CommandsOf(commands, {"Request"}) # {} => c.requests
    /\ CommandsOf(commands, {"CancelAll"}) # {} => c.complete

\* A completed decision's checkpoint follows the context's, a rejected one's is it.
ValidTransition(c, disposition, output) ==
    /\ ValidSection(output)
    /\ disposition = "Completed" => output.sequence = CheckpointOf(c).sequence + 1
    /\ disposition = "Rejected" => output = CheckpointOf(c)

\* The identities, the fence, the checkpoint's profile and seal, the acknowledged ids,
\* the commands' terms and the sizes are left out.
PassesTheContract(c, disposition, commands, output, acknowledges) ==
    /\ ValidTransition(c, disposition, output)
    /\ Len(commands) <= MaxStrategyCommands
    /\ \A i \in 1..Len(commands) : commands[i].id = i - 1
    /\ Cardinality(CommandsOf(commands, {"Request"})) <= MaxRequests
    /\ NamedOnce(commands)
    /\ TargetsExist(c, commands)
    /\ Granted(c, commands)
    /\ Fits(PlanOf(c, commands), acknowledges)
    /\ CommandsOf(commands, {"Place"}) # {} =>
           Cardinality(c.open) + Cardinality(CommandsOf(commands, {"Place"}))
               <= MaxOpenOrders(c.mode)

-----------------------------------------------------------------------------
(* Properties.                                                             *)

\* What the host counts stays within what its commands allow, now and in what a failed
\* update goes back to; the updates still due are none that failed.
\* (KernelHost's fields; run_transaction.)
TypeOK ==
    /\ IsContext(context)
    /\ phase \in {"Updates", "Handling", "Trigger", "Completed", "Rejected"}
    /\ due \subseteq context.updates /\ failed \subseteq context.updates \ due
    /\ current \in (context.updates \ due) \cup {NoUpdate}
    /\ \A h \in {host, saved} :
          /\ h.plan \in Plan
          /\ h.marked \subseteq Ids /\ h.timers \subseteq Keys
          /\ h.entries \in 0..Len(h.commands) /\ h.reserved \in 0..h.entries
    /\ abandoned \subseteq failed \cap Reinstatable
    /\ checkpoint.sequence = IF phase = "Completed" THEN 1 ELSE 0

\* A completed decision places an order under the id of a place whose refusal the
\* kernel failed on and is to be told again.
ReusesRefused ==
    phase = "Completed" /\ Placed \cap context.refused \cap (failed \ abandoned) # {}

\* However the kernel's calls, failures and restores interleave, and whatever entries
\* failures bring back and eviction drops, the result of an ended decision, its
\* checkpoint with it, passes the contract's own check, with or without
\* acknowledgements (run_transaction does not fail on the runner's own result): but for
\* one kind of decision, which the check refuses, the one that places an order under
\* the id of a refused place whose refusal is to be told again.
ResultIsValid ==
    /\ phase \in {"Completed", "Rejected"} =>
           \A acknowledges \in {FALSE, context.acknowledgeable} :
               PassesTheContract(context, phase, host.commands, checkpoint, acknowledges)
                   <=> ~ReusesRefused
    /\ phase = "Rejected" => host.commands = <<>>

\* An own order is being cancelled just if a later command cancels it.
OrdersFollow(h) ==
    LET commands == h.commands
        places   == CommandsOf(commands, {"Place"})
        Cancelled(i) == \E j \in CommandsOf(commands, {"Cancel", "CancelAll"}) :
            j > i /\ (commands[j].kind = "Cancel" => commands[j].client = commands[i].client)
    IN  /\ DOMAIN h.provisional = {commands[i].client : i \in places}
        /\ \A i \in places :
               h.provisional[commands[i].client].cancelling <=> Cancelled(i)

MarksFollow(c, h) ==
    LET commands == h.commands
    IN  h.marked =
            {commands[i].client : i \in {j \in CommandsOf(commands, {"Cancel"}) : ~commands[j].own}}
            \cup IF CommandsOf(commands, {"CancelAll"}) # {} THEN c.open ELSE {}

\* A commitment is 0 or 1.
CountsFollow(h) ==
    /\ h.timers = {h.commands[i].key : i \in CommandsOf(h.commands, TimerKinds)}
    /\ h.entries = Cardinality(CommandsOf(h.commands, BrokerKinds))
    /\ h.reserved = Cardinality({id \in DOMAIN h.provisional :
                                    h.provisional[id].commitment = 1})

FollowsCommands(c, h) ==
    /\ h.plan = PlanOf(c, h.commands)
    /\ OrdersFollow(h) /\ MarksFollow(c, h) /\ CountsFollow(h)

\* At any time, what the host keeps beside the commands is what the commands say:
\* nothing of a failed update stays, and an own order shows as being cancelled just
\* if a later command cancels it.
HostFollowsCommands == FollowsCommands(context, host)

\* Once the decision has issued Broker commands, the live entries stay within their
\* bound even if every failed update brings its entry back.
LiveEntriesFit ==
    host.entries > 0 =>
        Cardinality(context.open) + context.waiting + host.entries
            + Cardinality(Reinstatable \cap failed) <= MaxRunnerEntries

\* A Strategy can always pull out: over every open order a Sleeve may hold, a
\* cancel-all that comes before the decision's other Broker commands fits the plan.
CancelAllFitsFirst ==
    host.entries = 0 => Fits(WithCancelAll(host.plan), context.acknowledgeable)

\* The documented promise: within the open-order cap, the decision's places included,
\* a cancel-all over every open order always fits the plan.
CancelAllAlwaysFits ==
    (\A i \in 1..Len(host.commands) : host.commands[i].kind = "Place") =>
        Fits(WithCancelAll(host.plan), context.acknowledgeable)

\* The documented promise: an id used by an order of the context, the runner section or
\* the decision is refused, so no place of a completed decision has the id of a place
\* its checkpoint tracks.
PlaceIdsAreUnique ==
    phase = "Completed" => Placed \cap (checkpoint.live \cup checkpoint.vanished) = {}
=============================================================================
