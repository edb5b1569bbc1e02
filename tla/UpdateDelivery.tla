--------------------------- MODULE UpdateDelivery ---------------------------
(***************************************************************************)
(* The delivery loop of a decision: run_transaction hands the derived      *)
(* updates to the kernel one by one, undoes the ones it fails on, and      *)
(* writes the failures into the section, decision after decision.          *)
(*                                                                         *)
(* Every tracked command has one update here, outstanding until a          *)
(* completed decision has it handled or abandoned.  The kernel is a        *)
(* counter per command of the updates it handled; it is changed as soon as *)
(* its handler starts, so an update that fails leaves nothing behind only  *)
(* if it is undone.  A command issued by a handler takes some of the       *)
(* decision's room (plan rows); the trigger's own commands are left out.   *)
(***************************************************************************)
EXTENDS OrderUpdates, SequencesExt

CONSTANTS
    Target,     \* Target[k]: the place the cancel k names
    Room,       \* the room of a decision for commands, MAX_DECISION_PLAN_ROWS = 512
    Costs       \* the room one command takes: 5 for a place, 3 for a cancel

ASSUME DeliveryAssumption ==
    /\ Target \in [Cancels -> Places]
    /\ Room \in Nat \ {0}
    /\ Costs \in SUBSET (1..Room)

VARIABLES
    order,      \* the commands in issue order
    entries,    \* the section's entries whose update is outstanding
    committed,  \* the checkpointed kernel
    abandoned,  \* updates counted as seen though the kernel never handled them
    phase,      \* between decisions, between updates, or inside the kernel's handler
    updated,    \* the commands with an update in this decision
    todo,       \* the deliveries left, each with "is it the first of its unit"
    failed,     \* how the kernel failed on the updates so far
    kernel,     \* the kernel as it is now
    commands,   \* the commands issued so far
    rows,       \* the room they take
    saved,      \* the kernel, the commands and their room before the update being delivered
    unitStart,  \* the number of commands when the delivery unit began
    refusal     \* the last refusal for room the handler met

section == <<order, entries, committed, abandoned>>
loop == <<updated, todo, failed, kernel, commands, rows, saved, unitStart, refusal>>
vars == <<section, phase, loop>>

NotStarted == -1
NoneFailed == [c \in {} |-> "Counted"]

-----------------------------------------------------------------------------
(* The delivery order.                                                     *)

IssuedBefore(c, d) == \E i, j \in DOMAIN order : i < j /\ order[i] = c /\ order[j] = d

\* The updates the update of c follows: a cancel-all's are of the places issued before it.
Targets(updates, c) ==
    {o \in TargetUpdates(updates, entries, c) :
        c \in CancelAlls => IssuedBefore(o, c)}

\* The most deferred updates first, then in issue order.
Earlier(c, d) ==
    \/ entries[c].deferrals > entries[d].deferrals
    \/ entries[c].deferrals = entries[d].deferrals /\ IssuedBefore(c, d)

\* The updates that would have c delivered: itself and the cancels it is a target of.
Pullers(updates, c) == {d \in updates : d = c \/ c \in Targets(updates, d)}

\* The first of these: c is delivered just before it, in its delivery unit.
Leader(updates, c) ==
    CHOOSE d \in Pullers(updates, c) :
        \A e \in Pullers(updates, c) : e = d \/ Earlier(d, e)

\* Unit by unit, and within a unit the targets in issue order before their cancel.
Precedes(updates, c, d) ==
    LET unit  == Leader(updates, c)
        other == Leader(updates, d)
    IN  \/ Earlier(unit, other)
        \/ /\ unit = other /\ c # unit
           /\ d = unit \/ IssuedBefore(c, d)

\* Mutant: the updates in issue order, however often they were deferred.
IssueOrder(updates) ==
    [i \in 1..Cardinality(updates) |->
        CHOOSE c \in updates :
            Cardinality({d \in updates : IssuedBefore(d, c)}) = i - 1]

\* The order of the deliveries: an update comes after as many as precede it.
DeliveryOrder(updates) ==
    [i \in 1..Cardinality(updates) |->
        CHOOSE c \in updates :
            Cardinality({d \in updates : Precedes(updates, d, c)}) = i - 1]

Deliveries(updates, queue) ==
    [i \in 1..Len(queue) |->
        [command |-> queue[i],
         first   |-> i = 1 \/ Leader(updates, queue[i - 1]) # Leader(updates, queue[i])]]

Orderings == {s \in [1..Cardinality(Commands) -> Commands] : ToSet(s) = Commands}

Init ==
    /\ order \in Orderings
    /\ entries = [c \in Commands |->
                    IssuedEntry(CASE c \in Places -> c
                                  [] c \in Cancels -> Target[c]
                                  [] OTHER -> NoTarget, 0)]
    /\ committed = [c \in Commands |-> 0]
    /\ abandoned = {}
    /\ phase = "Between decisions"
    /\ updated = {} /\ todo = <<>> /\ failed = NoneFailed
    /\ kernel = committed /\ commands = <<>> /\ rows = 0
    /\ saved = [kernel |-> committed, commands |-> <<>>, rows |-> 0]
    /\ unitStart = NotStarted /\ refusal = "None"

-----------------------------------------------------------------------------
(* The loop.                                                               *)

\* A decision starts: its view may show any of the outstanding updates.
Begin ==
    /\ phase = "Between decisions"
    /\ \E updates \in SUBSET DOMAIN entries :
          /\ updated' = updates
          /\ todo' = Deliveries(updates, DeliveryOrder(updates))
    /\ phase' = "Delivering"
    /\ failed' = NoneFailed
    /\ kernel' = committed /\ commands' = <<>> /\ rows' = 0
    /\ saved' = [kernel |-> committed, commands |-> <<>>, rows |-> 0]
    /\ unitStart' = NotStarted /\ refusal' = "None"
    /\ UNCHANGED section

NextUpdate == todo[1].command

\* An update of a target failed in this decision.
OutOfOrder(c) == \E o \in Targets(updated, c) : o \in DOMAIN failed

\* Mutant: a cancel is held at the deferral bound too.
HeldAtTheBound(c) == OutOfOrder(c)

\* A cancel's update waits for its target's, but not up to the deferral bound.
MustWait(c) == OutOfOrder(c) /\ Deferral(entries[c]) < MaxDeliveryDeferrals

FailsWith(c, failure) ==
    [d \in DOMAIN failed \cup {c} |-> IF d = c THEN failure ELSE failed[d]]

\* A new unit forgets where the last one began.
UnitSoFar == IF todo[1].first THEN NotStarted ELSE unitStart

Skips(failure) ==
    /\ failed' = FailsWith(NextUpdate, failure)
    /\ todo' = Tail(todo)
    /\ unitStart' = UnitSoFar
    /\ UNCHANGED <<section, phase, updated, kernel, commands, rows, saved, refusal>>

Hold ==
    /\ phase = "Delivering" /\ todo # <<>>
    /\ MustWait(NextUpdate)
    /\ Skips("Held")

\* The kernel's state cannot be saved: the update is not delivered.
SnapshotFails ==
    /\ phase = "Delivering" /\ todo # <<>>
    /\ ~MustWait(NextUpdate)
    /\ Skips("Counted")

\* The kernel's handler starts on the update.
Deliver ==
    /\ phase = "Delivering" /\ todo # <<>>
    /\ ~MustWait(NextUpdate)
    /\ saved' = [kernel |-> kernel, commands |-> commands, rows |-> rows]
    /\ unitStart' = IF UnitSoFar = NotStarted THEN Len(commands) ELSE UnitSoFar
    /\ refusal' = "None"
    /\ kernel' = [kernel EXCEPT ![NextUpdate] = @ + 1]
    /\ phase' = "Handling"
    /\ UNCHANGED <<section, updated, todo, failed, commands, rows>>

Taken(issued) == FoldLeft(LAMBDA sum, command : sum + command.cost, 0, issued)

\* Mutant: any refusal for room defers the update.
AnyRefusal(cost) == TRUE

\* The call would fit if the decision held only the unit's own commands, and
\* earlier units issued some.
FitsAlone(cost) ==
    /\ unitStart > 0
    /\ Taken(SubSeq(commands, unitStart + 1, Len(commands))) + cost <= Room

\* Mutant: a command is admitted if the commands before it fit.
FitsBefore(cost) == rows <= Room

Fits(cost) == rows + cost <= Room

\* The handler issues a command, or is refused for room.
Issue(cost) ==
    /\ phase = "Handling"
    /\ IF Fits(cost)
       THEN /\ commands' = Append(commands, [by |-> NextUpdate, cost |-> cost])
            /\ rows' = rows + cost
            /\ UNCHANGED refusal
       ELSE /\ refusal' = IF FitsAlone(cost) THEN "Deferrable" ELSE "Final"
            /\ UNCHANGED <<commands, rows>>
    /\ UNCHANGED <<section, phase, updated, todo, failed, kernel, saved, unitStart>>

\* The handler returns without an error (it may have swallowed a refusal).
Handled ==
    /\ phase = "Handling"
    /\ phase' = "Delivering"
    /\ todo' = Tail(todo)
    /\ UNCHANGED <<section, updated, failed, kernel, commands, rows, saved, unitStart, refusal>>

\* Mutant: a cancel may be deferred up to the bound.
NeverAtBound(c) == FALSE

CancelAtBound(c) == c \notin Places /\ Deferral(entries[c]) >= MaxDeliveryDeferrals

\* Mutant: the commands of a failed update stay in the decision.
UndoneKernelOnly == /\ kernel' = saved.kernel
                    /\ UNCHANGED <<commands, rows>>

\* Mutant: the kernel keeps what the failed handler did.
UndoneCommandsOnly == /\ commands' = saved.commands /\ rows' = saved.rows
                      /\ UNCHANGED kernel

Undone == /\ kernel' = saved.kernel
          /\ commands' = saved.commands /\ rows' = saved.rows

\* The handler returns an error: the refusal itself, or another one.
Fails(returnsRefusal) ==
    /\ phase = "Handling"
    /\ returnsRefusal => refusal # "None"
    /\ Undone
    /\ failed' = FailsWith(NextUpdate, IF /\ returnsRefusal /\ refusal = "Deferrable"
                                     /\ ~CancelAtBound(NextUpdate)
                                  THEN "Deferred" ELSE "Counted")
    /\ phase' = "Delivering"
    /\ todo' = Tail(todo)
    /\ UNCHANGED <<section, updated, saved, unitStart, refusal>>

\* Every update not yet failed is delivered again, whether handled or not.
RollsBack(c) ==
    [d \in updated |-> IF d = c THEN "Counted"
                       ELSE IF d \in DOMAIN failed THEN failed[d] ELSE "RolledBack"]

\* The handler fails and the kernel cannot be restored after it: the decision
\* goes back to its start, and no other update is delivered in it.
CannotRestore ==
    /\ phase = "Handling"
    /\ kernel' = committed /\ commands' = <<>> /\ rows' = 0
    /\ failed' = RollsBack(NextUpdate)
    /\ phase' = "Delivering"
    /\ todo' = <<>>
    /\ UNCHANGED <<section, updated, saved, unitStart, refusal>>

-----------------------------------------------------------------------------
(* The end of the decision.                                                *)

Ends ==
    /\ phase' = "Between decisions"
    /\ updated' = {} /\ todo' = <<>> /\ failed' = NoneFailed
    /\ kernel' = committed' /\ commands' = <<>> /\ rows' = 0
    /\ saved' = [kernel |-> committed', commands |-> <<>>, rows |-> 0]
    /\ unitStart' = NotStarted /\ refusal' = "None"

\* The trigger's event completes the decision: the failures go into the entries.
Completes ==
    /\ phase = "Delivering" /\ todo = <<>>
    /\ LET outstanding == [entries |-> entries]
       IN  /\ entries' = [c \in (DOMAIN entries \ updated) \cup RetriedIn(outstanding, failed) |->
                            IF c \in updated THEN Reinstated(entries[c], failed[c])
                            ELSE entries[c]]
           /\ abandoned' = abandoned \cup AbandonedIn(outstanding, failed)
    /\ committed' = kernel
    /\ UNCHANGED order
    /\ Ends

\* The trigger's event is rejected, its result is not valid, or the durable write
\* fails: nothing of the decision happened.
Rejects ==
    /\ phase = "Delivering" /\ todo = <<>>
    /\ UNCHANGED section
    /\ Ends

\* Not even the decision's start can be restored: the decision fails.
StartLost ==
    /\ phase = "Handling"
    /\ UNCHANGED section
    /\ Ends

Return == Handled \/ (\E returnsRefusal \in BOOLEAN : Fails(returnsRefusal)) \/ CannotRestore

Next ==
    \/ Begin \/ Hold \/ SnapshotFails \/ Deliver
    \/ \E cost \in Costs : Issue(cost)
    \/ Return
    \/ Completes \/ Rejects \/ StartLost

Spec == Init /\ [][Next]_vars

\* The host keeps running decisions, the kernel's handlers return, and not every
\* decision is rejected.
FairSpec ==
    /\ Spec
    /\ WF_vars(Begin) /\ WF_vars(Hold \/ SnapshotFails \/ Deliver) /\ WF_vars(Return)
    /\ SF_vars(Completes)

-----------------------------------------------------------------------------
(* Properties.                                                             *)

Issued == [by : Commands, cost : Costs]

\* What is delivered, failed or given up is of the section, and the commands of a decision
\* never take more than the room.
TypeOK ==
    /\ order \in Orderings
    /\ IsPartial(entries, Commands, Entry)
    /\ abandoned \subseteq Commands \ DOMAIN entries
    /\ phase \in {"Between decisions", "Delivering", "Handling"}
    /\ updated \subseteq DOMAIN entries
    /\ {todo[i].command : i \in 1..Len(todo)} \subseteq updated
    /\ IsPartial(failed, updated, Failure)
    /\ {committed, kernel, saved.kernel} \subseteq [Commands -> 0..2]
    /\ {commands, saved.commands} \subseteq Seq(Issued)
    /\ {rows, saved.rows} \subseteq 0..Room
    /\ unitStart \in NotStarted..Room
    /\ refusal \in {"None", "Final", "Deferrable"}

\* A cancel's update is never handed to the kernel before its target's: every
\* update of a target due in the decision was handled in it before, or failed and
\* the cancel waited for it as long as it may.
CancelsFollowTargets ==
    phase = "Handling" =>
        \A o \in Targets(updated, NextUpdate) :
            \/ o \notin DOMAIN failed /\ kernel[o] = committed[o] + 1
            \/ o \in DOMAIN failed /\ Deferral(entries[NextUpdate]) >= MaxDeliveryDeferrals

\* All or nothing: between two updates of a decision, the kernel has handled just
\* the updates delivered without a failure, and every command of the decision was
\* issued by one of those.
FailuresLeaveNothing ==
    phase = "Delivering" =>
        LET delivered == updated \ ({todo[i].command : i \in 1..Len(todo)} \cup DOMAIN failed)
        IN  /\ kernel = [c \in Commands |-> committed[c] + IF c \in delivered THEN 1 ELSE 0]
            /\ \A i \in 1..Len(commands) : commands[i].by \in delivered

\* Over all decisions, the kernel a checkpoint holds has handled an update exactly
\* once or, if it was abandoned or is outstanding, never.
HandledExactlyOnce ==
    \A c \in Commands :
        committed[c] = IF c \in abandoned \cup DOMAIN entries THEN 0 ELSE 1

\* What the loop ends with is what the section's model lets a decision end with.
OutcomesAsAssumed ==
    phase = "Delivering" /\ todo = <<>> => failed \in OutcomesOf(updated, entries)

\* A cancel's update is abandoned for its counted failures only, never for the
\* decisions it waited behind its targets or for room.
CancelsAreNotDeferredOut ==
    [][\A c \in abandoned' \ abandoned :
          c \notin Places => /\ failed[c] = "Counted"
                             /\ entries[c].failures + 1 = MaxDeliveryAttempts]_vars

\* The documented promise: contenders for the same room take turns and none starves,
\* so no update waits for room in one decision more than the deferrals allow.
NoneStarves ==
    phase = "Delivering" =>
        \A c \in DOMAIN failed : failed[c] = "Deferred" => Retried(entries[c], failed[c])

\* An update deferred most often comes before every less deferred one that is not
\* its target: it cannot be refused for the room of their commands.
MostDeferredFirst ==
    phase = "Handling" =>
        \A c \in {todo[i].command : i \in 2..Len(todo)} :
            \/ entries[c].deferrals <= entries[NextUpdate].deferrals
            \/ \E d \in updated \ Places :
                  /\ NextUpdate \in Targets(updated, d)
                  /\ entries[d].deferrals >= entries[c].deferrals

ViewsSettle == <>[][Begin => updated' = DOMAIN entries]_vars

StartsAreRestored == <>[][~StartLost]_vars

\* Once the views show every outstanding update, each is handled or abandoned,
\* however the kernel fails: none is deferred, held or rolled back forever.
EveryUpdateSettles ==
    ViewsSettle /\ StartsAreRestored => <>(DOMAIN entries = {})
=============================================================================
