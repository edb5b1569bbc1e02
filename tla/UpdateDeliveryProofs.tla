------------------------ MODULE UpdateDeliveryProofs ------------------------
(***************************************************************************)
(* Proofs about UpdateDelivery, for every set of commands, issue order,    *)
(* limit and room: the delivery order, what the loop undoes and holds, and *)
(* that over all decisions every update is handled at most once.           *)
(***************************************************************************)
EXTENDS UpdateDelivery, OrderLemmas

-----------------------------------------------------------------------------
(* The delivery order.                                                     *)

\* Commands are in issue order, one after the other.
LEMMA IssueOrderIsTotal ==
    ASSUME order \in Orderings
    PROVE  /\ \A c : ~IssuedBefore(c, c)
           /\ \A c, d, e : IssuedBefore(c, d) /\ IssuedBefore(d, e) => IssuedBefore(c, e)
           /\ \A c, d \in Commands : c = d \/ IssuedBefore(c, d) \/ IssuedBefore(d, c)
<1> DEFINE n == Cardinality(Commands)
<1>1. n \in Nat /\ IsFiniteSet(1..n) /\ Cardinality(1..n) = n
    <2>1. n \in Nat
        BY CommandsAssumption, FS_CardinalityType
    <2> HIDE DEF n
    <2> QED BY <2>1, FS_Interval
<1>2. order \in [1..n -> Commands] /\ \A c \in Commands : \E i \in 1..n : order[i] = c
    BY DEF Orderings, ToSet
<1>3. \A i, j \in 1..n : order[i] = order[j] => i = j
    <2>1. order \in Surjection(1..n, Commands)
        BY <1>2 DEF Surjection
    <2>2. order \in Injection(1..n, Commands)
        BY <1>1, <2>1, FS_Surjection
    <2> QED BY <2>2 DEF Injection, IsInjective
<1>4. DOMAIN order = 1..n
    BY <1>2
<1> HIDE DEF n
<1>5. \A c : ~IssuedBefore(c, c)
    BY <1>1, <1>3, <1>4 DEF IssuedBefore
<1>6. \A c, d, e : IssuedBefore(c, d) /\ IssuedBefore(d, e) => IssuedBefore(c, e)
    BY <1>1, <1>3, <1>4 DEF IssuedBefore
<1>7. ASSUME NEW c \in Commands, NEW d \in Commands
      PROVE  c = d \/ IssuedBefore(c, d) \/ IssuedBefore(d, c)
    <2>1. PICK i \in 1..n, j \in 1..n : order[i] = c /\ order[j] = d
        BY <1>2
    <2>2. i = j \/ i < j \/ j < i
        BY <1>1
    <2> QED BY <1>4, <2>1, <2>2 DEF IssuedBefore
<1> QED BY <1>5, <1>6, <1>7

\* A decision's updates: some of the outstanding ones, whose deferrals are numbers.
Updates(updates) ==
    /\ order \in Orderings
    /\ updates \subseteq Commands
    /\ \A c \in updates : entries[c].deferrals \in Nat

\* A decision's updates are totally ordered by their deferrals and the order they were
\* issued in.
LEMMA EarlierIsTotal ==
    ASSUME NEW updates, Updates(updates)
    PROVE  /\ IsFiniteSet(updates)
           /\ \A c \in updates : ~Earlier(c, c)
           /\ \A c, d, e \in updates : Earlier(c, d) /\ Earlier(d, e) => Earlier(c, e)
           /\ \A c, d \in updates : c = d \/ Earlier(c, d) \/ Earlier(d, c)
<1>1. IsFiniteSet(updates)
    BY CommandsAssumption, FS_Subset DEF Updates
<1>2. /\ \A c : ~IssuedBefore(c, c)
      /\ \A c, d, e : IssuedBefore(c, d) /\ IssuedBefore(d, e) => IssuedBefore(c, e)
      /\ \A c, d \in updates : c = d \/ IssuedBefore(c, d) \/ IssuedBefore(d, c)
    BY IssueOrderIsTotal DEF Updates
<1> QED BY <1>1, <1>2 DEF Updates, Earlier

\* Only places are targets, and only of cancels.
LEMMA TargetsArePlaces ==
    ASSUME NEW updates, NEW c
    PROVE  /\ Targets(updates, c) \subseteq updates \cap Places
           /\ c \in Places => Targets(updates, c) = {}
BY CommandsAssumption DEF Targets, TargetUpdates

\* An update is delivered with the first of those that pull it, one not on a place or
\* itself.
LEMMA LeaderIsFirst ==
    ASSUME NEW updates, Updates(updates), NEW c \in updates
    PROVE  LET leader == Leader(updates, c)
           IN  /\ leader \in updates
               /\ leader = c \/ c \in Targets(updates, leader)
               /\ \A e \in Pullers(updates, c) : e = leader \/ Earlier(leader, e)
               /\ c \notin Places => leader = c
<1> DEFINE S == Pullers(updates, c)
           below == [d \in S |-> {e \in S : Earlier(e, d)}]
<1>1. S \subseteq updates /\ c \in S
    BY DEF Pullers
<1>2. IsFiniteSet(S)
    BY <1>1, EarlierIsTotal, FS_Subset
<1>3. /\ \A d \in S : d \notin below[d]
      /\ \A d, e \in S : e \in below[d] => below[e] \subseteq below[d]
      /\ \A d, e \in S : d = e \/ d \in below[e] \/ e \in below[d]
    BY <1>1, EarlierIsTotal
<1>4. below \in [S -> SUBSET S]
    OBVIOUS
<1>5. \E d \in S : below[d] = {}
    <2> HIDE DEF S, below
    <2>1. Cardinality(S) \in Nat /\ Cardinality(S) # 0
        BY <1>1, <1>2, FS_EmptySet, FS_CardinalityType
    <2>2. \A i \in 1..Cardinality(S) : \E d \in S : Cardinality(below[d]) = i - 1
        BY <1>2, <1>3, <1>4, RanksAreDense
    <2>3. 1 \in 1..Cardinality(S)
        BY <2>1
    <2>4. PICK d \in S : Cardinality(below[d]) = 0
        BY <2>2, <2>3
    <2>5. IsFiniteSet(below[d])
        BY <1>2, <1>4, FS_Subset
    <2> QED BY <2>4, <2>5, FS_EmptySet
<1>6. \E d \in S : \A e \in S : e = d \/ Earlier(d, e)
    BY <1>3, <1>5
<1>7. Leader(updates, c) \in S /\ \A e \in S : e = Leader(updates, c) \/ Earlier(Leader(updates, c), e)
    <2> HIDE DEF S
    <2> QED BY <1>6 DEF Leader, S
<1>8. c \notin Places => S = {c}
    BY TargetsArePlaces DEF Pullers
<1> QED BY <1>1, <1>7, <1>8 DEF Pullers

\* A decision's updates are totally ordered unit by unit, targets before their cancel.
LEMMA PrecedesIsTotal ==
    ASSUME NEW updates, Updates(updates)
    PROVE  /\ \A c \in updates : ~Precedes(updates, c, c)
           /\ \A c, d, e \in updates :
                 Precedes(updates, c, d) /\ Precedes(updates, d, e) => Precedes(updates, c, e)
           /\ \A c, d \in updates :
                 c = d \/ Precedes(updates, c, d) \/ Precedes(updates, d, c)
<1>1. \A c \in updates : Leader(updates, c) \in updates
    BY LeaderIsFirst
<1>2. /\ \A c \in updates : ~Earlier(c, c)
      /\ \A c, d, e \in updates : Earlier(c, d) /\ Earlier(d, e) => Earlier(c, e)
      /\ \A c, d \in updates : c = d \/ Earlier(c, d) \/ Earlier(d, c)
    BY EarlierIsTotal
<1>3. /\ \A c : ~IssuedBefore(c, c)
      /\ \A c, d, e : IssuedBefore(c, d) /\ IssuedBefore(d, e) => IssuedBefore(c, e)
      /\ \A c, d \in updates : c = d \/ IssuedBefore(c, d) \/ IssuedBefore(d, c)
    BY IssueOrderIsTotal DEF Updates
<1>4. ASSUME NEW c \in updates PROVE ~Precedes(updates, c, c)
    BY <1>1, <1>2, <1>3 DEF Precedes
<1>5. ASSUME NEW c \in updates, NEW d \in updates, NEW e \in updates,
             Precedes(updates, c, d), Precedes(updates, d, e)
      PROVE  Precedes(updates, c, e)
    BY <1>1, <1>2, <1>3, <1>5 DEF Precedes
<1>6. ASSUME NEW c \in updates, NEW d \in updates
      PROVE  c = d \/ Precedes(updates, c, d) \/ Precedes(updates, d, c)
    BY <1>1, <1>2, <1>3 DEF Precedes
<1> QED BY <1>4, <1>5, <1>6

\* A target's update comes before its cancel's.
LEMMA TargetsPrecede ==
    ASSUME NEW updates, Updates(updates), NEW c \in updates, NEW o \in Targets(updates, c)
    PROVE  o \in updates /\ Precedes(updates, o, c)
<1>1. o \in updates \cap Places /\ c \notin Places
    BY TargetsArePlaces
<1>2. Leader(updates, c) = c
    BY <1>1, LeaderIsFirst
<1>3. c = Leader(updates, o) \/ Earlier(Leader(updates, o), c)
    BY <1>1, LeaderIsFirst DEF Pullers
<1> QED BY <1>1, <1>2, <1>3 DEF Precedes

\* An update delivered before a more often deferred one is a target of an update that
\* was deferred as often.
LEMMA LessDeferredIsTarget ==
    ASSUME NEW updates, Updates(updates), NEW c \in updates, NEW d \in updates,
           Precedes(updates, c, d), entries[d].deferrals > entries[c].deferrals
    PROVE  \E k \in updates \ Places : /\ c \in Targets(updates, k)
                                       /\ entries[k].deferrals >= entries[d].deferrals
<1> DEFINE a == Leader(updates, c)
           b == Leader(updates, d)
<1>1. /\ a \in updates /\ (a = c \/ c \in Targets(updates, a))
      /\ b \in updates /\ (d = b \/ Earlier(b, d))
    BY LeaderIsFirst DEF Pullers
<1>2. a = b \/ Earlier(a, b)
    BY DEF Precedes
<1>3. a = d \/ Earlier(a, d)
    <2> HIDE DEF a, b
    <2> QED BY <1>1, <1>2, EarlierIsTotal
<1>4. entries[a].deferrals >= entries[d].deferrals
    <2> HIDE DEF a
    <2> QED BY <1>1, <1>3 DEF Earlier, Updates
<1>5. a # c
    <2>1. entries[c].deferrals \in Nat /\ entries[d].deferrals \in Nat
        BY DEF Updates
    <2> HIDE DEF a
    <2> QED BY <1>4, <2>1
<1>6. a \notin Places
    BY <1>1, <1>5, TargetsArePlaces
<1> QED BY <1>1, <1>4, <1>5, <1>6

\* The deliveries of a decision: each update once, each after those that precede it.
LEMMA DeliveriesInOrder ==
    ASSUME NEW updates, Updates(updates)
    PROVE  LET queue == Deliveries(updates, DeliveryOrder(updates))
           IN  /\ queue \in Seq([command : updates, first : BOOLEAN])
               /\ \A c \in updates : \E i \in 1..Len(queue) : queue[i].command = c
               /\ \A i, j \in 1..Len(queue) :
                     i < j => Precedes(updates, queue[i].command, queue[j].command)
               /\ queue # <<>> => queue[1].first
<1> DEFINE n == Cardinality(updates)
           below == [c \in updates |-> {d \in updates : Precedes(updates, d, c)}]
           sorted == DeliveryOrder(updates)
           queue == Deliveries(updates, sorted)
<1>1. IsFiniteSet(updates) /\ n \in Nat
    BY EarlierIsTotal, FS_CardinalityType
<1>2. /\ \A c \in updates : c \notin below[c]
      /\ \A c, d \in updates : d \in below[c] => below[d] \subseteq below[c]
      /\ \A c, d \in updates : c = d \/ c \in below[d] \/ d \in below[c]
    BY PrecedesIsTotal
<1>3. below \in [updates -> SUBSET updates]
    OBVIOUS
<1>4. /\ \A c, d \in updates : d \in below[c] => Cardinality(below[d]) < Cardinality(below[c])
      /\ \A c, d \in updates : Cardinality(below[c]) = Cardinality(below[d]) => c = d
      /\ \A i \in 1..n : \E c \in updates : Cardinality(below[c]) = i - 1
    <2> HIDE DEF below
    <2> QED BY <1>1, <1>2, <1>3, RanksAreDense
<1>5. ASSUME NEW c \in updates PROVE Cardinality(below[c]) + 1 \in 1..n
    <2>1. below[c] \in SUBSET updates /\ below[c] # updates
        BY <1>2, <1>3
    <2>2. Cardinality(below[c]) \in Nat /\ Cardinality(below[c]) <= n /\ Cardinality(below[c]) # n
        BY <1>1, <2>1, FS_Subset, FS_CardinalityType
    <2> QED BY <1>1, <2>2
<1>6. sorted = [i \in 1..n |-> CHOOSE c \in updates : Cardinality(below[c]) = i - 1]
    BY DEF DeliveryOrder
<1>7. ASSUME NEW i \in 1..n PROVE sorted[i] \in updates /\ Cardinality(below[sorted[i]]) = i - 1
    <2> HIDE DEF below
    <2> QED BY <1>4, <1>6
<1>8. sorted \in Seq(updates) /\ Len(sorted) = n
    <2>1. sorted \in [1..n -> updates]
        BY <1>6, <1>7
    <2> HIDE DEF sorted, n
    <2> QED BY <1>1, <2>1, FunctionIsSeq
<1>9. ASSUME NEW c \in updates PROVE \E i \in 1..n : sorted[i] = c
    <2> DEFINE i == Cardinality(below[c]) + 1
    <2>1. i \in 1..n /\ i \in Nat
        BY <1>1, <1>5
    <2>2. Cardinality(below[sorted[i]]) = i - 1 /\ sorted[i] \in updates
        BY <1>7, <2>1
    <2>3. i - 1 = Cardinality(below[c])
        <3>1. Cardinality(below[c]) + 1 \in 1..n
            BY <1>5
        <3>2. Cardinality(below[c]) \in Nat
            BY <1>1, <1>3, FS_Subset, FS_CardinalityType
        <3> QED BY <3>2
    <2> HIDE DEF below, sorted
    <2> QED BY <1>4, <2>1, <2>2, <2>3
<1>10. ASSUME NEW i \in 1..n, NEW j \in 1..n, i < j PROVE Precedes(updates, sorted[i], sorted[j])
    <2>1. sorted[i] \in updates /\ Cardinality(below[sorted[i]]) = i - 1
        BY <1>7
    <2>2. sorted[j] \in updates /\ Cardinality(below[sorted[j]]) = j - 1
        BY <1>7
    <2>3. \/ sorted[i] = sorted[j] \/ sorted[i] \in below[sorted[j]]
          \/ sorted[j] \in below[sorted[i]]
        BY <1>2, <2>1, <2>2
    <2>4. sorted[i] # sorted[j] /\ sorted[j] \notin below[sorted[i]]
        <3> HIDE DEF below, sorted
        <3> QED BY <1>1, <1>4, <1>10, <2>1, <2>2
    <2> QED BY <2>2, <2>3, <2>4
<1>11. /\ queue \in Seq([command : updates, first : BOOLEAN]) /\ Len(queue) = n
       /\ \A i \in 1..n : queue[i].command = sorted[i]
       /\ n > 0 => queue[1].first
    <2>1. queue = [i \in 1..n |->
                    [command |-> sorted[i],
                     first |-> i = 1 \/ Leader(updates, sorted[i - 1]) # Leader(updates, sorted[i])]]
        BY <1>8 DEF Deliveries
    <2> HIDE DEF sorted, queue, n
    <2>2. queue \in [1..n -> [command : updates, first : BOOLEAN]]
        BY <1>7, <2>1
    <2>3. \A i \in 1..n : queue[i].command = sorted[i] /\ (i = 1 => queue[i].first)
        BY <2>1
    <2>4. n > 0 => 1 \in 1..n
        BY <1>1
    <2> QED BY <1>1, <2>2, <2>3, <2>4, FunctionIsSeq
<1>12. queue # <<>> => n > 0
    <2> HIDE DEF queue, n
    <2> QED BY <1>1, <1>11
<1> HIDE DEF queue, n, sorted, below
<1> QED BY <1>9, <1>10, <1>11, <1>12 DEF queue, sorted

-----------------------------------------------------------------------------
(* The inductive invariant.                                                *)

Undelivered == {todo[i].command : i \in 1..Len(todo)}
Delivered == updated \ (Undelivered \cup DOMAIN failed)

\* The counters of an outstanding update are below their limits.
CountersOK ==
    \A c \in DOMAIN entries : /\ entries[c].failures < MaxDeliveryAttempts
                              /\ entries[c].deferrals < MaxDeliveryDeferrals

\* Each command takes room.
RoomOK == Len(commands) <= rows /\ Len(saved.commands) <= saved.rows

\* The deliveries left: each once, none failed, a target before its cancel, and the most
\* often deferred first.
QueueOK ==
    /\ todo \in Seq([command : updated, first : BOOLEAN])
    /\ Undelivered \cap DOMAIN failed = {}
    /\ \A i, j \in 1..Len(todo) : i # j => todo[i].command # todo[j].command
    /\ \A i, j \in 1..Len(todo) :
          todo[j].command \in Targets(updated, todo[i].command) => j < i
    /\ \A i, j \in 1..Len(todo) : i < j =>
          \/ entries[todo[j].command].deferrals <= entries[todo[i].command].deferrals
          \/ \E d \in updated \ Places :
                /\ todo[i].command \in Targets(updated, d)
                /\ entries[d].deferrals >= entries[todo[j].command].deferrals
    /\ \A c \in updated \ Undelivered : Targets(updated, c) \cap Undelivered = {}

\* A target of the update failed, and not because another update did.
TargetFailed(c) ==
    \E o \in TargetUpdates(updated, entries, c) \cap DOMAIN failed :
        failed[o] \in {"Counted", "Deferred"}

\* Why each failed update failed, and that no cancel is done ahead of its target.
FailedOK ==
    /\ \A c \in DOMAIN failed :
          /\ failed[c] = "Held" =>
                c \notin Places /\ TargetFailed(c) /\ Deferral(entries[c]) < MaxDeliveryDeferrals
          /\ failed[c] = "Deferred" =>
                /\ c \in Places \/ Deferral(entries[c]) < MaxDeliveryDeferrals
                /\ \E d \in updated \ {c} :
                      d \in Delivered \/ (d \in DOMAIN failed /\ failed[d] = "RolledBack")
          /\ failed[c] = "RolledBack" =>
                /\ todo = <<>> /\ DOMAIN failed = updated
                /\ \E d \in updated : failed[d] = "Counted"
    /\ \A c \in (updated \cap Cancels) \ Undelivered :
          TargetFailed(c) /\ Deferral(entries[c]) < MaxDeliveryDeferrals =>
              c \in DOMAIN failed /\ failed[c] \in {"Held", "RolledBack"}

\* The kernel has handled just the updates delivered, every command is of one of them.
HasHandled(k, s) ==
    /\ k = [c \in Commands |-> committed[c] + IF c \in Delivered THEN 1 ELSE 0]
    /\ \A i \in 1..Len(s) : s[i].by \in Delivered

\* Between decisions nothing is left of one; between updates and in the kernel's handler,
\* what can be gone back to holds just the updates delivered.
PhaseOK ==
    \/ /\ phase = "Between decisions"
       /\ updated = {} /\ todo = <<>> /\ failed = NoneFailed /\ kernel = committed
    \/ /\ phase = "Delivering"
       /\ HasHandled(kernel, commands)
       /\ todo # <<>> => unitStart <= Len(commands)
    \/ /\ phase = "Handling" /\ todo # <<>>
       /\ ~MustWait(NextUpdate)
       /\ HasHandled(saved.kernel, saved.commands)
       /\ kernel = [saved.kernel EXCEPT ![NextUpdate] = @ + 1]
       /\ \A i \in 1..Len(commands) : commands[i].by \in Delivered \cup {NextUpdate}
       /\ unitStart \in 0..Len(saved.commands) /\ Len(saved.commands) <= Len(commands)
       /\ refusal = "Deferrable" => unitStart > 0

DeliveryInvariant ==
    TypeOK /\ HandledExactlyOnce /\ CountersOK /\ RoomOK /\ QueueOK /\ FailedOK /\ PhaseOK

-----------------------------------------------------------------------------
(* The invariant holds at the start and every step keeps it.               *)

\* An outstanding update's counters are numbers.
LEMMA OutstandingCounters ==
    ASSUME TypeOK
    PROVE  \A c \in DOMAIN entries : /\ c \in Commands
                                     /\ entries[c] \in Entry
                                     /\ entries[c].failures \in Nat
                                     /\ entries[c].deferrals \in Nat
BY DEF TypeOK, IsPartial, Entry

\* The runner starts with nothing outstanding.
LEMMA InitDeliveryInvariant == Init => DeliveryInvariant
<1> SUFFICES ASSUME Init PROVE DeliveryInvariant
    OBVIOUS
<1>1. /\ order \in Orderings
      /\ DOMAIN entries = Commands /\ abandoned = {} /\ updated = {}
      /\ \A c \in Commands : committed[c] = 0
    BY DEF Init
<1>2. ASSUME NEW c \in DOMAIN entries
      PROVE  entries[c] \in Entry /\ entries[c].failures = 0 /\ entries[c].deferrals = 0
    <2>1. \E t \in Places \cup {NoTarget} : entries[c] = IssuedEntry(t, 0)
        BY <1>1, <1>2, DeliveryAssumption DEF Init, Commands
    <2>2. ASSUME NEW t \in Places \cup {NoTarget} PROVE IssuedEntry(t, 0) \in Entry
        BY <2>2, LimitsAssumption DEF IssuedEntry, Entry
    <2> QED BY <2>1, <2>2 DEF IssuedEntry
<1>3. /\ todo = <<>> /\ commands = <<>> /\ rows = 0
      /\ committed = [c \in Commands |-> 0] /\ kernel = committed
      /\ saved = [kernel |-> committed, commands |-> commands, rows |-> rows]
      /\ unitStart = NotStarted
    BY Zenon DEF Init
<1>4. Len(todo) = 0 /\ Len(commands) = 0 /\ Len(saved.commands) = 0
    BY <1>3
<1>5. Undelivered = {}
    BY <1>4 DEF Undelivered
<1>6. TypeOK
    <2>1. IsPartial(entries, Commands, Entry)
        BY <1>1, <1>2 DEF IsPartial, Init
    <2>2. {committed, kernel, saved.kernel} \subseteq [Commands -> 0..2]
        BY <1>3
    <2>3. {commands, saved.commands} \subseteq Seq(Issued)
        BY <1>3
    <2>4. {rows, saved.rows} \subseteq 0..Room
        BY <1>3, DeliveryAssumption
    <2>5. IsPartial(failed, updated, Failure)
        BY DEF IsPartial, NoneFailed, Init
    <2>6. unitStart \in NotStarted..Room
        BY <1>3, DeliveryAssumption DEF NotStarted
    <2>7. /\ phase \in {"Between decisions", "Delivering", "Handling"}
          /\ refusal \in {"None", "Final", "Deferrable"}
        BY DEF Init
    <2> QED BY <1>1, <1>5, <2>1, <2>2, <2>3, <2>4, <2>5, <2>6, <2>7 DEF TypeOK, Undelivered
<1>7. HandledExactlyOnce
    BY <1>1 DEF HandledExactlyOnce
<1>8. CountersOK
    BY <1>2, LimitsAssumption DEF CountersOK
<1>9. RoomOK
    BY <1>3, <1>4 DEF RoomOK
<1>10. QueueOK
    <2>1. todo \in Seq([command : updated, first : BOOLEAN])
        BY <1>3
    <2>2. \A i \in 1..Len(todo) : FALSE
        BY <1>4
    <2> QED BY <1>1, <1>5, <2>1, <2>2 DEF QueueOK
<1>11. FailedOK
    BY DEF FailedOK, NoneFailed, Init
<1>12. PhaseOK
    BY DEF PhaseOK, Init
<1> QED BY <1>6, <1>7, <1>8, <1>9, <1>10, <1>11, <1>12 DEF DeliveryInvariant

\* A decision that starts puts every update once in its order of delivery.
LEMMA BeginKeepsInvariant ==
    ASSUME DeliveryInvariant, Begin
    PROVE  DeliveryInvariant'
<1> USE DEF DeliveryInvariant
<1>1. PICK updates \in SUBSET DOMAIN entries :
          /\ updated' = updates
          /\ todo' = Deliveries(updates, DeliveryOrder(updates))
    BY DEF Begin
<1>2. /\ phase' = "Delivering" /\ failed' = NoneFailed
      /\ kernel' = committed /\ commands' = <<>> /\ rows' = 0
      /\ saved' = [kernel |-> committed, commands |-> <<>>, rows |-> 0]
      /\ unitStart' = NotStarted /\ refusal' = "None"
      /\ UNCHANGED <<order, entries, committed, abandoned>>
    BY DEF Begin, section
<1>3. Updates(updates) /\ order \in Orderings
    BY OutstandingCounters DEF Updates, TypeOK
<1>4. /\ todo' \in Seq([command : updates, first : BOOLEAN])
      /\ \A c \in updates : \E i \in 1..Len(todo') : todo'[i].command = c
      /\ \A i, j \in 1..Len(todo') :
            i < j => Precedes(updates, todo'[i].command, todo'[j].command)
      /\ todo' # <<>> => todo'[1].first
    BY <1>1, <1>3, DeliveriesInOrder
<1>5. \A i \in 1..Len(todo') : todo'[i].command \in updates
    <2>1. Len(todo') \in Nat /\ todo' \in [1..Len(todo') -> [command : updates, first : BOOLEAN]]
        BY <1>4, LenProperties
    <2> QED BY <2>1
<1>6. Undelivered' = updates
    BY <1>4, <1>5 DEF Undelivered
<1>7. Len(todo') \in Nat
    BY <1>4, LenProperties
<1>8. /\ \A c \in updates : ~Precedes(updates, c, c)
      /\ \A c, d \in updates : ~(Precedes(updates, c, d) /\ Precedes(updates, d, c))
    BY <1>3, PrecedesIsTotal
<1>9. QueueOK'
    <2>1. (todo \in Seq([command : updated, first : BOOLEAN]))'
        BY <1>1, <1>4
    <2>2. (Undelivered \cap DOMAIN failed = {})'
        BY <1>2 DEF NoneFailed
    <2>3. ASSUME NEW i \in 1..Len(todo'), NEW j \in 1..Len(todo'), i # j
          PROVE  todo'[i].command # todo'[j].command
        <3>1. i < j \/ j < i
            BY <1>7, <2>3
        <3> QED BY <1>4, <1>5, <1>8, <3>1
    <2>4. ASSUME NEW i \in 1..Len(todo'), NEW j \in 1..Len(todo'),
                 todo'[j].command \in Targets(updates, todo'[i].command)
          PROVE  j < i
        <3>1. Precedes(updates, todo'[j].command, todo'[i].command)
            BY <1>3, <1>5, <2>4, TargetsPrecede
        <3>2. ~Precedes(updates, todo'[i].command, todo'[j].command) /\ todo'[i].command # todo'[j].command
            BY <1>5, <1>8, <3>1
        <3>3. i = j \/ i < j \/ j < i
            BY <1>7
        <3> QED BY <1>4, <3>2, <3>3
    <2>5. ASSUME NEW i \in 1..Len(todo'), NEW j \in 1..Len(todo'), i < j
          PROVE  \/ entries[todo'[j].command].deferrals <= entries[todo'[i].command].deferrals
                 \/ \E d \in updates \ Places :
                       /\ todo'[i].command \in Targets(updates, d)
                       /\ entries[d].deferrals >= entries[todo'[j].command].deferrals
        <3> DEFINE c == todo'[i].command
                   d == todo'[j].command
        <3>1. c \in updates /\ d \in updates /\ Precedes(updates, c, d)
            BY <1>4, <1>5, <2>5
        <3>2. entries[c].deferrals \in Nat /\ entries[d].deferrals \in Nat
            BY <1>3, <3>1 DEF Updates
        <3> HIDE DEF c, d
        <3>3. CASE entries[d].deferrals > entries[c].deferrals
            BY <1>3, <3>1, <3>3, LessDeferredIsTarget DEF c, d
        <3>4. CASE ~(entries[d].deferrals > entries[c].deferrals)
            BY <3>2, <3>4 DEF c, d
        <3> QED BY <3>3, <3>4
    <2>6. (\A c \in updated \ Undelivered : Targets(updated, c) \cap Undelivered = {})'
        BY <1>1, <1>6
    <2>7. \A c : Targets(updates, c)' = Targets(updates', c)
        BY <1>2 DEF Targets, TargetUpdates, IssuedBefore
    <2> QED BY <1>1, <1>2, <2>1, <2>2, <2>3, <2>4, <2>5, <2>6 DEF QueueOK, Targets, TargetUpdates, IssuedBefore
<1>10. TypeOK'
    <2>1. Undelivered' \subseteq updated'
        BY <1>1, <1>6
    <2>2. (IsPartial(failed, updated, Failure))'
        BY <1>2 DEF IsPartial, NoneFailed
    <2>3. (unitStart \in NotStarted..Room)'
        BY <1>2, DeliveryAssumption DEF NotStarted
    <2>4. <<>> \in Seq(Issued) /\ 0 \in 0..Room
        BY DeliveryAssumption
    <2>5. committed \in [Commands -> 0..2]
        BY DEF TypeOK
    <2> QED BY <1>1, <1>2, <2>1, <2>2, <2>3, <2>4, <2>5 DEF TypeOK, Undelivered
<1>11. HandledExactlyOnce' /\ CountersOK'
    BY <1>2 DEF HandledExactlyOnce, CountersOK
<1>12. RoomOK'
    BY <1>2 DEF RoomOK
<1>13. Delivered' = {}
    BY <1>1, <1>6 DEF Delivered
<1>14. FailedOK'
    <2>1. (DOMAIN failed)' = {}
        BY <1>2 DEF NoneFailed
    <2> QED BY <1>1, <1>6, <2>1 DEF FailedOK
<1>15. PhaseOK'
    <2>1. (HasHandled(kernel, commands))'
        <3>1. \A c \in Commands : committed[c] \in 0..2
            BY DEF TypeOK
        <3>2. \A c \in Commands : committed[c] + 0 = committed[c]
            BY <3>1
        <3>3. committed = [c \in Commands |-> committed[c]]
            BY DEF TypeOK
        <3> QED BY <1>2, <1>13, <3>2, <3>3 DEF HasHandled
    <2>2. unitStart' <= Len(commands')
        BY <1>2 DEF NotStarted
    <2> QED BY <1>2, <2>1, <2>2 DEF PhaseOK
<1> QED BY <1>9, <1>10, <1>11, <1>12, <1>14, <1>15

\* The update delivered next is dealt with: the queue is in order without it.
LEMMA QueueAdvances ==
    ASSUME DeliveryInvariant, todo # <<>>, todo' = Tail(todo),
           UNCHANGED <<order, entries, updated>>,
           DOMAIN failed' \subseteq DOMAIN failed \cup {NextUpdate}
    PROVE  /\ NextUpdate \in Undelivered /\ NextUpdate \in updated
           /\ NextUpdate \notin DOMAIN failed
           /\ Undelivered' = Undelivered \ {NextUpdate}
           /\ QueueOK'
<1> DEFINE n == Len(todo)
           Item == [command : updated, first : BOOLEAN]
<1>1. todo \in Seq(Item) /\ n \in Nat /\ n > 0
    BY EmptySeq, LenProperties DEF DeliveryInvariant, QueueOK
<1>2. /\ todo' \in Seq(Item) /\ Len(todo') = n - 1
      /\ \A i \in 1..Len(todo') : todo'[i] = todo[i + 1]
    BY <1>1, HeadTailProperties
<1>3. \A i \in 1..Len(todo') : i + 1 \in 1..n /\ i + 1 # 1
    <2> HIDE DEF n
    <2> QED BY <1>1, <1>2
<1>4. \A i \in 1..n : i = 1 \/ (i - 1 \in 1..Len(todo') /\ i = (i - 1) + 1)
    <2> HIDE DEF n
    <2> QED BY <1>1, <1>2
<1>5. 1 \in 1..n
    <2> HIDE DEF n
    <2> QED BY <1>1
<1>6. \A i, j \in 1..n : i # j => todo[i].command # todo[j].command
    BY DEF DeliveryInvariant, QueueOK
<1>7. NextUpdate \in Undelivered
    BY <1>5 DEF Undelivered, NextUpdate
<1>8. Undelivered' = Undelivered \ {NextUpdate}
    <2>1. ASSUME NEW c \in Undelivered, c # NextUpdate PROVE c \in Undelivered'
        <3>1. PICK i \in 1..n : todo[i].command = c
            BY <2>1 DEF Undelivered
        <3>2. i - 1 \in 1..Len(todo') /\ todo'[i - 1] = todo[(i - 1) + 1] /\ i = (i - 1) + 1
            BY <1>2, <1>4, <2>1, <3>1 DEF NextUpdate
        <3> QED BY <3>1, <3>2 DEF Undelivered
    <2>2. ASSUME NEW i \in 1..Len(todo')
          PROVE  todo'[i].command \in Undelivered /\ todo'[i].command # NextUpdate
        BY <1>2, <1>3, <1>5, <1>6 DEF Undelivered, NextUpdate
    <2>3. Undelivered' = {todo'[i].command : i \in 1..Len(todo')}
        BY DEF Undelivered
    <2> QED BY <2>1, <2>2, <2>3
<1>9. Undelivered \subseteq updated /\ Undelivered \cap DOMAIN failed = {}
    BY DEF DeliveryInvariant, QueueOK, TypeOK, Undelivered
<1>10. \A c : Targets(updated, c)' = Targets(updated, c)
    BY DEF Targets, TargetUpdates, IssuedBefore
<1>11. QueueOK'
    <2>1. Undelivered' \cap DOMAIN failed' = {}
        BY <1>8, <1>9
    <2>2. \A i, j \in 1..Len(todo') : i # j => todo'[i].command # todo'[j].command
        <3>1. \A i, j \in 1..Len(todo') : i # j => i + 1 # j + 1
            BY <1>1, <1>2
        <3> QED BY <1>2, <1>3, <1>6, <3>1
    <2>3. ASSUME NEW i \in 1..Len(todo'), NEW j \in 1..Len(todo'),
                 todo'[j].command \in Targets(updated, todo'[i].command)
          PROVE  j < i
        <3>1. i + 1 \in 1..n /\ j + 1 \in 1..n /\ todo'[i] = todo[i + 1] /\ todo'[j] = todo[j + 1]
            BY <1>2, <1>3
        <3>2. j + 1 < i + 1
            BY <2>3, <3>1 DEF DeliveryInvariant, QueueOK
        <3>3. i \in Int /\ j \in Int
            OBVIOUS
        <3> QED BY <3>2, <3>3
    <2>4. ASSUME NEW i \in 1..Len(todo'), NEW j \in 1..Len(todo'), i < j
          PROVE  \/ entries[todo'[j].command].deferrals <= entries[todo'[i].command].deferrals
                 \/ \E d \in updated \ Places :
                       /\ todo'[i].command \in Targets(updated, d)
                       /\ entries[d].deferrals >= entries[todo'[j].command].deferrals
        <3>1. i + 1 \in 1..n /\ j + 1 \in 1..n /\ todo'[i] = todo[i + 1] /\ todo'[j] = todo[j + 1]
            BY <1>2, <1>3
        <3>2. i + 1 < j + 1
            BY <2>4
        <3> QED BY <3>1, <3>2 DEF DeliveryInvariant, QueueOK
    <2>5. ASSUME NEW c \in updated \ Undelivered'
          PROVE  Targets(updated, c) \cap Undelivered' = {}
        <3>1. CASE c # NextUpdate
            BY <1>8, <2>5, <3>1 DEF DeliveryInvariant, QueueOK
        <3>2. CASE c = NextUpdate
            <4>1. ASSUME NEW o \in Targets(updated, c), o \in Undelivered' PROVE FALSE
                <5>1. PICK j \in 1..n : todo[j].command = o
                    BY <1>8, <4>1 DEF Undelivered
                <5>2. j < 1
                    BY <1>5, <3>2, <4>1, <5>1 DEF DeliveryInvariant, QueueOK, NextUpdate
                <5> QED BY <5>2
            <4> QED BY <4>1
        <3> QED BY <3>1, <3>2
    <2> QED BY <1>2, <1>10, <2>1, <2>2, <2>3, <2>4, <2>5 DEF QueueOK
<1> QED BY <1>7, <1>8, <1>9, <1>11

\* The targets of the update delivered next are done with, and those that failed failed
\* of their own.
LEMMA TargetsAreDone ==
    ASSUME DeliveryInvariant, todo # <<>>
    PROVE  /\ Targets(updated, NextUpdate) \cap Undelivered = {}
           /\ NextUpdate \notin Targets(updated, NextUpdate)
           /\ OutOfOrder(NextUpdate) => NextUpdate \notin Places /\ TargetFailed(NextUpdate)
           /\ NextUpdate \in Cancels => (TargetFailed(NextUpdate) => OutOfOrder(NextUpdate))
<1>1. todo \in Seq([command : updated, first : BOOLEAN]) /\ Len(todo) \in Nat /\ Len(todo) > 0
    BY EmptySeq, LenProperties DEF DeliveryInvariant, QueueOK
<1>2. 1 \in 1..Len(todo)
    BY <1>1
<1>3. ASSUME NEW o \in Targets(updated, NextUpdate), o \in Undelivered PROVE FALSE
    <2>1. PICK j \in 1..Len(todo) : todo[j].command = o
        BY <1>3 DEF Undelivered
    <2>2. j < 1
        BY <1>2, <1>3, <2>1 DEF DeliveryInvariant, QueueOK, NextUpdate
    <2> QED BY <2>2
<1>4. /\ Targets(updated, NextUpdate) \subseteq updated \cap Places
      /\ NextUpdate \in Places => Targets(updated, NextUpdate) = {}
    BY TargetsArePlaces
<1>5. ASSUME OutOfOrder(NextUpdate) PROVE NextUpdate \notin Places /\ TargetFailed(NextUpdate)
    <2>1. PICK o \in Targets(updated, NextUpdate) : o \in DOMAIN failed
        BY <1>5 DEF OutOfOrder
    <2>2. failed[o] \in {"Counted", "Deferred", "RolledBack", "Held"}
        BY <2>1 DEF DeliveryInvariant, TypeOK, IsPartial, Failure
    <2>3. failed[o] # "Held" /\ failed[o] # "RolledBack"
        BY <1>4, <2>1 DEF DeliveryInvariant, FailedOK
    <2>4. o \in TargetUpdates(updated, entries, NextUpdate)
        BY <2>1 DEF Targets
    <2> QED BY <1>4, <2>1, <2>2, <2>3, <2>4 DEF TargetFailed
<1>6. ASSUME NextUpdate \in Cancels, TargetFailed(NextUpdate) PROVE OutOfOrder(NextUpdate)
    BY <1>6, CommandsAssumption DEF TargetFailed, OutOfOrder, Targets
<1> QED BY <1>3, <1>4, <1>5, <1>6

\* The update delivered next fails: its failure is one the section expects.
LEMMA FailureIsExpected ==
    ASSUME DeliveryInvariant, todo # <<>>, todo' = Tail(todo),
           UNCHANGED <<order, entries, updated>>,
           NEW failure \in {"Counted", "Deferred", "Held"},
           failed' = FailsWith(NextUpdate, failure),
           failure = "Held" <=> MustWait(NextUpdate),
           failure = "Deferred" =>
              /\ NextUpdate \in Places \/ Deferral(entries[NextUpdate]) < MaxDeliveryDeferrals
              /\ Delivered # {}
    PROVE  /\ QueueOK' /\ FailedOK' /\ IsPartial(failed, updated, Failure)'
           /\ Undelivered' \subseteq updated
           /\ Delivered' = Delivered
<1> DEFINE c == NextUpdate
<1>1. DOMAIN failed' = DOMAIN failed \cup {c}
    BY DEF FailsWith
<1>2. /\ failed'[c] = failure
      /\ \A d \in DOMAIN failed : d # c => failed'[d] = failed[d]
    BY DEF FailsWith
<1>3. /\ c \in Undelivered /\ c \in updated /\ c \notin DOMAIN failed
      /\ Undelivered' = Undelivered \ {c}
      /\ QueueOK'
    BY <1>1, QueueAdvances
<1>4. Undelivered \subseteq updated /\ DOMAIN failed \subseteq updated
    BY DEF DeliveryInvariant, TypeOK, Undelivered, IsPartial
<1>5. Delivered' = Delivered
    BY <1>1, <1>3 DEF Delivered
<1>6. IsPartial(failed, updated, Failure)'
    <2>1. \A d \in DOMAIN failed' : failed'[d] \in Failure
        BY <1>1, <1>2 DEF DeliveryInvariant, TypeOK, IsPartial, Failure
    <2>2. failed' = [d \in DOMAIN failed' |-> failed'[d]]
        BY <1>1 DEF FailsWith
    <2>3. failed' \in [DOMAIN failed' -> Failure]
        BY <2>1, <2>2
    <2> QED BY <1>1, <1>3, <1>4, <2>3 DEF IsPartial
<1>7. /\ Targets(updated, c) \cap Undelivered = {} /\ c \notin Targets(updated, c)
      /\ OutOfOrder(c) => c \notin Places /\ TargetFailed(c)
      /\ c \in Cancels => (TargetFailed(c) => OutOfOrder(c))
    BY TargetsAreDone
<1>8. \A d : TargetFailed(d) => TargetFailed(d)'
    BY <1>1, <1>2, <1>3 DEF TargetFailed, TargetUpdates
<1>9. \A d \in updated \cap Cancels : d \notin Undelivered' =>
          (TargetFailed(d)' => TargetFailed(d))
    <2> SUFFICES ASSUME NEW d \in updated \cap Cancels, d \notin Undelivered', TargetFailed(d)'
                 PROVE  TargetFailed(d)
        OBVIOUS
    <2>1. PICK o \in TargetUpdates(updated, entries, d) \cap DOMAIN failed' :
              failed'[o] \in {"Counted", "Deferred"}
        BY DEF TargetFailed, TargetUpdates
    <2>2. o \in Targets(updated, d)
        BY <2>1, CommandsAssumption DEF Targets
    <2>3. Targets(updated, d) \cap Undelivered = {} \/ d = c
        BY <1>3 DEF DeliveryInvariant, QueueOK
    <2>4. o # c
        BY <1>3, <1>7, <2>2, <2>3
    <2> QED BY <1>1, <1>2, <2>1, <2>4 DEF TargetFailed
<1>10. FailedOK'
    <2>1. \A d : d \in DOMAIN failed' => entries'[d] = entries[d]
        OBVIOUS
    <2>2. todo # <<>>
        OBVIOUS
    <2>3. ASSUME NEW d \in DOMAIN failed', failed'[d] = "Held"
          PROVE  d \notin Places /\ TargetFailed(d)' /\ Deferral(entries'[d]) < MaxDeliveryDeferrals
        BY <1>1, <1>2, <1>7, <1>8, <2>3 DEF DeliveryInvariant, FailedOK, MustWait
    <2>4. ASSUME NEW d \in DOMAIN failed', failed'[d] = "Deferred"
          PROVE  /\ d \in Places \/ Deferral(entries'[d]) < MaxDeliveryDeferrals
                 /\ \E e \in updated' \ {d} :
                       e \in Delivered' \/ (e \in DOMAIN failed' /\ failed'[e] = "RolledBack")
        <3>1. CASE d = c
            <4>1. PICK e \in Delivered : TRUE
                BY <1>2, <2>4, <3>1
            <4>2. e \in updated \ {c}
                BY <1>3 DEF Delivered
            <4> QED BY <1>2, <1>5, <2>4, <3>1, <4>2
        <3>2. CASE d # c
            <4>1. d \in DOMAIN failed /\ failed[d] = "Deferred"
                BY <1>1, <1>2, <2>4, <3>2
            <4>2. /\ d \in Places \/ Deferral(entries[d]) < MaxDeliveryDeferrals
                  /\ \E e \in updated \ {d} :
                        e \in Delivered \/ (e \in DOMAIN failed /\ failed[e] = "RolledBack")
                BY <4>1 DEF DeliveryInvariant, FailedOK
            <4> QED BY <1>1, <1>2, <1>3, <1>5, <4>2
        <3> QED BY <3>1, <3>2
    <2>5. \A d \in DOMAIN failed' : failed'[d] # "RolledBack"
        BY <1>1, <1>2 DEF DeliveryInvariant, FailedOK
    <2>6. ASSUME NEW d \in updated \cap Cancels, d \notin Undelivered', TargetFailed(d)',
                 Deferral(entries[d]) < MaxDeliveryDeferrals
          PROVE  d \in DOMAIN failed' /\ failed'[d] \in {"Held", "RolledBack"}
        <3>1. TargetFailed(d)
            BY <1>9, <2>6
        <3>2. CASE d = c
            BY <1>1, <1>2, <1>7, <2>6, <3>1, <3>2 DEF MustWait
        <3>3. CASE d # c
            BY <1>1, <1>2, <1>3, <2>6, <3>1, <3>3 DEF DeliveryInvariant, FailedOK
        <3> QED BY <3>2, <3>3
    <2> QED BY <2>3, <2>4, <2>5, <2>6 DEF FailedOK
<1> QED BY <1>3, <1>4, <1>5, <1>6, <1>10

\* The update delivered next is handled: that changes nothing for the failed ones.
LEMMA HandlingIsExpected ==
    ASSUME DeliveryInvariant, todo # <<>>, todo' = Tail(todo), ~MustWait(NextUpdate),
           UNCHANGED <<order, entries, updated, failed>>
    PROVE  /\ QueueOK' /\ FailedOK'
           /\ Undelivered' \subseteq updated
           /\ NextUpdate \notin Delivered
           /\ Delivered' = Delivered \cup {NextUpdate}
<1> DEFINE c == NextUpdate
<1>1. /\ c \in Undelivered /\ c \in updated /\ c \notin DOMAIN failed
      /\ Undelivered' = Undelivered \ {c}
      /\ QueueOK'
    BY QueueAdvances
<1>2. Undelivered \subseteq updated
    BY DEF DeliveryInvariant, TypeOK, Undelivered
<1>3. c \notin Delivered /\ Delivered' = Delivered \cup {c}
    BY <1>1 DEF Delivered
<1>4. c \in Cancels => (TargetFailed(c) => OutOfOrder(c))
    BY TargetsAreDone
<1>5. \A d : TargetFailed(d)' <=> TargetFailed(d)
    BY DEF TargetFailed, TargetUpdates
<1>6. FailedOK'
    <2>1. \A d \in DOMAIN failed : failed[d] # "RolledBack"
        BY DEF DeliveryInvariant, FailedOK
    <2>2. ASSUME NEW d \in updated \cap Cancels, d \notin Undelivered', TargetFailed(d),
                 Deferral(entries[d]) < MaxDeliveryDeferrals
          PROVE  d \in DOMAIN failed /\ failed[d] \in {"Held", "RolledBack"}
        BY <1>1, <1>4, <2>2 DEF DeliveryInvariant, FailedOK, MustWait
    <2>3. ASSUME NEW d \in DOMAIN failed, failed[d] = "Deferred"
          PROVE  /\ d \in Places \/ Deferral(entries[d]) < MaxDeliveryDeferrals
                 /\ \E e \in updated \ {d} :
                       e \in Delivered' \/ (e \in DOMAIN failed /\ failed[e] = "RolledBack")
        BY <1>3, <2>3 DEF DeliveryInvariant, FailedOK
    <2>4. ASSUME NEW d \in DOMAIN failed, failed[d] = "Held"
          PROVE  d \notin Places /\ TargetFailed(d) /\ Deferral(entries[d]) < MaxDeliveryDeferrals
        BY <2>4 DEF DeliveryInvariant, FailedOK
    <2> QED BY <1>5, <2>1, <2>2, <2>3, <2>4 DEF FailedOK
<1> QED BY <1>1, <1>2, <1>3, <1>6

\* A step that leaves the updates alone leaves what is said of their delivery.
LEMMA NoDeliveryIsMade ==
    ASSUME DeliveryInvariant, UNCHANGED <<order, entries, updated, todo, failed>>
    PROVE  /\ QueueOK' /\ FailedOK' /\ Undelivered' = Undelivered /\ Delivered' = Delivered
           /\ IsPartial(failed, updated, Failure)'
<1>1. Undelivered' = Undelivered
    BY DEF Undelivered
<1>2. Delivered' = Delivered
    BY <1>1 DEF Delivered
<1>3. QueueOK'
    BY <1>1 DEF DeliveryInvariant, QueueOK, Targets, TargetUpdates, IssuedBefore
<1>4. FailedOK'
    BY <1>1, <1>2 DEF DeliveryInvariant, FailedOK, TargetFailed, TargetUpdates
<1>5. IsPartial(failed, updated, Failure)'
    BY DEF DeliveryInvariant, TypeOK, IsPartial
<1> QED BY <1>1, <1>2, <1>3, <1>4, <1>5

\* An update skipped, held or failed, keeps the invariant: it leaves nothing behind.
LEMMA SkipKeepsInvariant ==
    ASSUME DeliveryInvariant, phase = "Delivering", todo # <<>>,
           NEW failure \in {"Counted", "Held"}, failure = "Held" <=> MustWait(NextUpdate),
           Skips(failure)
    PROVE  DeliveryInvariant'
<1>1. /\ failed' = FailsWith(NextUpdate, failure) /\ todo' = Tail(todo)
      /\ unitStart' = IF todo[1].first THEN NotStarted ELSE unitStart
      /\ UNCHANGED <<order, entries, committed, abandoned, phase, updated,
                     kernel, commands, rows, saved, refusal>>
    BY DEF Skips, section, UnitSoFar
<1>2. /\ QueueOK' /\ FailedOK' /\ IsPartial(failed, updated, Failure)'
      /\ Undelivered' \subseteq updated /\ Delivered' = Delivered
    BY <1>1, FailureIsExpected
<1>3. /\ HasHandled(kernel, commands) /\ unitStart <= Len(commands)
      /\ Len(commands) \in Nat
    BY LenProperties DEF DeliveryInvariant, PhaseOK, TypeOK
<1>4. TypeOK'
    BY <1>1, <1>2, DeliveryAssumption DEF DeliveryInvariant, TypeOK, Undelivered, NotStarted, IsPartial
<1>5. HandledExactlyOnce' /\ CountersOK' /\ RoomOK'
    BY <1>1 DEF DeliveryInvariant, HandledExactlyOnce, CountersOK, RoomOK
<1>6. PhaseOK'
    <2>1. HasHandled(kernel, commands)'
        BY <1>1, <1>2, <1>3 DEF HasHandled
    <2>2. unitStart' <= Len(commands')
        BY <1>1, <1>3 DEF NotStarted
    <2> QED BY <1>1, <2>1, <2>2 DEF PhaseOK
<1> QED BY <1>2, <1>4, <1>5, <1>6 DEF DeliveryInvariant

\* The next update to deliver is one of this decision, not yet handled.
LEMMA NextIsOutstanding ==
    ASSUME DeliveryInvariant, todo # <<>>
    PROVE  /\ NextUpdate \in Undelivered /\ NextUpdate \in updated /\ NextUpdate \in Commands
           /\ NextUpdate \notin Delivered /\ committed[NextUpdate] = 0
<1>1. todo \in Seq([command : updated, first : BOOLEAN]) /\ Len(todo) \in Nat /\ Len(todo) > 0
    BY EmptySeq, LenProperties DEF DeliveryInvariant, QueueOK
<1>2. 1 \in 1..Len(todo)
    BY <1>1
<1>3. NextUpdate \in Undelivered
    BY <1>2 DEF Undelivered, NextUpdate
<1>4. NextUpdate \in updated /\ NextUpdate \in DOMAIN entries /\ NextUpdate \in Commands
    BY <1>3 DEF DeliveryInvariant, TypeOK, IsPartial, Undelivered
<1> QED BY <1>3, <1>4 DEF Delivered, DeliveryInvariant, HandledExactlyOnce

\* A delivery that starts keeps the invariant: what is saved is what the handled ones left.
LEMMA DeliverKeepsInvariant ==
    ASSUME DeliveryInvariant, Deliver
    PROVE  DeliveryInvariant'
<1>1. /\ phase = "Delivering" /\ todo # <<>> /\ ~MustWait(NextUpdate)
      /\ saved' = [kernel |-> kernel, commands |-> commands, rows |-> rows]
      /\ unitStart' = IF UnitSoFar = NotStarted THEN Len(commands) ELSE UnitSoFar
      /\ refusal' = "None"
      /\ kernel' = [kernel EXCEPT ![NextUpdate] = @ + 1]
      /\ phase' = "Handling"
      /\ UNCHANGED <<order, entries, committed, abandoned, updated, todo, failed, commands, rows>>
    BY DEF Deliver, section
<1>2. /\ QueueOK' /\ FailedOK' /\ Undelivered' = Undelivered /\ Delivered' = Delivered
      /\ IsPartial(failed, updated, Failure)'
    BY <1>1, NoDeliveryIsMade
<1>3. /\ HasHandled(kernel, commands) /\ unitStart <= Len(commands)
      /\ Len(commands) \in Nat /\ Len(commands) <= rows /\ rows \in 0..Room
      /\ unitStart \in NotStarted..Room
    BY <1>1, LenProperties DEF DeliveryInvariant, PhaseOK, TypeOK, RoomOK
<1>4. /\ NextUpdate \in Undelivered /\ NextUpdate \in updated /\ NextUpdate \in Commands
      /\ NextUpdate \notin Delivered /\ committed[NextUpdate] = 0
    BY <1>1, NextIsOutstanding
<1>5. kernel[NextUpdate] = 0
    BY <1>3, <1>4 DEF HasHandled
<1>6. kernel' \in [Commands -> 0..2]
    BY <1>1, <1>4, <1>5 DEF DeliveryInvariant, TypeOK
<1>7. unitStart' \in 0..Len(commands) /\ unitStart' \in NotStarted..Room
    <2>1. UnitSoFar = NotStarted \/ UnitSoFar = unitStart
        BY DEF UnitSoFar
    <2>2. Room \in Nat
        BY DeliveryAssumption
    <2> QED BY <1>1, <1>3, <2>1, <2>2 DEF NotStarted
<1>8. /\ saved'.kernel = kernel /\ saved'.commands = commands /\ saved'.rows = rows
    BY <1>1
<1>9. TypeOK'
    BY <1>1, <1>2, <1>6, <1>7, <1>8 DEF DeliveryInvariant, TypeOK, Undelivered
<1>10. HandledExactlyOnce' /\ CountersOK' /\ RoomOK'
    BY <1>1, <1>8 DEF DeliveryInvariant, HandledExactlyOnce, CountersOK, RoomOK
<1>11. PhaseOK'
    <2>1. ~MustWait(NextUpdate)'
        BY <1>1 DEF MustWait, OutOfOrder, Targets, TargetUpdates, IssuedBefore, NextUpdate
    <2>2. HasHandled(saved.kernel, saved.commands)'
        BY <1>1, <1>2, <1>3, <1>8 DEF HasHandled
    <2>3. \A j \in 1..Len(commands') : commands'[j].by \in Delivered' \cup {NextUpdate'}
        BY <1>1, <1>2, <1>3 DEF HasHandled
    <2>4. kernel' = [saved'.kernel EXCEPT ![NextUpdate'] = @ + 1]
        BY <1>1, <1>8 DEF NextUpdate
    <2>5. (unitStart \in 0..Len(saved.commands) /\ Len(saved.commands) <= Len(commands))'
        BY <1>1, <1>3, <1>7, <1>8
    <2>6. /\ phase' = "Handling" /\ todo' # <<>>
          /\ refusal' = "Deferrable" => unitStart' > 0
        BY <1>1
    <2> QED BY <2>1, <2>2, <2>3, <2>4, <2>5, <2>6 DEF PhaseOK
<1> QED BY <1>2, <1>9, <1>10, <1>11 DEF DeliveryInvariant

\* A command the strategy issues keeps the invariant: the update delivered issued it.
LEMMA IssueKeepsInvariant ==
    ASSUME DeliveryInvariant, NEW cost \in Costs, Issue(cost)
    PROVE  DeliveryInvariant'
<1> DEFINE command == [by |-> NextUpdate, cost |-> cost]
<1>1. /\ phase = "Handling"
      /\ UNCHANGED <<order, entries, committed, abandoned, phase, updated, todo, failed,
                     kernel, saved, unitStart>>
    BY DEF Issue, section
<1>2. \/ rows + cost <= Room /\ commands' = Append(commands, command)
         /\ rows' = rows + cost /\ refusal' = refusal
      \/ refusal' = (IF FitsAlone(cost) THEN "Deferrable" ELSE "Final")
         /\ commands' = commands /\ rows' = rows
    BY DEF Issue, Fits
<1>3. /\ QueueOK' /\ FailedOK' /\ Undelivered' = Undelivered /\ Delivered' = Delivered
      /\ IsPartial(failed, updated, Failure)'
    BY <1>1, NoDeliveryIsMade
<1>4. /\ todo # <<>> /\ ~MustWait(NextUpdate)
      /\ HasHandled(saved.kernel, saved.commands)
      /\ kernel = [saved.kernel EXCEPT ![NextUpdate] = @ + 1]
      /\ \A j \in 1..Len(commands) : commands[j].by \in Delivered \cup {NextUpdate}
      /\ unitStart \in 0..Len(saved.commands) /\ Len(saved.commands) <= Len(commands)
      /\ refusal = "Deferrable" => unitStart > 0
    BY <1>1 DEF DeliveryInvariant, PhaseOK
<1>5. /\ commands \in Seq(Issued) /\ Len(commands) \in Nat /\ Len(saved.commands) \in Nat
      /\ rows \in 0..Room /\ Len(commands) <= rows
      /\ cost \in 1..Room /\ Room \in Nat
    BY LenProperties, DeliveryAssumption DEF DeliveryInvariant, TypeOK, RoomOK
<1>6. command \in Issued
    BY <1>4, NextIsOutstanding DEF Issued
<1>7. /\ commands' \in Seq(Issued) /\ rows' \in 0..Room
      /\ Len(commands') <= rows' /\ Len(saved.commands) <= Len(commands')
      /\ \A j \in 1..Len(commands') : commands'[j].by \in Delivered \cup {NextUpdate}
    <2>1. CASE rows + cost <= Room /\ commands' = Append(commands, command) /\ rows' = rows + cost
        <3>1. /\ commands' \in Seq(Issued) /\ Len(commands') = Len(commands) + 1
              /\ \A j \in 1..Len(commands) : commands'[j] = commands[j]
              /\ commands'[Len(commands) + 1] = command
            BY <1>5, <1>6, <2>1, AppendProperties
        <3>2. \A j \in 1..Len(commands') : j \in 1..Len(commands) \/ j = Len(commands) + 1
            BY <1>5, <3>1
        <3>3. command.by = NextUpdate
            OBVIOUS
        <3>4. \A j \in 1..Len(commands') : commands'[j].by \in Delivered \cup {NextUpdate}
            <4> HIDE DEF command
            <4> QED BY <1>4, <3>1, <3>2, <3>3
        <3>5. rows' \in 0..Room /\ Len(commands') <= rows' /\ Len(saved.commands) <= Len(commands')
            <4> HIDE DEF command
            <4> QED BY <1>4, <1>5, <2>1, <3>1
        <3> QED BY <3>1, <3>4, <3>5
    <2>2. CASE commands' = commands /\ rows' = rows
        BY <1>4, <1>5, <2>2
    <2> QED BY <1>2, <2>1, <2>2
<1>8. /\ refusal' \in {"None", "Final", "Deferrable"}
      /\ refusal' = "Deferrable" => unitStart > 0
    BY <1>2, <1>4 DEF FitsAlone, DeliveryInvariant, TypeOK
<1>9. TypeOK'
    BY <1>1, <1>3, <1>7, <1>8 DEF DeliveryInvariant, TypeOK, Undelivered
<1>10. HandledExactlyOnce' /\ CountersOK' /\ RoomOK'
    BY <1>1, <1>7 DEF DeliveryInvariant, HandledExactlyOnce, CountersOK, RoomOK
<1>11. PhaseOK'
    <2>1. ~MustWait(NextUpdate)'
        BY <1>1, <1>4 DEF MustWait, OutOfOrder, Targets, TargetUpdates, IssuedBefore, NextUpdate
    <2>2. HasHandled(saved.kernel, saved.commands)'
        BY <1>1, <1>3, <1>4 DEF HasHandled
    <2>3. NextUpdate' = NextUpdate
        BY <1>1 DEF NextUpdate
    <2> QED BY <1>1, <1>3, <1>4, <1>7, <1>8, <2>1, <2>2, <2>3 DEF PhaseOK
<1> QED BY <1>3, <1>9, <1>10, <1>11 DEF DeliveryInvariant

\* A handled update keeps the invariant: its commands stay, and it is done once.
LEMMA HandledKeepsInvariant ==
    ASSUME DeliveryInvariant, Handled
    PROVE  DeliveryInvariant'
<1>1. /\ phase = "Handling" /\ phase' = "Delivering" /\ todo' = Tail(todo)
      /\ UNCHANGED <<order, entries, committed, abandoned, updated, failed,
                     kernel, commands, rows, saved, unitStart, refusal>>
    BY DEF Handled, section
<1>2. /\ todo # <<>> /\ ~MustWait(NextUpdate)
      /\ HasHandled(saved.kernel, saved.commands)
      /\ kernel = [saved.kernel EXCEPT ![NextUpdate] = @ + 1]
      /\ \A j \in 1..Len(commands) : commands[j].by \in Delivered \cup {NextUpdate}
      /\ unitStart \in 0..Len(saved.commands) /\ Len(saved.commands) <= Len(commands)
    BY <1>1 DEF DeliveryInvariant, PhaseOK
<1>3. /\ QueueOK' /\ FailedOK' /\ Undelivered' \subseteq updated
      /\ Delivered' = Delivered \cup {NextUpdate}
    BY <1>1, <1>2, HandlingIsExpected
<1>4. NextUpdate \in Commands /\ NextUpdate \notin Delivered /\ committed[NextUpdate] = 0
    BY <1>2, NextIsOutstanding
<1>5. kernel = [c \in Commands |-> committed[c] + IF c \in Delivered' THEN 1 ELSE 0]
    <2>1. saved.kernel[NextUpdate] = 0
        BY <1>2, <1>4 DEF HasHandled
    <2>2. kernel[NextUpdate] = 1
        BY <1>2, <1>4, <2>1 DEF HasHandled
    <2>3. \A c \in Commands : c # NextUpdate => kernel[c] = saved.kernel[c]
        BY <1>2 DEF HasHandled
    <2>4. \A c \in Commands : kernel[c] = committed[c] + IF c \in Delivered' THEN 1 ELSE 0
        BY <1>2, <1>3, <1>4, <2>2, <2>3 DEF HasHandled
    <2>5. kernel = [c \in Commands |-> kernel[c]]
        BY DEF DeliveryInvariant, TypeOK
    <2> QED BY <2>4, <2>5
<1>6. TypeOK'
    BY <1>1, <1>3 DEF DeliveryInvariant, TypeOK, Undelivered, IsPartial
<1>7. HandledExactlyOnce' /\ CountersOK' /\ RoomOK'
    BY <1>1 DEF DeliveryInvariant, HandledExactlyOnce, CountersOK, RoomOK
<1>8. PhaseOK'
    <2>1. HasHandled(kernel, commands)'
        BY <1>1, <1>2, <1>3, <1>5 DEF HasHandled
    <2>2. Len(saved.commands) \in Nat /\ Len(commands) \in Nat
        BY LenProperties DEF DeliveryInvariant, TypeOK
    <2>3. unitStart' <= Len(commands')
        BY <1>1, <1>2, <2>2
    <2> QED BY <1>1, <2>1, <2>3 DEF PhaseOK
<1> QED BY <1>3, <1>6, <1>7, <1>8 DEF DeliveryInvariant

\* A failed update keeps the invariant: whatever it left is undone.
LEMMA FailureKeepsInvariant ==
    ASSUME DeliveryInvariant, NEW returnsRefusal \in BOOLEAN, Fails(returnsRefusal)
    PROVE  DeliveryInvariant'
<1> DEFINE failure == IF returnsRefusal /\ refusal = "Deferrable" /\ ~CancelAtBound(NextUpdate)
                      THEN "Deferred" ELSE "Counted"
<1>1. /\ phase = "Handling" /\ phase' = "Delivering" /\ todo' = Tail(todo)
      /\ kernel' = saved.kernel /\ commands' = saved.commands /\ rows' = saved.rows
      /\ failed' = FailsWith(NextUpdate, failure)
      /\ UNCHANGED <<order, entries, committed, abandoned, updated, saved, unitStart, refusal>>
    BY DEF Fails, section, Undone
<1>2. /\ todo # <<>> /\ ~MustWait(NextUpdate)
      /\ HasHandled(saved.kernel, saved.commands)
      /\ unitStart \in 0..Len(saved.commands)
      /\ refusal = "Deferrable" => unitStart > 0
    BY <1>1 DEF DeliveryInvariant, PhaseOK
<1>3. Len(saved.commands) \in Nat /\ Len(saved.commands) <= saved.rows /\ saved.rows \in 0..Room
    BY LenProperties DEF DeliveryInvariant, TypeOK, RoomOK
<1>4. NextUpdate \in Commands /\ entries[NextUpdate].deferrals \in Nat
    BY <1>2, NextIsOutstanding, OutstandingCounters DEF DeliveryInvariant, TypeOK
<1>5. failure = "Deferred" =>
          /\ NextUpdate \in Places \/ Deferral(entries[NextUpdate]) < MaxDeliveryDeferrals
          /\ Delivered # {}
    <2> SUFFICES ASSUME failure = "Deferred"
                 PROVE  /\ NextUpdate \in Places \/ Deferral(entries[NextUpdate]) < MaxDeliveryDeferrals
                        /\ Delivered # {}
        OBVIOUS
    <2>1. refusal = "Deferrable" /\ ~CancelAtBound(NextUpdate)
        OBVIOUS
    <2>2. NextUpdate \in Places \/ Deferral(entries[NextUpdate]) < MaxDeliveryDeferrals
        BY <1>4, <2>1, LimitsAssumption DEF CancelAtBound, Deferral
    <2>3. 1 \in 1..Len(saved.commands)
        BY <1>2, <1>3, <2>1
    <2> QED BY <1>2, <2>2, <2>3 DEF HasHandled
<1>6. failure \in {"Counted", "Deferred", "Held"} /\ (failure = "Held" <=> MustWait(NextUpdate))
    BY <1>2
<1>7. /\ QueueOK' /\ FailedOK' /\ IsPartial(failed, updated, Failure)'
      /\ Undelivered' \subseteq updated /\ Delivered' = Delivered
    <2> HIDE DEF failure
    <2> QED BY <1>1, <1>2, <1>5, <1>6, FailureIsExpected
<1>8. TypeOK'
    BY <1>1, <1>7 DEF DeliveryInvariant, TypeOK, Undelivered
<1>9. HandledExactlyOnce' /\ CountersOK' /\ RoomOK'
    BY <1>1 DEF DeliveryInvariant, HandledExactlyOnce, CountersOK, RoomOK
<1>10. PhaseOK'
    <2>1. HasHandled(kernel, commands)'
        BY <1>1, <1>2, <1>7 DEF HasHandled
    <2>2. unitStart' <= Len(commands')
        BY <1>1, <1>2, <1>3
    <2> QED BY <1>1, <2>1, <2>2 DEF PhaseOK
<1> QED BY <1>7, <1>8, <1>9, <1>10 DEF DeliveryInvariant

\* The decision goes back to its start: every update of it failed.
LEMMA CannotRestoreKeepsInvariant ==
    ASSUME DeliveryInvariant, CannotRestore
    PROVE  DeliveryInvariant'
<1> DEFINE c == NextUpdate
<1>1. /\ phase = "Handling" /\ phase' = "Delivering" /\ todo' = <<>>
      /\ kernel' = committed /\ commands' = <<>> /\ rows' = 0
      /\ failed' = RollsBack(c)
      /\ UNCHANGED <<order, entries, committed, abandoned, updated, saved, unitStart, refusal>>
    BY DEF CannotRestore, section
<1>2. todo # <<>> /\ ~MustWait(c)
    BY <1>1 DEF DeliveryInvariant, PhaseOK
<1>3. /\ c \in Undelivered /\ c \in updated
    BY <1>2, NextIsOutstanding
<1>4. /\ DOMAIN failed' = updated /\ failed'[c] = "Counted"
      /\ \A d \in updated : d # c =>
            failed'[d] = IF d \in DOMAIN failed THEN failed[d] ELSE "RolledBack"
    BY <1>1, <1>3 DEF RollsBack
<1>5. c \notin DOMAIN failed /\ DOMAIN failed \subseteq updated
    BY <1>3 DEF DeliveryInvariant, QueueOK, TypeOK, IsPartial
<1>6. Len(todo') = 0 /\ Len(commands') = 0
    BY <1>1
<1>7. Undelivered' = {}
    BY <1>6 DEF Undelivered
<1>8. Delivered' = {}
    BY <1>1, <1>4 DEF Delivered
<1>9. QueueOK'
    <2>1. todo' \in Seq([command : updated', first : BOOLEAN])
        BY <1>1
    <2>2. \A j \in 1..Len(todo') : FALSE
        BY <1>6
    <2>3. \A d \in updated' \ Undelivered' : Targets(updated, d)' \cap Undelivered' = {}
        BY <1>7
    <2> QED BY <1>7, <2>1, <2>2, <2>3 DEF QueueOK
<1>10. IsPartial(failed, updated, Failure)'
    <2>1. \A d \in updated : failed'[d] \in Failure
        BY <1>4 DEF DeliveryInvariant, TypeOK, IsPartial, Failure
    <2>2. failed' = [d \in updated |-> failed'[d]]
        BY <1>1 DEF RollsBack
    <2>3. failed' \in [updated -> Failure]
        BY <2>1, <2>2
    <2> QED BY <1>1, <1>4, <2>3 DEF IsPartial
<1>11. FailedOK'
    <2>1. \A d : TargetFailed(d) => TargetFailed(d)'
        BY <1>1, <1>4, <1>5 DEF TargetFailed, TargetUpdates
    <2>2. ASSUME NEW d \in updated, failed'[d] = "Held"
          PROVE  d \notin Places /\ TargetFailed(d)' /\ Deferral(entries[d]) < MaxDeliveryDeferrals
        <3>1. d \in DOMAIN failed /\ failed[d] = "Held"
            BY <1>4, <2>2
        <3> QED BY <2>1, <3>1 DEF DeliveryInvariant, FailedOK
    <2>3. ASSUME NEW d \in updated, failed'[d] = "Deferred"
          PROVE  /\ d \in Places \/ Deferral(entries[d]) < MaxDeliveryDeferrals
                 /\ \E e \in updated \ {d} : failed'[e] = "RolledBack"
        <3>1. d \in DOMAIN failed /\ failed[d] = "Deferred"
            BY <1>4, <2>3
        <3>2. \A e \in DOMAIN failed : failed[e] # "RolledBack"
            BY <1>2 DEF DeliveryInvariant, FailedOK
        <3>3. /\ d \in Places \/ Deferral(entries[d]) < MaxDeliveryDeferrals
              /\ \E e \in updated \ {d} : e \in Delivered
            BY <3>1, <3>2 DEF DeliveryInvariant, FailedOK
        <3>4. \A e \in Delivered : e \in updated /\ e # c /\ e \notin DOMAIN failed
            BY <1>3 DEF Delivered
        <3> QED BY <1>4, <3>3, <3>4
    <2>4. ASSUME NEW d \in updated \cap Cancels, TargetFailed(d)',
                 Deferral(entries[d]) < MaxDeliveryDeferrals
          PROVE  failed'[d] \in {"Held", "RolledBack"}
        <3>1. PICK o \in TargetUpdates(updated, entries, d) :
                  o \in updated /\ failed'[o] \in {"Counted", "Deferred"}
            BY <1>1, <1>4, <2>4 DEF TargetFailed, TargetUpdates
        <3>2. o \in Targets(updated, d)
            BY <3>1, CommandsAssumption DEF Targets
        <3>3. CASE d \in Undelivered /\ d # c
            BY <1>4, <3>3 DEF DeliveryInvariant, QueueOK
        <3>4. CASE d = c
            <4>1. o # c
                BY <1>2, <3>2, <3>4, TargetsAreDone
            <4>2. o \in DOMAIN failed
                BY <1>4, <3>1, <4>1
            <4> QED BY <1>2, <2>4, <3>2, <3>4, <4>2 DEF MustWait, OutOfOrder
        <3>5. CASE d \notin Undelivered
            <4>1. o # c
                BY <1>3, <3>2, <3>5 DEF DeliveryInvariant, QueueOK
            <4>2. o \in DOMAIN failed /\ failed[o] \in {"Counted", "Deferred"}
                BY <1>4, <3>1, <4>1
            <4>3. TargetFailed(d)
                BY <3>1, <4>2 DEF TargetFailed
            <4>4. d \in DOMAIN failed /\ failed[d] \in {"Held", "RolledBack"}
                BY <2>4, <3>5, <4>3 DEF DeliveryInvariant, FailedOK
            <4> QED BY <1>4, <1>5, <4>4
        <3> QED BY <3>3, <3>4, <3>5
    <2> QED BY <1>1, <1>3, <1>4, <2>2, <2>3, <2>4 DEF FailedOK
<1>12. TypeOK'
    <2>1. commands' \in Seq(Issued) /\ rows' \in 0..Room
        BY <1>1, DeliveryAssumption
    <2>2. kernel' \in [Commands -> 0..2]
        BY <1>1 DEF DeliveryInvariant, TypeOK
    <2>3. {todo[j].command : j \in 1..Len(todo)}' \subseteq updated'
        BY <1>7 DEF Undelivered
    <2>4. /\ saved' = saved /\ order' = order /\ entries' = entries /\ abandoned' = abandoned
          /\ updated' = updated /\ committed' = committed
          /\ unitStart' = unitStart /\ refusal' = refusal /\ phase' = "Delivering"
        BY <1>1
    <2> QED BY <1>10, <2>1, <2>2, <2>3, <2>4 DEF DeliveryInvariant, TypeOK
<1>13. HandledExactlyOnce' /\ CountersOK'
    BY <1>1 DEF DeliveryInvariant, HandledExactlyOnce, CountersOK
<1>14. RoomOK'
    BY <1>1, <1>6 DEF DeliveryInvariant, RoomOK
<1>15. PhaseOK'
    <2>1. \A d \in Commands : committed[d] + 0 = committed[d]
        <3>1. \A d \in Commands : committed[d] \in 0..2
            BY DEF DeliveryInvariant, TypeOK
        <3> QED BY <3>1
    <2>2. committed = [d \in Commands |-> committed[d]]
        BY DEF DeliveryInvariant, TypeOK
    <2>3. HasHandled(kernel, commands)'
        BY <1>1, <1>6, <1>8, <2>1, <2>2 DEF HasHandled
    <2> QED BY <1>1, <2>3 DEF PhaseOK
<1> QED BY <1>9, <1>11, <1>12, <1>13, <1>14, <1>15 DEF DeliveryInvariant

\* The decision is over, and what it leaves in the section is as it should be.
LEMMA EndsKeepsInvariant ==
    ASSUME Ends, order' \in Orderings, IsPartial(entries, Commands, Entry)',
           abandoned' \subseteq Commands \ DOMAIN entries', committed' \in [Commands -> 0..2],
           HandledExactlyOnce', CountersOK'
    PROVE  DeliveryInvariant'
<1>1. /\ phase' = "Between decisions" /\ updated' = {} /\ failed' = NoneFailed
      /\ kernel' = committed' /\ refusal' = "None"
    BY DEF Ends
<1>2. todo' = <<>> /\ commands' = <<>> /\ rows' = 0 /\ unitStart' = NotStarted
    BY DEF Ends
<1>3. Len(todo') = 0 /\ Len(commands') = 0
    BY <1>2
<1>4. saved' = [kernel |-> committed', commands |-> commands', rows |-> rows']
    BY Zenon DEF Ends
<1>5. Undelivered' = {}
    BY <1>3 DEF Undelivered
<1>6. TypeOK'
    <2>1. commands' \in Seq(Issued) /\ rows' \in 0..Room
        BY <1>2, DeliveryAssumption
    <2>2. /\ saved'.kernel \in [Commands -> 0..2]
          /\ saved'.commands \in Seq(Issued) /\ saved'.rows \in 0..Room
        BY <1>4, <2>1
    <2>3. {todo[j].command : j \in 1..Len(todo)}' \subseteq updated'
        BY <1>5 DEF Undelivered
    <2>4. IsPartial(failed, updated, Failure)'
        BY <1>1 DEF IsPartial, NoneFailed
    <2>5. unitStart' \in NotStarted..Room
        BY <1>2, DeliveryAssumption DEF NotStarted
    <2>6. kernel' \in [Commands -> 0..2] /\ updated' \subseteq DOMAIN entries'
        BY <1>1
    <2>7. /\ phase' \in {"Between decisions", "Delivering", "Handling"}
          /\ refusal' \in {"None", "Final", "Deferrable"}
        BY <1>1
    <2> QED BY <2>1, <2>2, <2>3, <2>4, <2>5, <2>6, <2>7 DEF TypeOK
<1>7. RoomOK'
    BY <1>2, <1>3, <1>4 DEF RoomOK
<1>8. QueueOK'
    <2>1. todo' \in Seq([command : updated', first : BOOLEAN])
        BY <1>2
    <2>2. \A j \in 1..Len(todo') : FALSE
        BY <1>3
    <2>3. updated' = {}
        BY <1>1
    <2> QED BY <1>5, <2>1, <2>2, <2>3 DEF QueueOK
<1>9. FailedOK'
    <2>1. updated' = {} /\ DOMAIN failed' = {}
        BY <1>1 DEF NoneFailed
    <2> QED BY <2>1 DEF FailedOK
<1>10. PhaseOK'
    BY <1>1, <1>2 DEF PhaseOK
<1> QED BY <1>6, <1>7, <1>8, <1>9, <1>10 DEF DeliveryInvariant

\* A completed decision keeps the invariant: the handled updates are no longer outstanding,
\* the failed ones are, counted.
LEMMA CompletesKeepsInvariant ==
    ASSUME DeliveryInvariant, Completes
    PROVE  DeliveryInvariant'
<1> DEFINE retried == RetriedIn([entries |-> entries], failed)
           dropped == AbandonedIn([entries |-> entries], failed)
<1>1. /\ phase = "Delivering" /\ todo = <<>>
      /\ entries' = [c \in (DOMAIN entries \ updated) \cup retried |->
                        IF c \in updated THEN Reinstated(entries[c], failed[c]) ELSE entries[c]]
      /\ abandoned' = abandoned \cup dropped
      /\ committed' = kernel /\ order' = order
      /\ Ends
    BY DEF Completes
<1>2. /\ retried = {c \in DOMAIN failed : Retried(entries[c], failed[c])}
      /\ dropped = {c \in DOMAIN failed : ~Retried(entries[c], failed[c])}
    BY DEF RetriedIn, AbandonedIn
<1>3. /\ DOMAIN failed \subseteq updated /\ updated \subseteq DOMAIN entries
      /\ DOMAIN entries \subseteq Commands
      /\ \A c \in DOMAIN failed : failed[c] \in Failure
      /\ \A c \in DOMAIN entries : entries[c] \in Entry
    BY DEF DeliveryInvariant, TypeOK, IsPartial
<1>4. /\ DOMAIN entries' = (DOMAIN entries \ updated) \cup retried
      /\ \A c \in DOMAIN entries \ updated : entries'[c] = entries[c]
      /\ \A c \in retried : entries'[c] = Reinstated(entries[c], failed[c])
    <2> HIDE DEF retried
    <2>1. retried \subseteq updated
        BY <1>2, <1>3
    <2> QED BY <1>1, <2>1
<1>5. ASSUME NEW c \in DOMAIN failed
      PROVE  /\ Reinstated(entries[c], failed[c]) \in Entry
             /\ Retried(entries[c], failed[c]) =>
                   /\ Reinstated(entries[c], failed[c]).failures < MaxDeliveryAttempts
                   /\ Reinstated(entries[c], failed[c]).deferrals < MaxDeliveryDeferrals
    <2>1. entries[c] \in Entry /\ failed[c] \in Failure
        BY <1>3, <1>5
    <2>2. /\ Attempts(entries[c], failed[c]) \in Nat
          /\ Deferrals(entries[c], failed[c]) \in Nat
        BY <2>1 DEF Entry, Failure, Attempts, Deferrals
    <2> QED BY <2>1, <2>2 DEF Entry, Reinstated, Retried
<1>6. IsPartial(entries, Commands, Entry)'
    <2>1. \A c \in DOMAIN entries' : c \in Commands /\ entries'[c] \in Entry
        <3> HIDE DEF retried
        <3> QED BY <1>2, <1>3, <1>4, <1>5
    <2>2. entries' = [c \in DOMAIN entries' |-> entries'[c]]
        <3> HIDE DEF retried
        <3> QED BY <1>1
    <2> QED BY <2>1, <2>2 DEF IsPartial
<1>7. CountersOK'
    <2> HIDE DEF retried
    <2> QED BY <1>2, <1>3, <1>4, <1>5 DEF DeliveryInvariant, CountersOK
<1>8. abandoned' \subseteq Commands \ DOMAIN entries'
    <2>1. abandoned \subseteq Commands \ DOMAIN entries
        BY DEF DeliveryInvariant, TypeOK
    <2> HIDE DEF retried, dropped
    <2> QED BY <1>1, <1>2, <1>3, <1>4, <2>1
<1>9. committed' \in [Commands -> 0..2] /\ order' \in Orderings
    BY <1>1 DEF DeliveryInvariant, TypeOK
<1>10. HandledExactlyOnce'
    <2>1. Delivered = updated \ DOMAIN failed
        <3>1. Len(todo) = 0
            BY <1>1
        <3>2. Undelivered = {}
            BY <3>1 DEF Undelivered
        <3> QED BY <3>2 DEF Delivered
    <2>2. \A c \in Commands : committed'[c] = committed[c] + IF c \in Delivered THEN 1 ELSE 0
        BY <1>1 DEF DeliveryInvariant, PhaseOK, HasHandled
    <2>3. \A c \in Commands : committed[c] = IF c \in abandoned \cup DOMAIN entries THEN 0 ELSE 1
        BY DEF DeliveryInvariant, HandledExactlyOnce
    <2>4. abandoned \subseteq Commands \ DOMAIN entries
        BY DEF DeliveryInvariant, TypeOK
    <2>5. ASSUME NEW c \in Commands
          PROVE  committed'[c] = IF c \in abandoned' \cup DOMAIN entries' THEN 0 ELSE 1
        <3> HIDE DEF retried, dropped
        <3>1. CASE c \in Delivered
            <4>1. c \notin abandoned' \cup DOMAIN entries' /\ c \in DOMAIN entries
                BY <1>1, <1>2, <1>3, <1>4, <2>1, <2>4, <3>1
            <4> QED BY <2>2, <2>3, <3>1, <4>1
        <3>2. CASE c \notin Delivered
            <4>1. c \in abandoned' \cup DOMAIN entries' <=> c \in abandoned \cup DOMAIN entries
                BY <1>1, <1>2, <1>3, <1>4, <2>1, <3>2
            <4> QED BY <2>2, <2>3, <3>2, <4>1
        <3> QED BY <3>1, <3>2
    <2> QED BY <2>5 DEF HandledExactlyOnce
<1> QED BY <1>1, <1>6, <1>7, <1>8, <1>9, <1>10, EndsKeepsInvariant

\* Every step of a delivery keeps the invariant.
LEMMA NextDeliveryInvariant == DeliveryInvariant /\ [Next]_vars => DeliveryInvariant'
<1> SUFFICES ASSUME DeliveryInvariant, [Next]_vars PROVE DeliveryInvariant'
    OBVIOUS
<1>1. CASE Begin
    BY <1>1, BeginKeepsInvariant
<1>2. CASE Hold
    BY <1>2, SkipKeepsInvariant DEF Hold
<1>3. CASE SnapshotFails
    BY <1>3, SkipKeepsInvariant DEF SnapshotFails
<1>4. CASE Deliver
    BY <1>4, DeliverKeepsInvariant
<1>5. ASSUME NEW cost \in Costs, Issue(cost) PROVE DeliveryInvariant'
    BY <1>5, IssueKeepsInvariant
<1>6. CASE Return
    BY <1>6, HandledKeepsInvariant, FailureKeepsInvariant, CannotRestoreKeepsInvariant DEF Return
<1>7. CASE Completes
    BY <1>7, CompletesKeepsInvariant
<1>8. CASE Rejects \/ StartLost
    <2>1. Ends /\ UNCHANGED <<order, entries, committed, abandoned>>
        BY <1>8 DEF Rejects, StartLost, section
    <2>2. /\ order' \in Orderings /\ IsPartial(entries, Commands, Entry)'
          /\ abandoned' \subseteq Commands \ DOMAIN entries' /\ committed' \in [Commands -> 0..2]
        BY <2>1 DEF DeliveryInvariant, TypeOK, IsPartial
    <2>3. HandledExactlyOnce' /\ CountersOK'
        BY <2>1 DEF DeliveryInvariant, HandledExactlyOnce, CountersOK
    <2> QED BY <2>1, <2>2, <2>3, EndsKeepsInvariant
<1>9. CASE UNCHANGED vars
    <2>1. UNCHANGED <<order, entries, committed, abandoned, phase, updated, todo, failed, kernel,
                      commands, rows, saved, unitStart, refusal>>
        BY <1>9 DEF vars, section, loop
    <2>2. /\ QueueOK' /\ FailedOK' /\ Undelivered' = Undelivered /\ Delivered' = Delivered
          /\ IsPartial(failed, updated, Failure)'
        BY <2>1, NoDeliveryIsMade
    <2>3. TypeOK'
        BY <2>1, <2>2 DEF DeliveryInvariant, TypeOK, IsPartial
    <2>4. HandledExactlyOnce' /\ CountersOK' /\ RoomOK'
        BY <2>1 DEF DeliveryInvariant, HandledExactlyOnce, CountersOK, RoomOK
    <2>5. PhaseOK'
        <3>1. MustWait(NextUpdate)' <=> MustWait(NextUpdate)
            BY <2>1 DEF MustWait, OutOfOrder, Targets, TargetUpdates, IssuedBefore, NextUpdate
        <3>2. /\ HasHandled(kernel, commands)' <=> HasHandled(kernel, commands)
              /\ HasHandled(saved.kernel, saved.commands)' <=> HasHandled(saved.kernel, saved.commands)
            BY <2>1, <2>2 DEF HasHandled
        <3>3. NextUpdate' = NextUpdate
            BY <2>1 DEF NextUpdate
        <3> QED BY <2>1, <2>2, <3>1, <3>2, <3>3 DEF DeliveryInvariant, PhaseOK
    <2> QED BY <2>2, <2>3, <2>4, <2>5 DEF DeliveryInvariant
<1> QED BY <1>1, <1>2, <1>3, <1>4, <1>5, <1>6, <1>7, <1>8, <1>9 DEF Next

\* The invariant holds in every state the delivery reaches.
LEMMA DeliveryIsInvariant == Spec => []DeliveryInvariant
BY InitDeliveryInvariant, NextDeliveryInvariant, PTL DEF Spec

-----------------------------------------------------------------------------
(* The theorems.                                                           *)

\* Whatever the loop does, its state is well typed: the commands of a decision never
\* take more than the room, an update in hand is outstanding, a count of handled
\* updates never exceeds two.
THEOREM DeliveryTypeOK == Spec => []TypeOK
<1>1. DeliveryInvariant => TypeOK
    BY DEF DeliveryInvariant
<1> QED BY <1>1, DeliveryIsInvariant, PTL

\* Over all decisions, however updates fail and decisions are rejected or rolled back,
\* a checkpoint's kernel has handled an update once, or never if it was abandoned or is
\* outstanding.
THEOREM UpdatesAreHandledOnce == Spec => []HandledExactlyOnce
<1>1. DeliveryInvariant => HandledExactlyOnce
    BY DEF DeliveryInvariant
<1> QED BY <1>1, DeliveryIsInvariant, PTL

\* Undoing an update leaves nothing of it: between two updates, the kernel and the
\* commands are what the updates delivered without a failure made of them.
THEOREM FailuresAreUndone == Spec => []FailuresLeaveNothing
<1>1. ASSUME DeliveryInvariant PROVE FailuresLeaveNothing
    <2> SUFFICES ASSUME phase = "Delivering"
                 PROVE  HasHandled(kernel, commands)
        BY DEF FailuresLeaveNothing, HasHandled, Delivered, Undelivered
    <2> QED BY <1>1 DEF DeliveryInvariant, PhaseOK
<1> QED BY <1>1, DeliveryIsInvariant, PTL

\* However updates are deferred past one another, the kernel is handed a cancel's update
\* after its target's, unless the target's failed and the cancel has waited its most.
THEOREM TargetsComeFirst == Spec => []CancelsFollowTargets
<1>1. ASSUME DeliveryInvariant PROVE CancelsFollowTargets
    <2> SUFFICES ASSUME phase = "Handling", NEW o \in Targets(updated, NextUpdate)
                 PROVE  \/ o \notin DOMAIN failed /\ kernel[o] = committed[o] + 1
                        \/ o \in DOMAIN failed /\ Deferral(entries[NextUpdate]) >= MaxDeliveryDeferrals
        BY DEF CancelsFollowTargets
    <2>1. /\ todo # <<>> /\ ~MustWait(NextUpdate)
          /\ HasHandled(saved.kernel, saved.commands)
          /\ kernel = [saved.kernel EXCEPT ![NextUpdate] = @ + 1]
        BY <1>1 DEF DeliveryInvariant, PhaseOK
    <2>2. o \notin Undelivered /\ o # NextUpdate
        BY <1>1, <2>1, TargetsAreDone
    <2>3. o \in updated /\ o \in Commands
        BY <1>1, TargetsArePlaces DEF DeliveryInvariant, TypeOK, IsPartial
    <2>4. CASE o \in DOMAIN failed
        <3>1. ~(Deferral(entries[NextUpdate]) < MaxDeliveryDeferrals)
            BY <2>1, <2>4 DEF MustWait, OutOfOrder
        <3>2. entries[NextUpdate].deferrals \in Nat
            BY <1>1, <2>1, NextIsOutstanding, OutstandingCounters DEF DeliveryInvariant, TypeOK
        <3> QED BY <2>4, <3>1, <3>2, LimitsAssumption DEF Deferral
    <2>5. CASE o \notin DOMAIN failed
        <3>1. o \in Delivered
            BY <2>2, <2>3, <2>5 DEF Delivered
        <3> QED BY <2>1, <2>2, <2>3, <2>5, <3>1 DEF HasHandled
    <2> QED BY <2>4, <2>5
<1> QED BY <1>1, DeliveryIsInvariant, PTL

\* What the loop ends with is one of the outcomes RunnerSection lets a decision end
\* with: its proofs hold of the loop.
THEOREM LoopEndsAsAssumed == Spec => []OutcomesAsAssumed
<1>1. ASSUME DeliveryInvariant PROVE OutcomesAsAssumed
    <2> SUFFICES ASSUME phase = "Delivering", todo = <<>>
                 PROVE  failed \in OutcomesOf(updated, entries)
        BY DEF OutcomesAsAssumed
    <2>1. Len(todo) = 0
        OBVIOUS
    <2>2. Undelivered = {}
        BY <2>1 DEF Undelivered
    <2>3. Delivered = updated \ DOMAIN failed
        BY <2>2 DEF Delivered
    <2>4. DOMAIN failed \subseteq updated /\ failed \in [DOMAIN failed -> Failure]
        BY <1>1 DEF DeliveryInvariant, TypeOK, IsPartial
    <2>5. failed \in UNION {[F -> Failure] : F \in SUBSET updated}
        BY <2>4
    <2>6. (\E c \in DOMAIN failed : failed[c] = "RolledBack") =>
              /\ DOMAIN failed = updated
              /\ \E c \in updated : failed[c] = "Counted"
        BY <1>1 DEF DeliveryInvariant, FailedOK
    <2>7. /\ \A c \in DOMAIN failed : failed[c] = "Held" =>
                /\ c \notin Places /\ TargetFailed(c)
                /\ Deferral(entries[c]) < MaxDeliveryDeferrals
          /\ \A c \in updated \cap Cancels :
                TargetFailed(c) /\ Deferral(entries[c]) < MaxDeliveryDeferrals =>
                    c \in DOMAIN failed /\ failed[c] \in {"Held", "RolledBack"}
        BY <1>1, <2>2 DEF DeliveryInvariant, FailedOK
    <2>8. \A c \in DOMAIN failed : failed[c] = "Deferred" =>
                /\ c \in Places \/ Deferral(entries[c]) < MaxDeliveryDeferrals
                /\ \E d \in updated \ {c} : d \notin DOMAIN failed \/ failed[d] = "RolledBack"
        BY <1>1, <2>3 DEF DeliveryInvariant, FailedOK
    <2> QED BY <2>5, <2>6, <2>7, <2>8 DEF OutcomesOf, TargetFailed
<1> QED BY <1>1, DeliveryIsInvariant, PTL

\* The update deferred most often comes first: only the targets it pulls along with it,
\* or that an update as often deferred does, come before it.
THEOREM DeferredComeFirst == Spec => []MostDeferredFirst
<1>1. ASSUME DeliveryInvariant PROVE MostDeferredFirst
    <2> SUFFICES ASSUME phase = "Handling", NEW i \in 2..Len(todo)
                 PROVE  \/ entries[todo[i].command].deferrals <= entries[NextUpdate].deferrals
                        \/ \E d \in updated \ Places :
                              /\ NextUpdate \in Targets(updated, d)
                              /\ entries[d].deferrals >= entries[todo[i].command].deferrals
        BY DEF MostDeferredFirst
    <2>1. Len(todo) \in Nat
        BY <1>1, LenProperties DEF DeliveryInvariant, QueueOK
    <2>2. i \in 1..Len(todo) /\ 1 \in 1..Len(todo) /\ 1 < i
        BY <2>1
    <2> QED BY <1>1, <2>2 DEF DeliveryInvariant, QueueOK, NextUpdate
<1> QED BY <1>1, DeliveryIsInvariant, PTL

\* A cancel's update is given up on for its own failures only: the decisions it waits,
\* for its target or for room, never add up to an abandonment.
THEOREM CancelsOutwaitDeferrals == Spec => CancelsAreNotDeferredOut
<1> DEFINE OwnFailures ==
               \A c \in abandoned' \ abandoned :
                  c \notin Places => /\ failed[c] = "Counted"
                                     /\ entries[c].failures + 1 = MaxDeliveryAttempts
<1>1. ASSUME DeliveryInvariant, [Next]_vars PROVE [OwnFailures]_vars
    <2>1. CASE Completes
        <3>1. abandoned' = abandoned \cup {c \in DOMAIN failed : ~Retried(entries[c], failed[c])}
            BY <2>1 DEF Completes, AbandonedIn
        <3>2. ASSUME NEW c \in DOMAIN failed, ~Retried(entries[c], failed[c]), c \notin Places
              PROVE  failed[c] = "Counted" /\ entries[c].failures + 1 = MaxDeliveryAttempts
            <4>1. c \in DOMAIN entries /\ failed[c] \in {"Counted", "Deferred", "RolledBack", "Held"}
                BY <1>1 DEF DeliveryInvariant, TypeOK, IsPartial, Failure
            <4>2. /\ entries[c].failures \in Nat /\ entries[c].failures < MaxDeliveryAttempts
                  /\ entries[c].deferrals \in Nat /\ entries[c].deferrals < MaxDeliveryDeferrals
                BY <1>1, <4>1, OutstandingCounters DEF DeliveryInvariant, CountersOK
            <4>3. failed[c] \in {"Held", "Deferred"} => entries[c].deferrals + 1 < MaxDeliveryDeferrals
                BY <1>1, <3>2 DEF DeliveryInvariant, FailedOK, Deferral
            <4> QED BY <3>2, <4>1, <4>2, <4>3, LimitsAssumption DEF Retried, Attempts, Deferrals
        <3> QED BY <3>1, <3>2
    <2>2. CASE ~Completes
        <3>1. abandoned' = abandoned
            BY <1>1, <2>2 DEF Next, vars, section, Begin, Hold, SnapshotFails, Skips, Deliver, Issue,
                              Return, Handled, Fails, CannotRestore, Rejects, StartLost
        <3> QED BY <3>1
    <2> QED BY <2>1, <2>2
<1> QED BY <1>1, DeliveryIsInvariant, PTL DEF Spec, CancelsAreNotDeferredOut
=============================================================================
