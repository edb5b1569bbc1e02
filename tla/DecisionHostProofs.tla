------------------------- MODULE DecisionHostProofs -------------------------
(***************************************************************************)
(* Proofs about DecisionHost, for every limit and every context: a         *)
(* cancel-all fits the plan when it comes first, the live entries stay     *)
(* within their bound whatever updates fail, what the host keeps beside a  *)
(* decision's commands follows from them, and what a decision ends with,   *)
(* its checkpoint included, passes the contract's own check unless an id   *)
(* of a refused place is used again.                                       *)
(***************************************************************************)
EXTENDS DecisionHost, OrderLemmas

\* The entries that a failed update could bring back.
Pruned(c) == c.final \cup c.refused \cup (c.hidden \cap c.updates)

Bounded(c, entries) ==
    Cardinality(c.open) + c.waiting + entries + Cardinality(Pruned(c)) <= MaxRunnerEntries

\* What the host counts before and after it issues its first Broker command.
HostOK(c, h) ==
    /\ DOMAIN h = {"commands", "provisional", "marked", "plan", "timers", "entries", "reserved"}
    /\ h.entries \in Nat
    /\ h.entries = 0 => h.plan = EmptyPlan(c.mode, Cardinality(c.open))
    /\ h.entries > 0 => Bounded(c, h.entries)

HostInvariant ==
    /\ context \in Context /\ IsContext(context)
    /\ HostOK(context, host)
    /\ HostOK(context, saved)

\* The sets of a context are finite, their sizes are numbers.
LEMMA ContextSizes ==
    ASSUME NEW c \in Context
    PROVE  /\ Cardinality(c.open) \in Nat
           /\ c.waiting \in Nat
           /\ IsFiniteSet(c.open) /\ IsFiniteSet(Pruned(c)) /\ IsFiniteSet(c.hidden)
           /\ Cardinality(Pruned(c)) \in Nat
<1>1. c.open \in SUBSET Ids /\ c.hidden \in SUBSET Ids /\ Pruned(c) \in SUBSET Ids
    BY DEF Context, Pruned
<1>2. IsFiniteSet(c.open) /\ IsFiniteSet(Pruned(c)) /\ IsFiniteSet(c.hidden)
    BY <1>1, HostAssumption, FS_Subset
<1> QED BY <1>2, FS_CardinalityType DEF Context

\* Within the open-order cap, a cancel-all that comes first fits the plan.
LEMMA CancelAllFitsEmptyPlan ==
    ASSUME NEW mode \in Modes, NEW open \in Nat, open <= MaxOpenOrders(mode),
           NEW acknowledges \in BOOLEAN
    PROVE  Fits(WithCancelAll(EmptyPlan(mode, open)), acknowledges)
<1> DEFINE plan == EmptyPlan(mode, open)
           rows == CancelAllRows(plan)
<1>1. rows \in Nat
    BY DEF CancelAllRows, EmptyPlan, CancelAllOrdersPlanRows, CancelOrderPlanRows,
           CollapsedPlacePlanRows, RefusedCommandPlanRows
<1>2. DecisionPlanRows + rows + AcknowledgementPlanRows <= MaxDecisionPlanRows
    BY PlanAssumption
    DEF CancelAllRows, EmptyPlan, MaxOpenOrders, DecisionPlanRows, AcknowledgementPlanRows,
        CancelAllOrdersPlanRows, CancelOrderPlanRows, CollapsedPlacePlanRows,
        RefusedCommandPlanRows
<1>3. WithCancelAll(plan).rows = rows /\ WithCancelAll(plan).brokerCommands = 1
    <2> HIDE DEF rows
    <2>1. plan \in Plan /\ plan.rows = 0 /\ plan.brokerCommands = 0
        BY DEF EmptyPlan, Plan
    <2>2. WithRows(plan, rows).rows = 0 + rows /\ WithRows(plan, rows).brokerCommands = 0 + 1
          /\ {"rows", "brokerCommands"} \subseteq DOMAIN WithRows(plan, rows)
        <3> HIDE DEF plan
        <3> QED BY <2>1 DEF WithRows, Plan
    <2>3. WithCancelAll(plan) = [WithRows(plan, rows) EXCEPT !.context = 0, !.own = 0]
        BY DEF WithCancelAll, rows
    <2> QED BY <1>1, <2>2, <2>3
<1> QED BY <1>1, <1>2, <1>3, PlanAssumption
        DEF Fits, Total, DecisionPlanRows, AcknowledgementPlanRows

\* A decision starts within the host's bounds.
LEMMA StartIsOK == ASSUME NEW c \in Context PROVE HostOK(c, HostStart(c))
    BY DEF HostOK, HostStart

\* A Broker command that is admitted keeps the host's counts within their bound.
LEMMA CommandIsOK ==
    ASSUME HostInvariant, NEW h, DOMAIN h = DOMAIN host, h.entries = host.entries + 1, EntryLeft
    PROVE  HostOK(context, h)
<1>1. host.entries \in Nat /\ DOMAIN host = {"commands", "provisional", "marked", "plan",
                                             "timers", "entries", "reserved"}
    BY DEF HostInvariant, HostOK
<1>2. Bounded(context, h.entries)
    BY <1>1, ContextSizes, HostAssumption DEF HostInvariant, Bounded, EntryLeft, Reinstatable, Pruned
<1> QED BY <1>1, <1>2 DEF HostOK

\* Every context starts within the host's bounds.
LEMMA InitHost == Init => HostInvariant
<1> SUFFICES ASSUME Init PROVE HostInvariant
    OBVIOUS
<1>1. context \in Context /\ IsContext(context)
    BY ContextsAssumption DEF Init
<1> QED BY <1>1, StartIsOK DEF Init, HostInvariant

\* Every call, update and trigger keeps the host within its bounds, accepted or undone.
LEMMA NextHost == HostInvariant /\ [Next]_vars => HostInvariant'
<1> SUFFICES ASSUME HostInvariant, [Next]_vars PROVE HostInvariant'
    OBVIOUS
<1> USE DEF HostInvariant
<1>1. ASSUME NEW c \in Ids \cup {Unnamed}, NEW commitment \in 0..1, Place(c, commitment)
      PROVE  HostInvariant'
    <2>1. DOMAIN host' = DOMAIN host /\ host'.entries = host.entries + 1
        BY <1>1 DEF Place, HostOK
    <2> QED BY <1>1, <2>1, CommandIsOK DEF Place, BrokerCommandFits
<1>2. ASSUME NEW id \in Ids \cup Placed, CancelOwn(id) PROVE HostInvariant'
    <2>1. DOMAIN host' = DOMAIN host /\ host'.entries = host.entries + 1
        BY <1>2 DEF CancelOwn, HostOK
    <2> QED BY <1>2, <2>1, CommandIsOK DEF CancelOwn, BrokerCommandFits
<1>3. ASSUME NEW id \in Ids \cup Placed, CancelOrder(id) PROVE HostInvariant'
    <2>1. DOMAIN host' = DOMAIN host /\ host'.entries = host.entries + 1
        BY <1>3 DEF CancelOrder, HostOK
    <2> QED BY <1>3, <2>1, CommandIsOK DEF CancelOrder, BrokerCommandFits
<1>4. CASE CancelAll
    <2>1. DOMAIN host' = DOMAIN host /\ host'.entries = host.entries + 1
        BY <1>4 DEF CancelAll, HostOK
    <2> QED BY <1>4, <2>1, CommandIsOK DEF CancelAll, BrokerCommandFits
<1>5. ASSUME NEW kind, NEW key, Timer(kind, key) PROVE HostInvariant'
    BY <1>5 DEF Timer, HostOK
<1>6. CASE Request
    BY <1>6 DEF Request, HostOK
<1>7. CASE Stop
    BY <1>7 DEF Stop, HostOK
<1>8. CASE Fails
    BY <1>8 DEF Fails, UpdateEnds, Restored
<1>9. CASE CannotRestore \/ TriggerEnds
    BY <1>9, StartIsOK DEF CannotRestore, TriggerEnds, UpdateEnds
<1>10. ASSUME NEW id \in Ids, BeginUpdate(id) \/ SkipUpdate(id) PROVE HostInvariant'
    BY <1>10 DEF BeginUpdate, SkipUpdate
<1>11. CASE Handled \/ TriggerBegins
    BY <1>11 DEF Handled, TriggerBegins, UpdateEnds
<1>12. CASE UNCHANGED vars
    BY <1>12 DEF vars
<1> QED BY <1>1, <1>2, <1>3, <1>4, <1>5, <1>6, <1>7, <1>8, <1>9, <1>10, <1>11, <1>12 DEF Next

\* Within the open-order cap of either mode, whatever the plan row limit, a decision's
\* first Broker command may be a cancel-all over every open order.
THEOREM CancelAllComesFirst == Spec => []CancelAllFitsFirst
<1>1. HostInvariant => CancelAllFitsFirst
    <2> SUFFICES ASSUME HostInvariant, host.entries = 0
                 PROVE  Fits(WithCancelAll(host.plan), context.acknowledgeable)
        BY DEF CancelAllFitsFirst
    <2>1. Cardinality(context.open) \in Nat /\ Cardinality(context.open) <= MaxOpenOrders(context.mode)
        BY ContextSizes DEF HostInvariant, IsContext
    <2>2. context.acknowledgeable \in BOOLEAN /\ context.mode \in Modes
        BY DEF HostInvariant, Context
    <2> QED BY <2>1, <2>2, CancelAllFitsEmptyPlan DEF HostInvariant, HostOK
<1> QED BY <1>1, InitHost, NextHost, PTL DEF Spec

\* The live entries stay within MAX_RUNNER_ENTRIES once a decision issues a Broker
\* command, also when every failed update brings its entry back.
THEOREM EntriesStayBounded == Spec => []LiveEntriesFit
<1>1. HostInvariant => LiveEntriesFit
    <2> SUFFICES ASSUME HostInvariant, host.entries > 0
                 PROVE  Cardinality(context.open) + context.waiting + host.entries
                            + Cardinality(Reinstatable \cap failed) <= MaxRunnerEntries
        BY DEF LiveEntriesFit
    <2>1. /\ IsFiniteSet(Reinstatable) /\ Cardinality(Reinstatable) \in Nat
          /\ Cardinality(context.open) \in Nat /\ context.waiting \in Nat
        BY ContextSizes DEF HostInvariant, Reinstatable, Pruned
    <2>2. /\ Cardinality(Reinstatable \cap failed) \in Nat
          /\ Cardinality(Reinstatable \cap failed) <= Cardinality(Reinstatable)
        BY <2>1, FS_Subset, FS_CardinalityType
    <2>3. host.entries \in Nat /\ Bounded(context, host.entries)
        BY DEF HostInvariant, HostOK
    <2> QED BY <2>1, <2>2, <2>3, HostAssumption DEF Bounded, Reinstatable, Pruned
<1> QED BY <1>1, InitHost, NextHost, PTL DEF Spec

-----------------------------------------------------------------------------
(* The plan, counted command by command.                                   *)

\* plan counts the first n commands.
Counts(c, commands, n, plan) ==
    plan = [i \in 0..n |->
                IF i = 0 THEN EmptyPlan(c.mode, Cardinality(c.open))
                ELSE PlanAfter(c, plan[i - 1], commands[i])]

\* There is one way to count a plan command by command.
LEMMA CountIsUnique ==
    ASSUME NEW c, NEW commands, NEW n \in Nat, NEW f, NEW g,
           Counts(c, commands, n, f), Counts(c, commands, n, g)
    PROVE  f = g
<1> DEFINE T == {i \in 0..n : f[i] # g[i]}
           start == EmptyPlan(c.mode, Cardinality(c.open))
           after(p, i) == PlanAfter(c, p, commands[i])
<1>1. /\ f = [i \in 0..n |-> IF i = 0 THEN start ELSE after(f[i - 1], i)]
      /\ g = [i \in 0..n |-> IF i = 0 THEN start ELSE after(g[i - 1], i)]
    BY Zenon DEF Counts
<1> HIDE DEF start, after
<1>2. T = {}
    <2> SUFFICES ASSUME T # {} PROVE FALSE
        OBVIOUS
    <2>1. T \subseteq Nat
        OBVIOUS
    <2>2. PICK k \in T : \A m \in T : k <= m
        BY <2>1, LeastNumber
    <2>3. k \in 0..n /\ f[k] # g[k]
        OBVIOUS
    <2>4. k # 0
        BY <1>1, <2>3
    <2>5. k - 1 \in 0..n /\ ~(k <= k - 1)
        BY <2>3, <2>4
    <2>6. f[k - 1] = g[k - 1]
        BY <2>2, <2>5
    <2>7. f[k] = after(f[k - 1], k) /\ g[k] = after(g[k - 1], k)
        BY <1>1, <2>3, <2>4
    <2> QED BY <2>3, <2>6, <2>7
<1>3. \A i \in 0..n : f[i] = g[i]
    BY <1>2
<1>4. f = [i \in 0..n |-> f[i]] /\ g = [i \in 0..n |-> g[i]]
    BY <1>1
<1> QED BY <1>3, <1>4

\* The plan of any list of commands can be counted, however long the list is.
LEMMA CountExists ==
    ASSUME NEW c, NEW commands, NEW n \in Nat
    PROVE  \E f : Counts(c, commands, n, f)
<1> DEFINE T == {k \in Nat : ~\E f : Counts(c, commands, k, f)}
           start == EmptyPlan(c.mode, Cardinality(c.open))
           after(p, i) == PlanAfter(c, p, commands[i])
<1>1. \A k, f : Counts(c, commands, k, f) <=>
          f = [i \in 0..k |-> IF i = 0 THEN start ELSE after(f[i - 1], i)]
    BY Zenon DEF Counts
<1> HIDE DEF start, after
<1>2. T = {}
    <2> SUFFICES ASSUME T # {} PROVE FALSE
        OBVIOUS
    <2>1. PICK k \in T : \A m \in T : k <= m
        BY LeastNumber
    <2>2. k # 0
        <3> DEFINE f == [i \in 0..0 |-> start]
        <3>1. f = [i \in 0..0 |-> IF i = 0 THEN start ELSE after(f[i - 1], i)]
            OBVIOUS
        <3>2. Counts(c, commands, 0, f)
            BY <1>1, <3>1
        <3> QED BY <3>2
    <2>3. k - 1 \in Nat /\ ~(k <= k - 1)
        BY <2>2
    <2>4. PICK f : Counts(c, commands, k - 1, f)
        BY <2>1, <2>3
    <2> DEFINE g == [i \in 0..k |-> IF i = k THEN after(f[k - 1], k) ELSE f[i]]
    <2>5. f = [i \in 0..(k - 1) |-> IF i = 0 THEN start ELSE after(f[i - 1], i)]
        BY <1>1, <2>4
    <2>6. \A i \in 0..k : g[i] = IF i = 0 THEN start ELSE after(g[i - 1], i)
        <3> SUFFICES ASSUME NEW i \in 0..k
                     PROVE  g[i] = IF i = 0 THEN start ELSE after(g[i - 1], i)
            OBVIOUS
        <3>1. CASE i = 0
            BY <2>2, <2>5, <3>1
        <3>2. CASE i # 0
            <4>1. i - 1 \in 0..k /\ i - 1 # k /\ i - 1 \in 0..(k - 1)
                BY <3>2
            <4>2. g[i - 1] = f[i - 1]
                BY <4>1
            <4>3. i # k => i \in 0..(k - 1)
                BY <3>2
            <4>4. g[i] = after(f[i - 1], i)
                BY <2>5, <3>2, <4>3
            <4> QED BY <3>2, <4>2, <4>4
        <3> QED BY <3>1, <3>2
    <2>7. g = [i \in 0..k |-> IF i = 0 THEN start ELSE after(g[i - 1], i)]
        <3>1. g = [i \in 0..k |-> g[i]]
            OBVIOUS
        <3> HIDE DEF g
        <3> QED BY <2>6, <3>1
    <2>8. Counts(c, commands, k, g)
        <3> HIDE DEF g
        <3> QED BY <1>1, <2>7
    <2> QED BY <2>8
<1> QED BY <1>2

\* A further command is counted after those before it.
LEMMA PlanOfAppended ==
    ASSUME NEW c, NEW S, NEW commands \in Seq(S), NEW command \in S
    PROVE  /\ PlanOf(c, <<>>) = EmptyPlan(c.mode, Cardinality(c.open))
           /\ PlanOf(c, Append(commands, command)) = PlanAfter(c, PlanOf(c, commands), command)
<1> DEFINE longer == Append(commands, command)
           n == Len(commands)
           start == EmptyPlan(c.mode, Cardinality(c.open))
           counted(s) == CHOOSE f : Counts(c, s, Len(s), f)
<1>1. \A s : PlanOf(c, s) = counted(s)[Len(s)]
    BY Zenon DEF PlanOf, Counts
<1>2. /\ n \in Nat /\ Len(longer) = n + 1 /\ Len(<<>>) = 0
      /\ longer[n + 1] = command /\ \A i \in 1..n : longer[i] = commands[i]
    BY LenProperties, AppendProperties
<1>3. \A s : Len(s) \in Nat => Counts(c, s, Len(s), counted(s))
    BY CountExists
<1> DEFINE f == counted(commands)
           g == counted(longer)
           e == counted(<<>>)
<1>4. Counts(c, commands, n, f) /\ Counts(c, longer, n + 1, g) /\ Counts(c, <<>>, 0, e)
    <2> HIDE DEF counted, longer, n
    <2>1. Len(commands) \in Nat /\ Len(longer) \in Nat /\ Len(<<>>) \in Nat
        BY <1>2 DEF n
    <2> QED BY <1>2, <1>3, <2>1 DEF n
<1> HIDE DEF f, g, e, longer, counted, n, start
<1>5. e[0] = start
    BY <1>4 DEF Counts, start
<1>6. /\ g = [i \in 0..(n + 1) |->
                 IF i = 0 THEN start ELSE PlanAfter(c, g[i - 1], longer[i])]
    BY <1>4 DEF Counts, start
<1>7. g[n + 1] = PlanAfter(c, g[n], command)
    <2>1. n + 1 \in 0..(n + 1) /\ n + 1 # 0 /\ (n + 1) - 1 = n
        BY <1>2
    <2> QED BY <1>2, <1>6, <2>1
<1>8. g[n] = f[n]
    <2> DEFINE h == [i \in 0..n |-> g[i]]
    <2>1. ASSUME NEW i \in 0..n
          PROVE  h[i] = IF i = 0 THEN start ELSE PlanAfter(c, h[i - 1], commands[i])
        <3>1. i \in 0..(n + 1)
            BY <1>2
        <3>2. i # 0 => i - 1 \in 0..n /\ i \in 1..n
            BY <1>2
        <3>3. h[i] = g[i] /\ (i # 0 => h[i - 1] = g[i - 1] /\ longer[i] = commands[i])
            BY <1>2, <3>2
        <3> HIDE DEF h
        <3> QED BY <1>6, <3>1, <3>3
    <2>2. h = [i \in 0..n |-> IF i = 0 THEN start ELSE PlanAfter(c, h[i - 1], commands[i])]
        <3>1. h = [i \in 0..n |-> h[i]]
            OBVIOUS
        <3> HIDE DEF h
        <3> QED BY <2>1, <3>1
    <2>3. Counts(c, commands, n, h)
        <3> HIDE DEF h
        <3> QED BY <2>2 DEF Counts, start
    <2>4. h = f
        <3> HIDE DEF h
        <3> QED BY <1>2, <1>4, <2>3, CountIsUnique
    <2>5. n \in 0..n /\ h[n] = g[n]
        BY <1>2
    <2> QED BY <2>4, <2>5
<1>9. /\ PlanOf(c, <<>>) = e[0] /\ PlanOf(c, longer) = g[n + 1] /\ PlanOf(c, commands) = f[n]
    BY <1>1, <1>2 DEF e, f, g, n
<1> QED BY <1>5, <1>7, <1>8, <1>9 DEF longer, start

-----------------------------------------------------------------------------
(* A decision's commands, call by call.                                    *)

IsSequence(s) == \E S : s \in Seq(S)

\* A command more is the last one, after those before it.
LEMMA AppendedCommands ==
    ASSUME NEW s, IsSequence(s), NEW x
    PROVE  /\ IsSequence(Append(s, x))
           /\ Len(s) \in Nat /\ Len(Append(s, x)) = Len(s) + 1
           /\ Append(s, x)[Len(s) + 1] = x
           /\ \A i \in 1..Len(s) : Append(s, x)[i] = s[i]
           /\ \A c : PlanOf(c, Append(s, x)) = PlanAfter(c, PlanOf(c, s), x)
<1>1. PICK S : s \in Seq(S)
    BY DEF IsSequence
<1>2. s \in Seq(S \cup {x}) /\ x \in S \cup {x}
    BY <1>1
<1> HIDE <1>1
<1>3. \A c : PlanOf(c, Append(s, x)) = PlanAfter(c, PlanOf(c, s), x)
    BY <1>2, PlanOfAppended
<1> QED BY <1>2, <1>3, LenProperties, AppendProperties DEF IsSequence

\* The commands of some kinds before and after the command x.
KindIsCounted(before, after, x, kinds) ==
    LET was == CommandsOf(before, kinds)
        now == CommandsOf(after, kinds)
    IN  /\ was \subseteq 1..Len(before)
        /\ IsFiniteSet(was) /\ Cardinality(was) \in 0..Len(before)
        /\ x.kind \in kinds =>
              now = was \cup {Len(before) + 1} /\ Cardinality(now) = Cardinality(was) + 1
        /\ x.kind \notin kinds => now = was

\* The commands of some kinds are finitely many, and a command more counts one more.
LEMMA CommandsAreCounted ==
    ASSUME NEW s, IsSequence(s), NEW x, NEW kinds
    PROVE  KindIsCounted(s, Append(s, x), x, kinds)
<1> DEFINE n == Len(s)
           t == Append(s, x)
<1>1. /\ n \in Nat /\ Len(t) = n + 1 /\ t[n + 1] = x
      /\ \A i \in 1..n : t[i] = s[i]
    BY AppendedCommands
<1>2. CommandsOf(s, kinds) \subseteq 1..n
    BY DEF CommandsOf
<1>3. /\ IsFiniteSet(CommandsOf(s, kinds))
      /\ Cardinality(CommandsOf(s, kinds)) \in 0..n
    <2>1. IsFiniteSet(1..n) /\ Cardinality(1..n) = n
        <3> HIDE DEF n, t
        <3> QED BY <1>1, FS_Interval
    <2>2. /\ IsFiniteSet(CommandsOf(s, kinds))
          /\ Cardinality(CommandsOf(s, kinds)) <= Cardinality(1..n)
        BY <1>2, <2>1, FS_Subset
    <2>3. Cardinality(CommandsOf(s, kinds)) \in Nat
        BY <2>2, FS_CardinalityType
    <2> QED BY <1>1, <2>1, <2>2, <2>3
<1> HIDE DEF t, n
<1>4. \A i : i \in 1..(n + 1) <=> i \in 1..n \/ i = n + 1
    BY <1>1
<1>5. CommandsOf(t, kinds) = CommandsOf(s, kinds) \cup IF x.kind \in kinds THEN {n + 1} ELSE {}
    BY <1>1, <1>4 DEF CommandsOf, n
<1>6. n + 1 \notin CommandsOf(s, kinds)
    BY <1>1, <1>2
<1>7. Cardinality(CommandsOf(t, kinds)) =
          Cardinality(CommandsOf(s, kinds)) + IF x.kind \in kinds THEN 1 ELSE 0
    <2>1. CASE x.kind \in kinds
        <3>1. Cardinality(CommandsOf(s, kinds) \cup {n + 1}) = Cardinality(CommandsOf(s, kinds)) + 1
            BY <1>3, <1>6, FS_AddElement
        <3> QED BY <1>5, <2>1, <3>1
    <2>2. CASE x.kind \notin kinds
        <3>1. CommandsOf(t, kinds) = CommandsOf(s, kinds)
            BY <1>5, <2>2
        <3> QED BY <1>3, <2>2, <3>1
    <2> QED BY <2>1, <2>2
<1> QED BY <1>2, <1>3, <1>5, <1>7 DEF t, n, KindIsCounted

HostFields == {"commands", "provisional", "marked", "plan", "timers", "entries", "reserved"}

OwnOrder == [cancelling : BOOLEAN, commitment : {0, 1}]

\* What the decision holds follows its commands, and as far as it goes it passes the
\* contract's check.
Good(c, h) ==
    /\ DOMAIN h = HostFields /\ IsSequence(h.commands)
    /\ FollowsCommands(c, h)
    /\ Len(h.commands) <= MaxStrategyCommands
    /\ \A i \in 1..Len(h.commands) : h.commands[i].id = i - 1
    /\ Cardinality(CommandsOf(h.commands, {"Request"})) <= MaxRequests
    /\ NamedOnce(h.commands) /\ TargetsExist(c, h.commands) /\ Granted(c, h.commands)
    /\ h.plan \in Plan /\ Fits(h.plan, c.acknowledgeable)
    /\ IsFiniteSet(DOMAIN h.provisional)
    /\ Cardinality(DOMAIN h.provisional) = Cardinality(CommandsOf(h.commands, {"Place"}))
    /\ Cardinality(c.open) + Cardinality(DOMAIN h.provisional) <= MaxOpenOrders(c.mode)
    /\ \A id \in DOMAIN h.provisional : h.provisional[id] \in OwnOrder
    /\ h.marked \subseteq Ids /\ h.timers \subseteq Keys

\* The host answers a call: the decision goes from h to g with the command x.
Calls(c, h, x, g) ==
    /\ DOMAIN g = HostFields
    /\ g.commands = Append(h.commands, x)
    /\ x.id = Len(h.commands) /\ Len(h.commands) < MaxStrategyCommands
    /\ g.plan = PlanAfter(c, h.plan, x)
    /\ x.kind \in BrokerKinds => Fits(g.plan, c.acknowledgeable)
    /\ g.entries = h.entries + IF x.kind \in BrokerKinds THEN 1 ELSE 0
    /\ x.kind \in BrokerKinds \cup TimerKinds \cup {"Request", "Stop"}
    /\ x.kind = "Place" =>
          /\ x.client \notin DOMAIN h.provisional
          /\ DOMAIN g.provisional = DOMAIN h.provisional \cup {x.client}
          /\ ~g.provisional[x.client].cancelling
          /\ g.provisional[x.client].commitment \in {0, 1}
          /\ g.reserved = h.reserved + g.provisional[x.client].commitment
          /\ Cardinality(c.open) + Cardinality(DOMAIN h.provisional) < MaxOpenOrders(c.mode)
    /\ x.kind # "Place" => DOMAIN g.provisional = DOMAIN h.provisional /\ g.reserved = h.reserved
    /\ \A id \in DOMAIN g.provisional : g.provisional[id] \in OwnOrder
    /\ \A id \in DOMAIN h.provisional :
          /\ g.provisional[id].commitment = h.provisional[id].commitment
          /\ g.provisional[id].cancelling <=>
                \/ h.provisional[id].cancelling
                \/ x.kind = "CancelAll"
                \/ x.kind = "Cancel" /\ x.client = id
    /\ g.marked = h.marked \cup IF x.kind = "CancelAll" THEN c.open
                                ELSE IF x.kind = "Cancel" /\ ~x.own THEN {x.client} ELSE {}
    /\ x.kind = "Cancel" => IF x.own THEN x.client \in DOMAIN h.provisional
                            ELSE x.client \in c.open \cup c.final
    /\ g.timers = h.timers \cup IF x.kind \in TimerKinds THEN {x.key} ELSE {}
    /\ x.kind \in TimerKinds => x.key \in Keys \ h.timers /\ c.timers
    /\ x.kind = "Request" =>
          /\ c.requests
          /\ Cardinality(CommandsOf(h.commands, {"Request"})) < MaxRequests
    /\ x.kind = "CancelAll" => c.complete

\* A call's command is the last one, after those before it.
LEMMA CallAppends ==
    ASSUME NEW c, NEW h, NEW x, NEW g, Good(c, h), Calls(c, h, x, g)
    PROVE  /\ IsSequence(g.commands)
           /\ Len(h.commands) \in Nat /\ Len(g.commands) = Len(h.commands) + 1
           /\ g.commands[Len(h.commands) + 1] = x
           /\ \A i \in 1..Len(h.commands) : g.commands[i] = h.commands[i]
           /\ PlanOf(c, g.commands) = PlanAfter(c, PlanOf(c, h.commands), x)
           /\ \A kinds : KindIsCounted(h.commands, g.commands, x, kinds)
<1>1. IsSequence(h.commands) /\ g.commands = Append(h.commands, x)
    BY DEF Good, Calls
<1>2. PlanOf(c, g.commands) = PlanAfter(c, PlanOf(c, h.commands), x)
    BY <1>1, AppendedCommands
<1>3. ASSUME NEW kinds PROVE KindIsCounted(h.commands, g.commands, x, kinds)
    <2>1. KindIsCounted(h.commands, Append(h.commands, x), x, kinds)
        BY <1>1, CommandsAreCounted
    <2> QED BY <1>1, <2>1
<1>4. /\ IsSequence(g.commands)
      /\ Len(h.commands) \in Nat /\ Len(g.commands) = Len(h.commands) + 1
      /\ g.commands[Len(h.commands) + 1] = x
      /\ \A i \in 1..Len(h.commands) : g.commands[i] = h.commands[i]
    BY <1>1, AppendedCommands
<1> QED BY <1>2, <1>3, <1>4

\* A later command cancels the place at index i.
CancelledIn(commands, i) ==
    \E j \in CommandsOf(commands, {"Cancel", "CancelAll"}) :
        j > i /\ (commands[j].kind = "Cancel" => commands[j].client = commands[i].client)

\* A call keeps every order's state the one the commands before it leave.
LEMMA OrdersKeep ==
    ASSUME NEW c, NEW h, NEW x, NEW g, Good(c, h), Calls(c, h, x, g)
    PROVE  OrdersFollow(g)
<1> DEFINE s == h.commands
           t == g.commands
           n == Len(s)
           was == CommandsOf(s, {"Place"})
           now == CommandsOf(t, {"Place"})
           cut == CommandsOf(s, {"Cancel", "CancelAll"})
<1>1. /\ DOMAIN h.provisional = {s[i].client : i \in was}
      /\ \A i \in was : h.provisional[s[i].client].cancelling <=> CancelledIn(s, i)
    BY DEF Good, FollowsCommands, OrdersFollow, CancelledIn
<1>2. /\ n \in Nat /\ t[n + 1] = x /\ \A i \in 1..n : t[i] = s[i]
      /\ was \subseteq 1..n /\ cut \subseteq 1..n
      /\ now = IF x.kind = "Place" THEN was \cup {n + 1} ELSE was
      /\ CommandsOf(t, {"Cancel", "CancelAll"}) =
             IF x.kind \in {"Cancel", "CancelAll"} THEN cut \cup {n + 1} ELSE cut
    <2>1. /\ n \in Nat /\ t[n + 1] = x /\ \A i \in 1..n : t[i] = s[i]
          /\ \A kinds : KindIsCounted(s, t, x, kinds)
        BY CallAppends
    <2>2. /\ was \subseteq 1..n
          /\ now = IF x.kind = "Place" THEN was \cup {n + 1} ELSE was
        BY <2>1 DEF KindIsCounted
    <2>3. /\ cut \subseteq 1..n
          /\ CommandsOf(t, {"Cancel", "CancelAll"}) =
                 IF x.kind \in {"Cancel", "CancelAll"} THEN cut \cup {n + 1} ELSE cut
        BY <2>1 DEF KindIsCounted
    <2> QED BY <2>1, <2>2, <2>3
<1>3. \A i \in was : /\ t[i] = s[i] /\ i \in 1..n
                     /\ s[i].client \in DOMAIN h.provisional
    BY <1>1, <1>2
<1>4. DOMAIN g.provisional = {t[i].client : i \in now}
    <2> HIDE DEF s, t, n, was, now, cut
    <2>1. CASE x.kind = "Place"
        <3>1. DOMAIN g.provisional = DOMAIN h.provisional \cup {x.client}
            BY <2>1 DEF Calls
        <3>2. now = was \cup {n + 1}
            BY <1>2, <2>1
        <3> QED BY <1>1, <1>2, <1>3, <3>1, <3>2
    <2>2. CASE x.kind # "Place"
        <3>1. DOMAIN g.provisional = DOMAIN h.provisional
            BY <2>2 DEF Calls
        <3>2. now = was
            BY <1>2, <2>2
        <3> QED BY <1>1, <1>3, <3>1, <3>2
    <2> QED BY <2>1, <2>2
<1>5. ASSUME NEW i \in was
      PROVE  g.provisional[t[i].client].cancelling <=> CancelledIn(t, i)
    <2>1. /\ t[i] = s[i] /\ i \in 1..n /\ s[i].client \in DOMAIN h.provisional
          /\ h.provisional[s[i].client].cancelling <=> CancelledIn(s, i)
        BY <1>1, <1>3
    <2>2. g.provisional[s[i].client].cancelling <=>
              \/ h.provisional[s[i].client].cancelling
              \/ x.kind = "CancelAll"
              \/ x.kind = "Cancel" /\ x.client = s[i].client
        BY <2>1 DEF Calls
    <2>3. CancelledIn(t, i) <=>
              \/ CancelledIn(s, i)
              \/ x.kind = "CancelAll"
              \/ x.kind = "Cancel" /\ x.client = s[i].client
        <3>1. CancelledIn(s, i) <=>
                  \E j \in cut : j > i /\ (s[j].kind = "Cancel" => s[j].client = s[i].client)
            BY DEF CancelledIn
        <3>2. CancelledIn(t, i) <=>
                  \E j \in CommandsOf(t, {"Cancel", "CancelAll"}) :
                      j > i /\ (t[j].kind = "Cancel" => t[j].client = t[i].client)
            BY DEF CancelledIn
        <3> HIDE DEF s, t, n, was, now, cut
        <3>3. n + 1 > i /\ \A j \in cut : t[j] = s[j]
            BY <1>2, <2>1
        <3>4. CancelledIn(t, i) <=>
                  \/ CancelledIn(s, i)
                  \/ /\ x.kind \in {"Cancel", "CancelAll"}
                     /\ x.kind = "Cancel" => x.client = s[i].client
            <4>1. CASE x.kind \in {"Cancel", "CancelAll"}
                <5>1. CommandsOf(t, {"Cancel", "CancelAll"}) = cut \cup {n + 1}
                    BY <1>2, <4>1
                <5> QED BY <1>2, <2>1, <3>1, <3>2, <3>3, <4>1, <5>1
            <4>2. CASE x.kind \notin {"Cancel", "CancelAll"}
                <5>1. CommandsOf(t, {"Cancel", "CancelAll"}) = cut
                    BY <1>2, <4>2
                <5> QED BY <2>1, <3>1, <3>2, <3>3, <4>2, <5>1
            <4> QED BY <4>1, <4>2
        <3> QED BY <3>4
    <2> QED BY <2>1, <2>2, <2>3
<1>6. ASSUME x.kind = "Place"
      PROVE  g.provisional[t[n + 1].client].cancelling <=> CancelledIn(t, n + 1)
    <2>1. ~g.provisional[x.client].cancelling
        BY <1>6 DEF Calls
    <2>2. CommandsOf(t, {"Cancel", "CancelAll"}) = cut
        BY <1>2, <1>6
    <2>3. \A j \in cut : ~(j > n + 1)
        <3> HIDE DEF n, cut
        <3> QED BY <1>2
    <2>4. ~CancelledIn(t, n + 1)
        BY <2>2, <2>3 DEF CancelledIn
    <2> QED BY <1>2, <2>1, <2>4
<1>7. \A i \in now : g.provisional[t[i].client].cancelling <=> CancelledIn(t, i)
    <2> HIDE DEF s, t, n, was, now, cut
    <2> QED BY <1>2, <1>5, <1>6
<1> QED BY <1>4, <1>7 DEF OrdersFollow, CancelledIn

\* A call's command x is counted among the kinds it is of, and only there.
CallCounted(before, after, x, kinds) ==
    LET n   == Len(before)
        was == CommandsOf(before, kinds)
        now == CommandsOf(after, kinds)
    IN  /\ n \in Nat /\ was \subseteq 1..n /\ n + 1 \notin was
        /\ IsFiniteSet(was) /\ Cardinality(was) \in 0..n
        /\ x.kind \in kinds =>
              now = was \cup {n + 1} /\ Cardinality(now) = Cardinality(was) + 1
        /\ x.kind \notin kinds => now = was
        /\ after[n + 1] = x
        /\ \A i \in was : after[i] = before[i]

\* Whatever kinds are counted, a call adds its command where it belongs and nowhere else.
LEMMA CallCounts ==
    ASSUME NEW c, NEW h, NEW x, NEW g, Good(c, h), Calls(c, h, x, g)
    PROVE  \A kinds : CallCounted(h.commands, g.commands, x, kinds)
<1> DEFINE s == h.commands
           t == g.commands
<1>1. /\ Len(s) \in Nat /\ t[Len(s) + 1] = x
      /\ \A i \in 1..Len(s) : t[i] = s[i]
      /\ \A kinds : KindIsCounted(s, t, x, kinds)
    BY CallAppends
<1> HIDE DEF s, t
<1>2. \A kinds : CallCounted(s, t, x, kinds)
    BY <1>1 DEF KindIsCounted, CallCounted
<1> QED BY <1>2 DEF s, t

\* A call keeps the marked orders those the commands cancel.
LEMMA MarksKeep ==
    ASSUME NEW c, NEW h, NEW x, NEW g, Good(c, h), Calls(c, h, x, g)
    PROVE  MarksFollow(c, g)
<1> DEFINE s == h.commands
           t == g.commands
           n == Len(s)
           cancels(u) == CommandsOf(u, {"Cancel"})
           named(u) == {u[i].client : i \in {j \in cancels(u) : ~u[j].own}}
           all(u) == IF CommandsOf(u, {"CancelAll"}) # {} THEN c.open ELSE {}
<1>1. h.marked = named(s) \cup all(s)
    BY DEF Good, FollowsCommands, MarksFollow
<1>2. g.marked = h.marked \cup IF x.kind = "CancelAll" THEN c.open
                               ELSE IF x.kind = "Cancel" /\ ~x.own THEN {x.client} ELSE {}
    BY DEF Calls
<1>3. /\ x.kind \in {"Cancel"} => cancels(t) = cancels(s) \cup {n + 1}
      /\ x.kind \notin {"Cancel"} => cancels(t) = cancels(s)
      /\ t[n + 1] = x /\ \A i \in cancels(s) : t[i] = s[i]
    <2>1. CallCounted(s, t, x, {"Cancel"})
        BY CallCounts
    <2> QED BY <2>1 DEF CallCounted
<1>4. named(t) = named(s) \cup IF x.kind = "Cancel" /\ ~x.own THEN {x.client} ELSE {}
    <2> HIDE DEF s, t, n, cancels
    <2>1. CASE x.kind = "Cancel"
        <3>1. cancels(t) = cancels(s) \cup {n + 1}
            BY <1>3, <2>1
        <3> QED BY <1>3, <2>1, <3>1
    <2>2. CASE x.kind # "Cancel"
        <3>1. cancels(t) = cancels(s)
            BY <1>3, <2>2
        <3> QED BY <1>3, <2>2, <3>1
    <2> QED BY <2>1, <2>2
<1>5. all(t) = IF x.kind = "CancelAll" THEN c.open ELSE all(s)
    <2> DEFINE alls(u) == CommandsOf(u, {"CancelAll"})
    <2>1. /\ x.kind \in {"CancelAll"} => alls(t) = alls(s) \cup {n + 1}
          /\ x.kind \notin {"CancelAll"} => alls(t) = alls(s)
        <3>1. CallCounted(s, t, x, {"CancelAll"})
            BY CallCounts
        <3> QED BY <3>1 DEF CallCounted
    <2> HIDE DEF s, t, n, alls
    <2>2. \A u : all(u) = IF alls(u) # {} THEN c.open ELSE {}
        BY DEF alls
    <2> QED BY <2>1, <2>2
<1>6. all(s) \subseteq c.open
    OBVIOUS
<1>7. g.marked = named(t) \cup all(t)
    <2> HIDE DEF named, all, s, t
    <2> QED BY <1>1, <1>2, <1>4, <1>5, <1>6
<1> QED BY <1>7 DEF MarksFollow

\* The timers and the Broker commands, counted.
LEMMA TimersKeep ==
    ASSUME NEW c, NEW h, NEW x, NEW g, Good(c, h), Calls(c, h, x, g)
    PROVE  /\ g.timers = {g.commands[i].key : i \in CommandsOf(g.commands, TimerKinds)}
           /\ g.entries = Cardinality(CommandsOf(g.commands, BrokerKinds))
<1> DEFINE s == h.commands
           t == g.commands
           n == Len(s)
           timers(u) == CommandsOf(u, TimerKinds)
           brokers(u) == CommandsOf(u, BrokerKinds)
<1>1. h.timers = {s[i].key : i \in timers(s)} /\ h.entries = Cardinality(brokers(s))
    BY DEF Good, FollowsCommands, CountsFollow
<1>2. /\ g.timers = h.timers \cup IF x.kind \in TimerKinds THEN {x.key} ELSE {}
      /\ g.entries = h.entries + IF x.kind \in BrokerKinds THEN 1 ELSE 0
    BY DEF Calls
<1>3. /\ x.kind \in TimerKinds => timers(t) = timers(s) \cup {n + 1}
      /\ x.kind \notin TimerKinds => timers(t) = timers(s)
      /\ t[n + 1] = x /\ \A i \in timers(s) : t[i] = s[i]
    <2>1. CallCounted(s, t, x, TimerKinds)
        BY CallCounts
    <2> QED BY <2>1 DEF CallCounted
<1>4. g.timers = {t[i].key : i \in timers(t)}
    <2> HIDE DEF s, t, n, timers
    <2>1. CASE x.kind \in TimerKinds
        BY <1>1, <1>2, <1>3, <2>1
    <2>2. CASE x.kind \notin TimerKinds
        BY <1>1, <1>2, <1>3, <2>2
    <2> QED BY <2>1, <2>2
<1>5. /\ n \in Nat /\ Cardinality(brokers(s)) \in 0..n
      /\ x.kind \in BrokerKinds => Cardinality(brokers(t)) = Cardinality(brokers(s)) + 1
      /\ x.kind \notin BrokerKinds => brokers(t) = brokers(s)
    <2>1. CallCounted(s, t, x, BrokerKinds)
        BY CallCounts
    <2> QED BY <2>1 DEF CallCounted
<1>6. g.entries = Cardinality(brokers(t))
    <2> HIDE DEF n, brokers
    <2> QED BY <1>1, <1>2, <1>5
<1> QED BY <1>4, <1>6

\* What is reserved, a place at a time.
LEMMA ReservedKeeps ==
    ASSUME NEW c, NEW h, NEW x, NEW g, Good(c, h), Calls(c, h, x, g)
    PROVE  g.reserved = Cardinality({id \in DOMAIN g.provisional :
                                        g.provisional[id].commitment = 1})
<1> DEFINE was == {id \in DOMAIN h.provisional : h.provisional[id].commitment = 1}
           now == {id \in DOMAIN g.provisional : g.provisional[id].commitment = 1}
<1>1. h.reserved = Cardinality(was) /\ IsFiniteSet(DOMAIN h.provisional)
    BY DEF Good, FollowsCommands, CountsFollow
<1>2. IsFiniteSet(was) /\ Cardinality(was) \in Nat
    BY <1>1, FS_Subset, FS_CardinalityType
<1>3. \A id \in DOMAIN h.provisional : g.provisional[id].commitment = h.provisional[id].commitment
    BY DEF Calls
<1>4. CASE x.kind # "Place"
    <2>1. DOMAIN g.provisional = DOMAIN h.provisional /\ g.reserved = h.reserved
        BY <1>4 DEF Calls
    <2> QED BY <1>1, <1>3, <2>1
<1>5. CASE x.kind = "Place"
    <2> DEFINE amount == g.provisional[x.client].commitment
    <2>1. /\ x.client \notin DOMAIN h.provisional
          /\ DOMAIN g.provisional = DOMAIN h.provisional \cup {x.client}
          /\ amount \in {0, 1} /\ g.reserved = h.reserved + amount
        BY <1>5 DEF Calls
    <2>2. CASE amount = 1
        <3>1. now = was \cup {x.client} /\ x.client \notin was
            BY <1>3, <2>1, <2>2
        <3>2. Cardinality(now) = Cardinality(was) + 1
            BY <1>2, <3>1, FS_AddElement
        <3> QED BY <1>1, <2>1, <2>2, <3>2
    <2>3. CASE amount = 0
        <3>1. now = was
            BY <1>3, <2>1, <2>3
        <3>2. Cardinality(was) + 0 = Cardinality(was)
            BY <1>2
        <3> HIDE DEF was, now, amount
        <3>3. g.reserved = Cardinality(was) + 0
            BY <1>1, <2>1, <2>3
        <3> QED BY <3>1, <3>2, <3>3 DEF now
    <2> QED BY <2>1, <2>2, <2>3
<1> QED BY <1>4, <1>5

\* A call keeps every order placed under a name of its own.
LEMMA NamesKeep ==
    ASSUME NEW c, NEW h, NEW x, NEW g, Good(c, h), Calls(c, h, x, g)
    PROVE  NamedOnce(g.commands)
<1> DEFINE s == h.commands
           t == g.commands
           n == Len(s)
<1>1. ASSUME NEW i \in CommandsOf(t, {"Place"}), NEW j \in CommandsOf(t, {"Place"}), i # j
      PROVE  t[i].client # t[j].client
    <2> DEFINE places(u) == CommandsOf(u, {"Place"})
    <2>1. /\ DOMAIN h.provisional = {s[k].client : k \in places(s)}
          /\ \A k, l \in places(s) : k # l => s[k].client # s[l].client
          /\ x.kind = "Place" => x.client \notin DOMAIN h.provisional
        BY DEF Good, FollowsCommands, OrdersFollow, NamedOnce, Calls
    <2>2. CallCounted(s, t, x, {"Place"})
        BY CallCounts
    <2>3. /\ places(t) = IF x.kind = "Place" THEN places(s) \cup {n + 1} ELSE places(s)
          /\ t[n + 1] = x /\ \A k \in places(s) : t[k] = s[k]
        BY <2>2 DEF CallCounted
    <2>4. \A k \in places(s) : x.kind = "Place" => t[k].client # x.client
        BY <2>1, <2>3
    <2> HIDE DEF s, t, n
    <2> QED BY <1>1, <2>1, <2>3, <2>4
<1>2. ASSUME NEW i \in CommandsOf(t, TimerKinds), NEW j \in CommandsOf(t, TimerKinds), i # j
      PROVE  t[i].key # t[j].key
    <2> DEFINE timers(u) == CommandsOf(u, TimerKinds)
    <2>1. /\ h.timers = {s[k].key : k \in timers(s)}
          /\ \A k, l \in timers(s) : k # l => s[k].key # s[l].key
          /\ x.kind \in TimerKinds => x.key \notin h.timers
        BY DEF Good, FollowsCommands, CountsFollow, NamedOnce, Calls
    <2>2. CallCounted(s, t, x, TimerKinds)
        BY CallCounts
    <2>3. /\ timers(t) = IF x.kind \in TimerKinds THEN timers(s) \cup {n + 1} ELSE timers(s)
          /\ t[n + 1] = x /\ \A k \in timers(s) : t[k] = s[k]
        BY <2>2 DEF CallCounted
    <2>4. \A k \in timers(s) : x.kind \in TimerKinds => t[k].key # x.key
        BY <2>1, <2>3
    <2> HIDE DEF s, t, n
    <2> QED BY <1>2, <2>1, <2>3, <2>4
<1> QED BY <1>1, <1>2 DEF NamedOnce

\* A call keeps every cancel after, and at, an order there is to cancel.
LEMMA TargetsKeep ==
    ASSUME NEW c, NEW h, NEW x, NEW g, Good(c, h), Calls(c, h, x, g)
    PROVE  TargetsExist(c, g.commands)
<1> DEFINE s == h.commands
           t == g.commands
           n == Len(s)
           cancels(u) == CommandsOf(u, {"Cancel"})
           places(u) == CommandsOf(u, {"Place"})
           Exists(u, i) == IF u[i].own
                           THEN \E j \in places(u) : j < i /\ u[j].client = u[i].client
                           ELSE u[i].client \in c.open \cup c.final
<1>1. CallCounted(s, t, x, {"Cancel"}) /\ CallCounted(s, t, x, {"Place"})
    <2>1. CallCounted(s, t, x, {"Cancel"})
        BY CallCounts
    <2>2. CallCounted(s, t, x, {"Place"})
        BY CallCounts
    <2> QED BY <2>1, <2>2
<1>2. /\ cancels(t) = IF x.kind = "Cancel" THEN cancels(s) \cup {n + 1} ELSE cancels(s)
      /\ t[n + 1] = x /\ \A i \in cancels(s) : t[i] = s[i]
    BY <1>1 DEF CallCounted
<1>3. /\ places(s) \subseteq places(t) /\ places(s) \subseteq 1..n /\ n \in Nat
      /\ \A i \in places(s) : t[i] = s[i]
    BY <1>1 DEF CallCounted
<1>4. \A i \in cancels(s) : Exists(s, i)
    BY DEF Good, TargetsExist
<1>5. x.kind = "Cancel" => Exists(t, n + 1)
    <2>1. /\ DOMAIN h.provisional = {s[k].client : k \in places(s)}
          /\ x.kind = "Cancel" => IF x.own THEN x.client \in DOMAIN h.provisional
                                  ELSE x.client \in c.open \cup c.final
        BY DEF Good, FollowsCommands, OrdersFollow, Calls
    <2>2. \A j \in places(s) : j < n + 1
        <3> HIDE DEF n, places
        <3> QED BY <1>3
    <2> HIDE DEF s, t, n, places
    <2> QED BY <1>2, <1>3, <2>1, <2>2
<1>6. \A i \in cancels(t) : Exists(t, i)
    <2>1. \A i \in cancels(s) : Exists(t, i)
        <3> HIDE DEF s, t, n, places, cancels
        <3> QED BY <1>2, <1>3, <1>4
    <2> HIDE DEF s, t, n, places, cancels, Exists
    <2> QED BY <1>2, <1>5, <2>1
<1> QED BY <1>6 DEF TargetsExist

\* A call keeps timers and requests within what the decision was granted.
LEMMA GrantsKeep ==
    ASSUME NEW c, NEW h, NEW x, NEW g, Good(c, h), Calls(c, h, x, g)
    PROVE  /\ Granted(c, g.commands)
           /\ Cardinality(CommandsOf(g.commands, {"Request"})) <= MaxRequests
<1> DEFINE s == h.commands
           t == g.commands
           now(kinds) == CommandsOf(t, kinds)
           was(kinds) == CommandsOf(s, kinds)
<1>1. /\ was(TimerKinds) # {} \/ x.kind \in TimerKinds => c.timers
      /\ was({"Request"}) # {} \/ x.kind = "Request" => c.requests
      /\ was({"CancelAll"}) # {} \/ x.kind = "CancelAll" => c.complete
      /\ Cardinality(was({"Request"})) <= MaxRequests
      /\ x.kind = "Request" => Cardinality(was({"Request"})) < MaxRequests
    BY DEF Good, Granted, Calls
<1>2. now(TimerKinds) # {} => was(TimerKinds) # {} \/ x.kind \in TimerKinds
    <2>1. CallCounted(s, t, x, TimerKinds)
        BY CallCounts
    <2> QED BY <2>1 DEF CallCounted
<1>3. now({"CancelAll"}) # {} => was({"CancelAll"}) # {} \/ x.kind = "CancelAll"
    <2>1. CallCounted(s, t, x, {"CancelAll"})
        BY CallCounts
    <2> QED BY <2>1 DEF CallCounted
<1>4. /\ x.kind = "Request" =>
            /\ Cardinality(was({"Request"})) \in Nat
            /\ Cardinality(now({"Request"})) = Cardinality(was({"Request"})) + 1
      /\ x.kind # "Request" => now({"Request"}) = was({"Request"})
    <2>1. CallCounted(s, t, x, {"Request"})
        BY CallCounts
    <2> QED BY <2>1 DEF CallCounted
<1>5. Granted(c, t)
    <2> HIDE DEF s, t
    <2> QED BY <1>1, <1>2, <1>3, <1>4 DEF Granted
<1>6. Cardinality(now({"Request"})) <= MaxRequests
    <2> DEFINE a == Cardinality(was({"Request"}))
               b == Cardinality(now({"Request"}))
    <2>1. /\ x.kind = "Request" => a \in Nat /\ b = a + 1
          /\ x.kind # "Request" => b = a
          /\ a <= MaxRequests /\ (x.kind = "Request" => a < MaxRequests)
        BY <1>1, <1>4
    <2> HIDE DEF a, b
    <2>2. b <= MaxRequests
        BY <2>1, HostAssumption
    <2> QED BY <2>2 DEF b
<1> QED BY <1>5, <1>6

\* The plan stays a plan that fits.
LEMMA PlanKeeps ==
    ASSUME NEW c, NEW h, NEW x, NEW g, Good(c, h), Calls(c, h, x, g)
    PROVE  /\ g.plan = PlanOf(c, g.commands)
           /\ g.plan \in Plan /\ Fits(g.plan, c.acknowledgeable)
<1>1. /\ h.plan = PlanOf(c, h.commands) /\ h.plan \in Plan /\ Fits(h.plan, c.acknowledgeable)
      /\ g.plan = PlanAfter(c, h.plan, x)
      /\ x.kind \in BrokerKinds => Fits(g.plan, c.acknowledgeable)
      /\ x.kind \in BrokerKinds \cup TimerKinds \cup {"Request", "Stop"}
    BY DEF Good, FollowsCommands, Calls
<1>2. PlanOf(c, g.commands) = PlanAfter(c, PlanOf(c, h.commands), x)
    BY CallAppends
<1>3. ASSUME NEW plan \in Plan, NEW rows \in Nat
      PROVE  /\ WithRows(plan, rows) \in Plan
             /\ [WithRows(plan, rows) EXCEPT !.own = @ + 1] \in Plan
             /\ [WithRows(plan, rows) EXCEPT !.context = 0, !.own = 0] \in Plan
    <2> DEFINE Row(m, r, b, o, d) ==
                   [mode |-> m, rows |-> r, brokerCommands |-> b, context |-> o, own |-> d]
    <2>1. PICK m \in Modes, r \in Nat, b \in Nat, o \in Nat, d \in Nat : plan = Row(m, r, b, o, d)
        BY DEF Plan
    <2>2. WithRows(plan, rows) = Row(m, r + rows, b + 1, o, d)
        <3>1. [Row(m, r, b, o, d) EXCEPT !.rows = @ + rows] = Row(m, r + rows, b, o, d)
            OBVIOUS
        <3>2. [Row(m, r + rows, b, o, d) EXCEPT !.brokerCommands = @ + 1] =
                  Row(m, r + rows, b + 1, o, d)
            OBVIOUS
        <3> HIDE DEF Row
        <3>3. WithRows(plan, rows) = [[plan EXCEPT !.rows = @ + rows] EXCEPT !.brokerCommands = @ + 1]
            BY DEF WithRows
        <3> QED BY <2>1, <3>1, <3>2, <3>3
    <2> DEFINE e == r + rows
               f == b + 1
    <2>3. e \in Nat /\ f \in Nat /\ d + 1 \in Nat
        BY <2>1
    <2> HIDE DEF e, f
    <2>4. [Row(m, e, f, o, d) EXCEPT !.own = @ + 1] = Row(m, e, f, o, d + 1)
        OBVIOUS
    <2>5. [Row(m, e, f, o, d) EXCEPT !.context = 0, !.own = 0] = Row(m, e, f, 0, 0)
        <3>1. [Row(m, e, f, o, d) EXCEPT !.context = 0] = Row(m, e, f, 0, d)
            OBVIOUS
        <3>2. [Row(m, e, f, 0, d) EXCEPT !.own = 0] = Row(m, e, f, 0, 0)
            OBVIOUS
        <3> HIDE DEF Row
        <3> QED BY <3>1, <3>2
    <2>6. Row(m, e, f, o, d) \in Plan /\ Row(m, e, f, o, d + 1) \in Plan /\ Row(m, e, f, 0, 0) \in Plan
        BY <2>1, <2>3 DEF Plan
    <2>7. WithRows(plan, rows) = Row(m, e, f, o, d)
        BY <2>2 DEF e, f
    <2> HIDE DEF Row
    <2> QED BY <2>4, <2>5, <2>6, <2>7
<1>4. ASSUME NEW plan \in Plan PROVE CancelAllRows(plan) \in Nat
    BY DEF Plan, CancelAllRows, CancelAllOrdersPlanRows, CancelOrderPlanRows,
           CollapsedPlacePlanRows, RefusedCommandPlanRows
<1>5. ASSUME NEW plan \in Plan
      PROVE  /\ WithPlace(plan) \in Plan /\ WithCancelAll(plan) \in Plan
             /\ \A final : WithCancel(plan, final) \in Plan
    BY <1>3, <1>4 DEF WithPlace, WithCancel, WithCancelAll, PlaceOrderPlanRows,
                      RefusedCommandPlanRows, CancelOrderPlanRows
<1>6. g.plan \in Plan
    <2> DEFINE final == ~x.own /\ x.client \in c.final
    <2>1. CASE x.kind = "Place"
        BY <1>1, <1>5, <2>1 DEF PlanAfter
    <2>2. CASE x.kind = "Cancel"
        <3>1. g.plan = WithCancel(h.plan, final)
            BY <1>1, <2>2 DEF PlanAfter
        <3> QED BY <1>1, <1>5, <3>1
    <2>3. CASE x.kind = "CancelAll"
        BY <1>1, <1>5, <2>3 DEF PlanAfter
    <2>4. CASE x.kind \notin BrokerKinds
        BY <1>1, <2>4 DEF PlanAfter, BrokerKinds
    <2> QED BY <2>1, <2>2, <2>3, <2>4 DEF BrokerKinds
<1>7. x.kind \notin BrokerKinds => g.plan = h.plan
    BY <1>1 DEF PlanAfter, BrokerKinds
<1> QED BY <1>1, <1>2, <1>6, <1>7

\* The decision's own places, counted.
LEMMA PlacesKeep ==
    ASSUME NEW c \in Context, NEW h, NEW x, NEW g, Good(c, h), Calls(c, h, x, g)
    PROVE  LET orders == DOMAIN g.provisional
           IN  /\ IsFiniteSet(orders)
               /\ Cardinality(orders) = Cardinality(CommandsOf(g.commands, {"Place"}))
               /\ Cardinality(c.open) + Cardinality(orders) <= MaxOpenOrders(c.mode)
<1> DEFINE was == DOMAIN h.provisional
           now == DOMAIN g.provisional
           places(u) == CommandsOf(u, {"Place"})
<1>1. /\ IsFiniteSet(was) /\ Cardinality(was) = Cardinality(places(h.commands))
      /\ Cardinality(c.open) + Cardinality(was) <= MaxOpenOrders(c.mode)
    BY DEF Good
<1>2. Cardinality(was) \in Nat /\ Cardinality(c.open) \in Nat
    BY <1>1, FS_CardinalityType, ContextSizes
<1>3. MaxOpenOrders(c.mode) \in Int
    BY PlanAssumption DEF MaxOpenOrders, DecisionPlanRows, AcknowledgementPlanRows, CancelOrderPlanRows
<1>4. CallCounted(h.commands, g.commands, x, {"Place"})
    BY CallCounts
<1>5. CASE x.kind = "Place"
    <2>1. /\ now = was \cup {x.client} /\ x.client \notin was
          /\ Cardinality(c.open) + Cardinality(was) < MaxOpenOrders(c.mode)
        BY <1>5 DEF Calls
    <2>2. IsFiniteSet(now) /\ Cardinality(now) = Cardinality(was) + 1
        BY <1>1, <2>1, FS_AddElement
    <2>3. Cardinality(places(g.commands)) = Cardinality(places(h.commands)) + 1
        BY <1>4, <1>5 DEF CallCounted
    <2> HIDE DEF was, now, places
    <2>4. Cardinality(c.open) + Cardinality(now) <= MaxOpenOrders(c.mode)
        BY <1>2, <1>3, <2>1, <2>2
    <2>5. Cardinality(now) = Cardinality(places(g.commands))
        BY <1>1, <2>2, <2>3
    <2> QED BY <2>2, <2>4, <2>5 DEF now, places
<1>6. CASE x.kind # "Place"
    <2>1. now = was
        BY <1>6 DEF Calls
    <2>2. places(g.commands) = places(h.commands)
        BY <1>4, <1>6 DEF CallCounted
    <2> QED BY <1>1, <2>1, <2>2
<1> QED BY <1>5, <1>6

\* Whatever a call adds, the decision stays good.
LEMMA CallKeeps ==
    ASSUME NEW c \in Context, NEW h, NEW x, NEW g, Good(c, h), Calls(c, h, x, g)
    PROVE  Good(c, g)
<1>1. FollowsCommands(c, g)
    <2>1. CountsFollow(g)
        BY TimersKeep, ReservedKeeps DEF CountsFollow
    <2> QED BY <2>1, PlanKeeps, OrdersKeep, MarksKeep DEF FollowsCommands
<1>2. Len(g.commands) <= MaxStrategyCommands
    <2>1. Len(h.commands) < MaxStrategyCommands
        BY DEF Calls
    <2>2. Len(h.commands) \in Nat /\ Len(g.commands) = Len(h.commands) + 1
        BY CallAppends
    <2> QED BY <2>1, <2>2, HostAssumption
<1>3. \A i \in 1..Len(g.commands) : g.commands[i].id = i - 1
    <2> DEFINE s == h.commands
               t == g.commands
               n == Len(s)
    <2>1. n \in Nat /\ Len(t) = n + 1 /\ t[n + 1] = x /\ \A i \in 1..n : t[i] = s[i]
        BY CallAppends
    <2>2. x.id = n /\ \A i \in 1..n : s[i].id = i - 1
        BY DEF Good, Calls
    <2> HIDE DEF s, t, n
    <2>3. \A i \in 1..Len(t) : t[i].id = i - 1
        <3> SUFFICES ASSUME NEW i \in 1..Len(t) PROVE t[i].id = i - 1
            OBVIOUS
        <3>1. i \in 1..n \/ i = n + 1
            BY <2>1
        <3>2. (n + 1) - 1 = n
            BY <2>1
        <3> QED BY <2>1, <2>2, <3>1, <3>2
    <2> QED BY <2>3 DEF t
<1>4. DOMAIN g = HostFields /\ IsSequence(g.commands)
    BY CallAppends DEF Calls
<1>5. g.marked \subseteq Ids
    <2>1. c.open \subseteq Ids /\ c.final \subseteq Ids
        BY DEF Context
    <2>2. /\ h.marked \subseteq Ids
          /\ g.marked = h.marked \cup IF x.kind = "CancelAll" THEN c.open
                                      ELSE IF x.kind = "Cancel" /\ ~x.own THEN {x.client} ELSE {}
          /\ x.kind = "Cancel" /\ ~x.own => x.client \in c.open \cup c.final
        BY DEF Good, Calls
    <2> QED BY <2>1, <2>2
<1>6. g.timers \subseteq Keys
    <2>1. /\ h.timers \subseteq Keys
          /\ g.timers = h.timers \cup IF x.kind \in TimerKinds THEN {x.key} ELSE {}
          /\ x.kind \in TimerKinds => x.key \in Keys
        BY DEF Good, Calls
    <2> QED BY <2>1
<1>7. \A id \in DOMAIN g.provisional : g.provisional[id] \in OwnOrder
    BY DEF Calls
<1>8. g.plan \in Plan /\ Fits(g.plan, c.acknowledgeable)
    BY PlanKeeps
<1>9. /\ NamedOnce(g.commands) /\ TargetsExist(c, g.commands) /\ Granted(c, g.commands)
      /\ Cardinality(CommandsOf(g.commands, {"Request"})) <= MaxRequests
    BY NamesKeep, TargetsKeep, GrantsKeep
<1>10. /\ IsFiniteSet(DOMAIN g.provisional)
       /\ Cardinality(DOMAIN g.provisional) = Cardinality(CommandsOf(g.commands, {"Place"}))
       /\ Cardinality(c.open) + Cardinality(DOMAIN g.provisional) <= MaxOpenOrders(c.mode)
    BY PlacesKeep
<1> QED BY <1>1, <1>2, <1>3, <1>4, <1>5, <1>6, <1>7, <1>8, <1>9, <1>10 DEF Good

\* A decision starts good.
LEMMA StartIsGood ==
    ASSUME NEW c \in Context, IsContext(c)
    PROVE  Good(c, HostStart(c)) /\ HostStart(c).commands = <<>>
<1> DEFINE h == HostStart(c)
<1>1. /\ DOMAIN h = HostFields
      /\ h.commands = <<>> /\ DOMAIN h.provisional = {} /\ h.marked = {} /\ h.timers = {}
      /\ h.entries = 0 /\ h.reserved = 0
      /\ h.plan = EmptyPlan(c.mode, Cardinality(c.open))
    BY DEF HostStart, HostFields
<1>2. Len(<<>>) = 0 /\ <<>> \in Seq({}) /\ \A kinds : CommandsOf(<<>>, kinds) = {}
    <2>1. Len(<<>>) = 0 /\ 1..0 = {}
        OBVIOUS
    <2> QED BY <2>1 DEF CommandsOf
<1>3. IsSequence(<<>>)
    BY <1>2 DEF IsSequence
<1>4. PlanOf(c, <<>>) = EmptyPlan(c.mode, Cardinality(c.open))
    <2>1. <<>> \in Seq({0}) /\ 0 \in {0}
        OBVIOUS
    <2> QED BY ONLY <2>1, PlanOfAppended
<1>5. Cardinality(c.open) \in Nat /\ Cardinality(c.open) <= MaxOpenOrders(c.mode) /\ c.mode \in Modes
    BY ContextSizes DEF IsContext, Context
<1>6. Cardinality({}) = 0 /\ IsFiniteSet({})
    BY FS_EmptySet
<1> HIDE DEF h
<1>7. h.plan \in Plan /\ Fits(h.plan, c.acknowledgeable)
    BY <1>1, <1>5, PlanAssumption DEF EmptyPlan, Plan, Fits, Total
<1>8. FollowsCommands(c, h)
    <2>1. OrdersFollow(h)
        BY <1>1, <1>2 DEF OrdersFollow
    <2>2. MarksFollow(c, h)
        BY <1>1, <1>2 DEF MarksFollow
    <2>3. CountsFollow(h)
        BY <1>1, <1>2, <1>6 DEF CountsFollow
    <2> QED BY <1>1, <1>4, <2>1, <2>2, <2>3 DEF FollowsCommands
<1>9. NamedOnce(<<>>) /\ TargetsExist(c, <<>>) /\ Granted(c, <<>>)
    BY <1>2 DEF NamedOnce, TargetsExist, Granted
<1>10. /\ Len(h.commands) <= MaxStrategyCommands
       /\ \A i \in 1..Len(h.commands) : h.commands[i].id = i - 1
       /\ Cardinality(CommandsOf(h.commands, {"Request"})) <= MaxRequests
    <2>1. Len(h.commands) = 0 /\ 1..0 = {} /\ CommandsOf(h.commands, {"Request"}) = {}
        BY <1>1, <1>2
    <2>2. Cardinality(CommandsOf(h.commands, {"Request"})) = 0
        BY <1>6, <2>1
    <2>3. \A i \in 1..Len(h.commands) : FALSE
        BY <2>1
    <2> QED BY <2>1, <2>2, <2>3, HostAssumption
<1>11. /\ IsFiniteSet(DOMAIN h.provisional)
       /\ Cardinality(DOMAIN h.provisional) = Cardinality(CommandsOf(h.commands, {"Place"}))
       /\ Cardinality(c.open) + Cardinality(DOMAIN h.provisional) <= MaxOpenOrders(c.mode)
       /\ \A id \in DOMAIN h.provisional : h.provisional[id] \in OwnOrder
    <2>1. DOMAIN h.provisional = {} /\ CommandsOf(h.commands, {"Place"}) = {}
        BY <1>1, <1>2
    <2>2. Cardinality(c.open) + 0 <= MaxOpenOrders(c.mode)
        BY <1>5
    <2> QED BY <1>6, <2>1, <2>2
<1>12. Good(c, h)
    BY <1>1, <1>3, <1>7, <1>8, <1>9, <1>10, <1>11 DEF Good
<1> QED BY <1>1, <1>12 DEF h

-----------------------------------------------------------------------------
(* The host's calls.                                                       *)

\* A placed order leaves a decision the contract's check passes.
LEMMA PlaceCalls ==
    ASSUME context \in Context, Good(context, host), NEW name, NEW commitment \in 0..1,
           Place(name, commitment)
    PROVE  Good(context, host')
<1> DEFINE id == Client(name, Ordinal)
           x == [kind |-> "Place", id |-> Ordinal, client |-> id]
<1>1. /\ OrdinalLeft /\ CapLeft /\ ~InUse(id)
      /\ BrokerCommandFits(WithPlace(host.plan))
      /\ DOMAIN host = HostFields /\ \A o \in Placed : host.provisional[o] \in OwnOrder
    BY DEF Place, Good, Placed
<1>2. /\ DOMAIN host' = HostFields
      /\ host'.commands = Append(host.commands, x)
      /\ host'.provisional = [o \in Placed \cup {id} |->
             IF o = id THEN [cancelling |-> FALSE, commitment |-> commitment]
             ELSE host.provisional[o]]
      /\ host'.plan = WithPlace(host.plan)
      /\ host'.entries = host.entries + 1
      /\ host'.reserved = host.reserved + commitment
      /\ host'.marked = host.marked /\ host'.timers = host.timers
    BY <1>1 DEF Place, HostFields
<1>3. x.kind = "Place" /\ x.id = Ordinal /\ x.client = id
    OBVIOUS
<1> HIDE DEF x, id
<1>4. /\ id \notin Placed /\ DOMAIN host'.provisional = Placed \cup {id}
      /\ host'.provisional[id] = [cancelling |-> FALSE, commitment |-> commitment]
      /\ \A o \in Placed : host'.provisional[o] = host.provisional[o]
    BY <1>1, <1>2 DEF InUse
<1>5. [cancelling |-> FALSE, commitment |-> commitment] \in OwnOrder
    BY DEF OwnOrder
<1>6. \A o \in DOMAIN host'.provisional : host'.provisional[o] \in OwnOrder
    BY <1>1, <1>4, <1>5
<1>7. /\ ~host'.provisional[id].cancelling /\ host'.provisional[id].commitment = commitment
    BY <1>4
<1>8. PlanAfter(context, host.plan, x) = WithPlace(host.plan)
    BY <1>3 DEF PlanAfter
<1>9. /\ Fits(WithPlace(host.plan), context.acknowledgeable)
      /\ Len(host.commands) < MaxStrategyCommands
      /\ Cardinality(context.open) + Cardinality(Placed) < MaxOpenOrders(context.mode)
    BY <1>1 DEF BrokerCommandFits, OrdinalLeft, Ordinal, CapLeft
<1>10. commitment \in {0, 1}
    OBVIOUS
<1>11. Calls(context, host, x, host')
    BY <1>2, <1>3, <1>4, <1>6, <1>7, <1>8, <1>9, <1>10
    DEF Calls, BrokerKinds, TimerKinds, Ordinal, Placed
<1> QED BY <1>11, CallKeeps

\* A cancel of an order of its own leaves a decision the contract's check passes.
LEMMA CancelOwnCalls ==
    ASSUME context \in Context, Good(context, host), NEW id, CancelOwn(id)
    PROVE  Good(context, host')
<1> DEFINE x == [kind |-> "Cancel", id |-> Ordinal, client |-> id, own |-> TRUE]
           order == [host.provisional[id] EXCEPT !.cancelling = TRUE]
<1>1. /\ OrdinalLeft /\ id \in Placed
      /\ BrokerCommandFits(WithCancel(host.plan, FALSE))
      /\ DOMAIN host = HostFields /\ \A o \in Placed : host.provisional[o] \in OwnOrder
    BY DEF CancelOwn, Good, Placed
<1>2. /\ DOMAIN host' = HostFields
      /\ host'.commands = Append(host.commands, x)
      /\ host'.provisional = [host.provisional EXCEPT ![id] = order]
      /\ host'.plan = WithCancel(host.plan, FALSE)
      /\ host'.entries = host.entries + 1
      /\ host'.reserved = host.reserved
      /\ host'.marked = host.marked /\ host'.timers = host.timers
    BY <1>1 DEF CancelOwn, HostFields
<1>3. x.kind = "Cancel" /\ x.id = Ordinal /\ x.client = id /\ x.own
    OBVIOUS
<1>4. order \in OwnOrder /\ order.cancelling /\ order.commitment = host.provisional[id].commitment
    BY <1>1 DEF OwnOrder
<1> HIDE DEF x, order
<1>5. /\ DOMAIN host'.provisional = Placed
      /\ host'.provisional[id] = order
      /\ \A o \in Placed \ {id} : host'.provisional[o] = host.provisional[o]
    BY <1>1, <1>2 DEF Placed
<1>6. \A o \in DOMAIN host'.provisional : host'.provisional[o] \in OwnOrder
    BY <1>1, <1>4, <1>5
<1>7. PlanAfter(context, host.plan, x) = WithCancel(host.plan, FALSE)
    BY <1>3 DEF PlanAfter, WithCancel
<1>8. /\ Fits(WithCancel(host.plan, FALSE), context.acknowledgeable)
      /\ Len(host.commands) < MaxStrategyCommands
    BY <1>1 DEF BrokerCommandFits, OrdinalLeft, Ordinal
<1>9. \A o \in Placed :
          /\ host'.provisional[o].commitment = host.provisional[o].commitment
          /\ host'.provisional[o].cancelling <=> host.provisional[o].cancelling \/ o = id
    BY <1>4, <1>5
<1>10. Calls(context, host, x, host')
    BY <1>1, <1>2, <1>3, <1>5, <1>6, <1>7, <1>8, <1>9
    DEF Calls, BrokerKinds, TimerKinds, Ordinal, Placed
<1> QED BY <1>10, CallKeeps

\* A cancel of any order of the account leaves a decision the contract's check passes.
LEMMA CancelOrderCalls ==
    ASSUME context \in Context, Good(context, host), NEW id, CancelOrder(id)
    PROVE  Good(context, host')
<1> DEFINE x == [kind |-> "Cancel", id |-> Ordinal, client |-> id, own |-> FALSE]
           final == id \in context.final
<1>1. /\ OrdinalLeft /\ id \in context.open \cup context.final
      /\ BrokerCommandFits(WithCancel(host.plan, final))
      /\ DOMAIN host = HostFields /\ \A o \in Placed : host.provisional[o] \in OwnOrder
    BY DEF CancelOrder, Good, Placed
<1>2. /\ DOMAIN host' = HostFields
      /\ host'.commands = Append(host.commands, x)
      /\ host'.provisional = host.provisional
      /\ host'.plan = WithCancel(host.plan, final)
      /\ host'.entries = host.entries + 1
      /\ host'.reserved = host.reserved
      /\ host'.marked = host.marked \cup {id} /\ host'.timers = host.timers
    BY <1>1 DEF CancelOrder, HostFields
<1>3. x.kind = "Cancel" /\ x.id = Ordinal /\ x.client = id /\ ~x.own
    OBVIOUS
<1> HIDE DEF x
<1>4. PlanAfter(context, host.plan, x) = WithCancel(host.plan, final)
    BY <1>3 DEF PlanAfter, WithCancel
<1>5. /\ Fits(WithCancel(host.plan, final), context.acknowledgeable)
      /\ Len(host.commands) < MaxStrategyCommands
    BY <1>1 DEF BrokerCommandFits, OrdinalLeft, Ordinal
<1>6. \A o \in Placed : o # id
    BY DEF CancelOrder
<1> HIDE DEF final
<1>7. Calls(context, host, x, host')
    BY <1>1, <1>2, <1>3, <1>4, <1>5, <1>6
    DEF Calls, BrokerKinds, TimerKinds, Ordinal, Placed
<1> QED BY <1>7, CallKeeps

\* A cancel of all leaves a decision the contract's check passes.
LEMMA CancelAllCalls ==
    ASSUME context \in Context, Good(context, host), CancelAll
    PROVE  Good(context, host')
<1> DEFINE x == [kind |-> "CancelAll", id |-> Ordinal]
           order(id) == [host.provisional[id] EXCEPT !.cancelling = TRUE]
<1>1. /\ OrdinalLeft /\ context.complete
      /\ BrokerCommandFits(WithCancelAll(host.plan))
      /\ DOMAIN host = HostFields /\ \A o \in Placed : host.provisional[o] \in OwnOrder
    BY DEF CancelAll, Good, Placed
<1>2. /\ DOMAIN host' = HostFields
      /\ host'.commands = Append(host.commands, x)
      /\ host'.provisional = [id \in Placed |-> order(id)]
      /\ host'.plan = WithCancelAll(host.plan)
      /\ host'.entries = host.entries + 1
      /\ host'.reserved = host.reserved
      /\ host'.marked = host.marked \cup context.open /\ host'.timers = host.timers
    BY <1>1 DEF CancelAll, HostFields
<1>3. x.kind = "CancelAll" /\ x.id = Ordinal
    OBVIOUS
<1>4. \A id \in Placed : /\ order(id) \in OwnOrder /\ order(id).cancelling
                         /\ order(id).commitment = host.provisional[id].commitment
    BY <1>1 DEF OwnOrder
<1> HIDE DEF x, order
<1>5. /\ DOMAIN host'.provisional = Placed
      /\ \A id \in Placed : host'.provisional[id] = order(id)
    BY <1>2
<1>6. PlanAfter(context, host.plan, x) = WithCancelAll(host.plan)
    BY <1>3 DEF PlanAfter
<1>7. /\ Fits(WithCancelAll(host.plan), context.acknowledgeable)
      /\ Len(host.commands) < MaxStrategyCommands
    BY <1>1 DEF BrokerCommandFits, OrdinalLeft, Ordinal
<1>8. \A id \in Placed :
          /\ host'.provisional[id] \in OwnOrder
          /\ host'.provisional[id].commitment = host.provisional[id].commitment
          /\ host'.provisional[id].cancelling
    BY <1>4, <1>5
<1>9. Calls(context, host, x, host')
    BY <1>1, <1>2, <1>3, <1>5, <1>6, <1>7, <1>8
    DEF Calls, BrokerKinds, TimerKinds, Ordinal, Placed
<1> QED BY <1>9, CallKeeps

\* The entries counted are at most the commands issued.
LEMMA EntriesAreANumber ==
    ASSUME NEW c, NEW h, Good(c, h)
    PROVE  h.entries \in 0..Len(h.commands) /\ Len(h.commands) \in Nat
<1>1. h.entries = Cardinality(CommandsOf(h.commands, BrokerKinds)) /\ IsSequence(h.commands)
    BY DEF Good, FollowsCommands, CountsFollow
<1>2. h.entries \in 0..Len(h.commands)
    BY <1>1, CommandsAreCounted DEF KindIsCounted
<1> QED BY <1>1, <1>2, AppendedCommands

\* A timer that is set or dropped leaves a decision the contract's check passes.
LEMMA TimerCalls ==
    ASSUME context \in Context, Good(context, host), NEW kind \in TimerKinds, NEW key \in Keys,
           Timer(kind, key)
    PROVE  Good(context, host')
<1> DEFINE x == [kind |-> kind, id |-> Ordinal, key |-> key]
<1>1. DOMAIN host = HostFields /\ \A o \in Placed : host.provisional[o] \in OwnOrder
    BY DEF Good, Placed
<1>2. /\ DOMAIN host' = HostFields
      /\ host'.commands = Append(host.commands, x) /\ host'.provisional = host.provisional
      /\ host'.plan = host.plan /\ host'.entries = host.entries
      /\ host'.reserved = host.reserved
      /\ host'.marked = host.marked /\ host'.timers = host.timers \cup {key}
      /\ context.timers /\ key \notin host.timers
      /\ Len(host.commands) < MaxStrategyCommands
    BY <1>1 DEF Timer, HostFields, OrdinalLeft, Ordinal, KeyFree
<1>3. x.kind = kind /\ x.id = Ordinal /\ x.key = key
    OBVIOUS
<1> HIDE DEF x
<1>4. PlanAfter(context, host.plan, x) = host.plan
    BY <1>3 DEF PlanAfter, TimerKinds
<1>5. host.entries + 0 = host.entries
    BY EntriesAreANumber
<1>6. Calls(context, host, x, host')
    BY <1>1, <1>2, <1>3, <1>4, <1>5 DEF Calls, BrokerKinds, TimerKinds, Ordinal, Placed
<1> QED BY <1>6, CallKeeps

\* A request or a stop.
LEMMA RequestCalls ==
    ASSUME context \in Context, Good(context, host), Request \/ Stop
    PROVE  Good(context, host')
<1>1. PICK kind \in {"Request", "Stop"} :
          /\ OrdinalLeft
          /\ host' = [host EXCEPT !.commands = Append(@, [kind |-> kind, id |-> Ordinal])]
          /\ kind = "Request" => context.requests /\ Count(host.commands, "Request") < MaxRequests
    BY DEF Request, Stop
<1> DEFINE x == [kind |-> kind, id |-> Ordinal]
<1>2. DOMAIN host = HostFields /\ \A o \in Placed : host.provisional[o] \in OwnOrder
    BY DEF Good, Placed
<1>3. /\ DOMAIN host' = HostFields
      /\ host'.commands = Append(host.commands, x) /\ host'.provisional = host.provisional
      /\ host'.plan = host.plan /\ host'.entries = host.entries
      /\ host'.reserved = host.reserved
      /\ host'.marked = host.marked /\ host'.timers = host.timers
      /\ Len(host.commands) < MaxStrategyCommands
    BY <1>1, <1>2 DEF HostFields, OrdinalLeft, Ordinal
<1>4. x.kind = kind /\ x.id = Ordinal
    OBVIOUS
<1> HIDE DEF x
<1>5. PlanAfter(context, host.plan, x) = host.plan
    BY <1>4 DEF PlanAfter
<1>6. host.entries + 0 = host.entries
    BY EntriesAreANumber
<1>7. kind = "Request" =>
          context.requests /\ Cardinality(CommandsOf(host.commands, {"Request"})) < MaxRequests
    <2>1. CommandsOf(host.commands, {"Request"}) =
              {i \in 1..Len(host.commands) : host.commands[i].kind = "Request"}
        BY DEF CommandsOf
    <2> QED BY <1>1, <2>1 DEF Count
<1>8. Calls(context, host, x, host')
    BY <1>2, <1>3, <1>4, <1>5, <1>6, <1>7 DEF Calls, BrokerKinds, TimerKinds, Ordinal, Placed
<1> QED BY <1>8, CallKeeps

-----------------------------------------------------------------------------
(* The decision.                                                           *)

\* What is held of the decision and of the one before the update being delivered.
ResultInvariant ==
    /\ context \in Context /\ IsContext(context)
    /\ phase \in {"Updates", "Handling", "Trigger", "Completed", "Rejected"}
    /\ due \subseteq context.updates /\ failed \subseteq context.updates \ due
    /\ current \in (context.updates \ due) \cup {NoUpdate}
    /\ phase = "Handling" => current # NoUpdate
    /\ phase = "Rejected" => host.commands = <<>>
    /\ Good(context, host) /\ Good(context, saved)

\* Every decision starts as one the contract's check passes.
LEMMA InitResult == Init => ResultInvariant
<1> SUFFICES ASSUME Init PROVE ResultInvariant
    OBVIOUS
<1>1. context \in Context /\ IsContext(context)
    BY ContextsAssumption DEF Init
<1>2. Good(context, host) /\ Good(context, saved)
    BY <1>1, StartIsGood DEF Init
<1> QED BY <1>1, <1>2 DEF Init, ResultInvariant

\* Every call keeps what the contract's check asks, and a refused update goes back to a
\* decision that kept it.
LEMMA NextResult == ResultInvariant /\ [Next]_vars => ResultInvariant'
<1> SUFFICES ASSUME ResultInvariant, [Next]_vars PROVE ResultInvariant'
    OBVIOUS
<1>1. /\ context \in Context /\ IsContext(context)
      /\ Good(context, host) /\ Good(context, saved)
    BY DEF ResultInvariant
\* A call changes only the host, while the decision runs.
<1>2. ASSUME Running, UNCHANGED <<context, phase, due, current, failed, saved>>,
             Good(context, host')
      PROVE  ResultInvariant'
    BY <1>2 DEF ResultInvariant, Running
<1>3. ASSUME NEW name, NEW commitment \in 0..1, Place(name, commitment)
      PROVE  ResultInvariant'
    BY <1>1, <1>2, <1>3, PlaceCalls DEF Place
<1>4. ASSUME NEW id, CancelOwn(id) \/ CancelOrder(id) PROVE ResultInvariant'
    <2>1. CASE CancelOwn(id)
        BY <1>1, <1>2, <2>1, CancelOwnCalls DEF CancelOwn
    <2>2. CASE CancelOrder(id)
        BY <1>1, <1>2, <2>2, CancelOrderCalls DEF CancelOrder
    <2> QED BY <1>4, <2>1, <2>2
<1>5. CASE CancelAll
    BY <1>1, <1>2, <1>5, CancelAllCalls DEF CancelAll
<1>6. ASSUME NEW kind \in TimerKinds, NEW key \in Keys, Timer(kind, key) PROVE ResultInvariant'
    BY <1>1, <1>2, <1>6, TimerCalls DEF Timer
<1>7. CASE Request \/ Stop
    BY <1>1, <1>2, <1>7, RequestCalls DEF Request, Stop
<1>8. ASSUME NEW id \in Ids, BeginUpdate(id) PROVE ResultInvariant'
    <2>1. id # NoUpdate
        BY HostAssumption
    <2> QED BY <1>8, <2>1 DEF BeginUpdate, ResultInvariant
<1>9. ASSUME NEW id \in Ids, SkipUpdate(id) PROVE ResultInvariant'
    BY <1>9 DEF SkipUpdate, ResultInvariant
<1>10. CASE Handled
    BY <1>10 DEF Handled, UpdateEnds, ResultInvariant
<1>11. CASE Fails
    BY <1>11 DEF Fails, UpdateEnds, Restored, ResultInvariant
<1>12. CASE CannotRestore
    <2>1. Good(context, HostStart(context))
        BY <1>1, StartIsGood
    <2> QED BY <1>12, <2>1 DEF CannotRestore, UpdateEnds, ResultInvariant
<1>13. CASE TriggerBegins
    BY <1>13 DEF TriggerBegins, ResultInvariant
<1>14. CASE TriggerEnds
    <2>1. Good(context, HostStart(context)) /\ HostStart(context).commands = <<>>
        BY <1>1, StartIsGood
    <2> QED BY <1>14, <2>1 DEF TriggerEnds, ResultInvariant
<1>15. CASE UNCHANGED vars
    BY <1>15 DEF vars, ResultInvariant
<1> QED BY <1>3, <1>4, <1>5, <1>6, <1>7, <1>8, <1>9, <1>10, <1>11, <1>12, <1>13, <1>14, <1>15
        DEF Next, TimerKinds

-----------------------------------------------------------------------------
(* The checkpoint.                                                         *)

\* No place of the decision has the id of an order of the context, or of a tombstone.
Unused(c, h) == DOMAIN h.provisional \cap (c.open \cup c.final \cup c.hidden) = {}

\* A completed decision's checkpoint, from the context and what failed.
CheckpointFollows ==
    /\ checkpoint.sequence = 1
    /\ checkpoint.live = context.open \cup Reinstated
    /\ checkpoint.vanished \subseteq context.hidden \ Reinstated
    /\ Cardinality(checkpoint.vanished) <= MaxTombstones
    /\ checkpoint.waiting = context.waiting
    /\ checkpoint.issued = host.commands

\* What is held of the checkpoint, and of the ids it depends on.
CheckpointInvariant ==
    /\ abandoned \subseteq failed \cap Reinstatable
    /\ Unused(context, host) /\ Unused(context, saved)
    /\ phase # "Completed" => checkpoint = CheckpointOf(context)
    /\ phase = "Completed" => CheckpointFollows

\* A decision starts with no place and its context's checkpoint.
LEMMA InitCheckpoint == Init => CheckpointInvariant
    BY DEF Init, CheckpointInvariant, Unused, HostStart

\* What eviction keeps of the tombstones is within the bound.
LEMMA EvictionKeeps ==
    ASSUME NEW tombstones, IsFiniteSet(tombstones), NEW kept \in Evicted(tombstones)
    PROVE  kept \subseteq tombstones /\ Cardinality(kept) <= MaxTombstones
<1>1. CASE Cardinality(tombstones) <= MaxTombstones
    BY <1>1 DEF Evicted
<1>2. CASE ~(Cardinality(tombstones) <= MaxTombstones)
    <2>1. kept \subseteq tombstones /\ Cardinality(kept) = MaxTombstones
        BY <1>2 DEF Evicted
    <2> QED BY <2>1, HostAssumption
<1> QED BY <1>1, <1>2

\* Only a place adds an id, a free one; only the end of the decision changes the
\* checkpoint, and evicts what is over the tombstones' bound.
LEMMA NextCheckpoint ==
    ResultInvariant /\ CheckpointInvariant /\ [Next]_vars => CheckpointInvariant'
<1> SUFFICES ASSUME ResultInvariant, CheckpointInvariant, [Next]_vars
             PROVE  CheckpointInvariant'
    OBVIOUS
<1>1. context \in Context /\ DOMAIN host = HostFields
    BY DEF ResultInvariant, Good
<1>2. /\ abandoned \subseteq failed \cap Reinstatable
      /\ Unused(context, host) /\ Unused(context, saved)
      /\ phase # "Completed" => checkpoint = CheckpointOf(context)
    BY DEF CheckpointInvariant
<1>3. ASSUME Running, UNCHANGED <<context, phase, due, current, failed, abandoned, saved, checkpoint>>,
             Unused(context, host')
      PROVE  CheckpointInvariant'
    BY <1>2, <1>3 DEF CheckpointInvariant, Running, Unused, Reinstatable
<1>4. ASSUME NEW name, NEW commitment, Place(name, commitment) PROVE CheckpointInvariant'
    <2> DEFINE id == Client(name, Ordinal)
    <2>1. ~InUse(id) /\ DOMAIN host'.provisional = Placed \cup {id}
        BY <1>1, <1>4 DEF Place, HostFields
    <2> HIDE DEF id
    <2>2. Unused(context, host')
        BY <1>2, <2>1 DEF Unused, InUse, Placed
    <2> QED BY <1>3, <1>4, <2>2 DEF Place
<1>5. ASSUME NEW id, CancelOwn(id) \/ CancelOrder(id) \/ CancelAll PROVE CheckpointInvariant'
    <2>1. DOMAIN host'.provisional = DOMAIN host.provisional
        <3>1. CASE CancelOwn(id)
            BY <1>1, <3>1 DEF CancelOwn, HostFields, Placed
        <3>2. CASE CancelOrder(id)
            BY <1>1, <3>2 DEF CancelOrder, HostFields
        <3>3. CASE CancelAll
            BY <1>1, <3>3 DEF CancelAll, HostFields, Placed
        <3> QED BY <1>5, <3>1, <3>2, <3>3
    <2>2. Unused(context, host')
        BY <1>2, <2>1 DEF Unused
    <2> QED BY <1>3, <1>5, <2>2 DEF CancelOwn, CancelOrder, CancelAll
<1>6. ASSUME NEW kind, NEW key, Timer(kind, key) \/ Request \/ Stop PROVE CheckpointInvariant'
    <2>1. host'.provisional = host.provisional
        BY <1>1, <1>6 DEF Timer, Request, Stop, HostFields
    <2>2. Unused(context, host')
        BY <1>2, <2>1 DEF Unused
    <2> QED BY <1>3, <1>6, <2>2 DEF Timer, Request, Stop
<1>7. ASSUME NEW id, BeginUpdate(id) PROVE CheckpointInvariant'
    BY <1>2, <1>7 DEF BeginUpdate, CheckpointInvariant, Unused, Reinstatable
<1>8. ASSUME NEW id, SkipUpdate(id) PROVE CheckpointInvariant'
    <2>1. Reinstatable' = Reinstatable
        BY <1>8 DEF SkipUpdate, Reinstatable
    <2> QED BY <1>2, <1>8, <2>1 DEF SkipUpdate, GivesUpOrNot, CheckpointInvariant, Unused
<1>9. CASE Handled \/ TriggerBegins
    BY <1>2, <1>9 DEF Handled, TriggerBegins, UpdateEnds, CheckpointInvariant, Unused, Reinstatable
<1>10. CASE Fails
    <2>1. Reinstatable' = Reinstatable
        BY <1>10 DEF Fails, Reinstatable
    <2> QED BY <1>2, <1>10, <2>1
            DEF Fails, Restored, UpdateEnds, GivesUpOrNot, CheckpointInvariant, Unused
<1>11. CASE CannotRestore
    <2>1. /\ Reinstatable' = Reinstatable /\ failed' = context.updates
          /\ context' = context /\ saved' = saved /\ checkpoint' = checkpoint
          /\ phase = "Handling" /\ phase' = "Updates"
          /\ abandoned' \in {abandoned, abandoned \cup ({current} \cap Reinstatable)}
          /\ host' = HostStart(context)
        BY <1>11 DEF CannotRestore, UpdateEnds, GivesUpOrNot, Reinstatable
    <2>2. failed \subseteq context.updates /\ current \in context.updates
        BY <2>1 DEF ResultInvariant
    <2>3. abandoned' \subseteq failed' \cap Reinstatable'
        BY <1>2, <2>1, <2>2
    <2>4. Unused(context, host')
        BY <2>1 DEF Unused, HostStart
    <2> QED BY <1>2, <2>1, <2>3, <2>4 DEF CheckpointInvariant, Unused
<1>12. CASE TriggerEnds
    <2>1. /\ Reinstatable' = Reinstatable /\ Reinstated' = Reinstated
          /\ UNCHANGED <<context, failed, abandoned, saved>> /\ phase = "Trigger"
        BY <1>12 DEF TriggerEnds, Reinstatable, Reinstated
    <2>2. CASE phase' = "Rejected" /\ host' = HostStart(context) /\ UNCHANGED checkpoint
        <3>1. Unused(context, host')
            BY <2>2 DEF Unused, HostStart
        <3> QED BY <1>2, <2>1, <2>2, <3>1 DEF CheckpointInvariant, Unused
    <2>3. CASE phase' # "Rejected"
        <3>1. PICK vanished \in Evicted(context.hidden \ Reinstated) :
                  checkpoint' = [checkpoint EXCEPT
                      !.sequence = @ + 1,
                      !.live     = context.open \cup Reinstated,
                      !.vanished = vanished,
                      !.issued   = host.commands]
            BY <1>12, <2>3 DEF TriggerEnds
        <3>2. phase' = "Completed" /\ host' = host
            BY <1>12, <2>3 DEF TriggerEnds
        <3>3. checkpoint = CheckpointOf(context)
            BY <1>2, <2>1
        <3>4. IsFiniteSet(context.hidden \ Reinstated)
            BY <1>1, ContextSizes, FS_Subset
        <3>5. /\ vanished \subseteq context.hidden \ Reinstated
              /\ Cardinality(vanished) <= MaxTombstones
            BY <3>4, EvictionKeeps
        <3>6. /\ checkpoint'.sequence = 0 + 1
              /\ checkpoint'.live = context.open \cup Reinstated
              /\ checkpoint'.vanished = vanished
              /\ checkpoint'.waiting = context.waiting
              /\ checkpoint'.issued = host.commands
            BY <3>1, <3>3 DEF CheckpointOf
        <3>7. CheckpointFollows'
            BY <2>1, <3>2, <3>5, <3>6 DEF CheckpointFollows
        <3> QED BY <1>2, <2>1, <3>2, <3>7 DEF CheckpointInvariant, Unused
    <2> QED BY <1>12, <2>2, <2>3 DEF TriggerEnds
<1>13. CASE UNCHANGED vars
    BY <1>13 DEF vars, CheckpointInvariant, CheckpointFollows, Unused, Reinstatable, Reinstated
<1> QED BY <1>4, <1>5, <1>6, <1>7, <1>8, <1>9, <1>10, <1>11, <1>12, <1>13 DEF Next

\* A completed decision's entries stay within the section's bound: those it brings back
\* and keeps were held before, and with a Broker command issued there is room for all.
LEMMA SectionStaysBounded ==
    ASSUME HostInvariant, ResultInvariant, CheckpointInvariant, phase = "Completed"
    PROVE  Cardinality(checkpoint.live) + Cardinality(checkpoint.vanished) + checkpoint.waiting
               + Cardinality(CommandsOf(checkpoint.issued, BrokerKinds))
           <= MaxRunnerEntries + MaxTombstones
<1> DEFINE live == checkpoint.live
           vanished == checkpoint.vanished
           before == CheckpointOf(context)
           brokers == CommandsOf(checkpoint.issued, BrokerKinds)
<1>1. /\ live = context.open \cup Reinstated
      /\ vanished \subseteq context.hidden \ Reinstated
      /\ Cardinality(vanished) <= MaxTombstones
      /\ checkpoint.waiting = context.waiting /\ checkpoint.issued = host.commands
    BY DEF CheckpointInvariant, CheckpointFollows
<1>2. /\ context \in Context /\ IsContext(context) /\ HostOK(context, host)
      /\ host.entries = Cardinality(brokers)
    BY <1>1 DEF HostInvariant, ResultInvariant, Good, FollowsCommands, CountsFollow
<1>3. /\ Reinstated \subseteq Pruned(context)
      /\ IsFiniteSet(context.open) /\ IsFiniteSet(Pruned(context)) /\ IsFiniteSet(context.hidden)
      /\ context.waiting \in Nat
    BY <1>2, ContextSizes DEF Reinstated, Reinstatable, Pruned
<1>4. IsFiniteSet(live) /\ IsFiniteSet(vanished) /\ IsFiniteSet(Reinstated)
    <2>1. IsFiniteSet(Reinstated) /\ IsFiniteSet(vanished)
        BY <1>1, <1>3, FS_Subset
    <2> QED BY <1>1, <1>3, <2>1, FS_Union
<1>5. /\ Cardinality(live) \in Nat /\ Cardinality(vanished) \in Nat
      /\ Cardinality(context.open) \in Nat /\ Cardinality(Pruned(context)) \in Nat
      /\ Cardinality(Reinstated) \in Nat
    BY <1>3, <1>4, FS_CardinalityType
<1>6. CASE host.entries > 0
    <2>1. Cardinality(context.open) + context.waiting + host.entries + Cardinality(Pruned(context))
              <= MaxRunnerEntries
        BY <1>2, <1>6 DEF HostOK, Bounded
    <2>2. Cardinality(live) <= Cardinality(context.open) + Cardinality(Reinstated)
        <3>1. /\ Cardinality(live) = Cardinality(context.open) + Cardinality(Reinstated)
                     - Cardinality(context.open \cap Reinstated)
            BY <1>1, <1>3, <1>4, FS_Union
        <3>2. Cardinality(context.open \cap Reinstated) \in Nat
            BY <1>3, FS_Subset, FS_CardinalityType
        <3> QED BY <1>5, <3>1, <3>2
    <2>3. Cardinality(Reinstated) <= Cardinality(Pruned(context))
        BY <1>3, FS_Subset
    <2>4. host.entries \in Nat
        BY <1>2 DEF HostOK
    <2>5. Cardinality(live) + context.waiting + host.entries <= MaxRunnerEntries
        BY <1>3, <1>5, <2>1, <2>2, <2>3, <2>4, HostAssumption
    <2> HIDE DEF live, vanished, brokers, before
    <2>6. Cardinality(live) + Cardinality(vanished) + context.waiting + host.entries
              <= MaxRunnerEntries + MaxTombstones
        BY <1>1, <1>3, <1>5, <2>4, <2>5, HostAssumption
    <2> QED BY <1>1, <1>2, <2>6 DEF live, vanished, brokers
<1>7. CASE host.entries = 0
    <2>1. /\ Cardinality(before.live) + Cardinality(before.vanished) + before.waiting
                 + Cardinality(CommandsOf(before.issued, BrokerKinds))
             <= MaxRunnerEntries + MaxTombstones
          /\ before.waiting = context.waiting /\ before.issued = <<>>
          /\ before.live = context.open \cup Pruned(context)
          /\ before.vanished = context.hidden \ context.updates
        BY <1>2 DEF IsContext, ValidSection, CheckpointOf, Pruned
    <2> DEFINE held == before.live \cup before.vanished
    <2>2. IsFiniteSet(before.live) /\ IsFiniteSet(before.vanished) /\ IsFiniteSet(held)
        <3>1. IsFiniteSet(before.live) /\ IsFiniteSet(before.vanished)
            BY <1>3, <2>1, FS_Subset, FS_Union
        <3> HIDE DEF before
        <3> QED BY <3>1, FS_Union
    <2>3. live \cup vanished \subseteq held /\ live \cap vanished = {}
        <3>1. context.open \cap context.hidden = {}
            BY <1>2 DEF IsContext, Context
        <3> HIDE DEF live, vanished, before
        <3>2. live \cup vanished \subseteq held
            BY <1>1, <1>3, <2>1 DEF live, vanished, Pruned
        <3> QED BY <1>1, <3>1, <3>2 DEF live, vanished
    <2> HIDE DEF live, vanished, before, held
    <2>4. Cardinality(live \cup vanished) <= Cardinality(held)
        BY <2>2, <2>3, FS_Subset
    <2>5. Cardinality(live \cup vanished) = Cardinality(live) + Cardinality(vanished)
        <3>1. Cardinality(live \cup vanished) =
                  Cardinality(live) + Cardinality(vanished) - Cardinality(live \cap vanished)
            BY <1>4, FS_Union DEF live, vanished
        <3>2. Cardinality(live \cap vanished) = 0
            BY <2>3, FS_EmptySet
        <3> QED BY <1>5, <3>1, <3>2 DEF live, vanished
    <2>6. Cardinality(held) <= Cardinality(before.live) + Cardinality(before.vanished)
        <3>1. Cardinality(held) = Cardinality(before.live) + Cardinality(before.vanished)
                  - Cardinality(before.live \cap before.vanished)
            BY <2>2, FS_Union DEF held
        <3>2. IsFiniteSet(before.live \cap before.vanished)
            BY <2>2, FS_Subset
        <3>3. /\ Cardinality(before.live \cap before.vanished) \in Nat
              /\ Cardinality(before.live) \in Nat /\ Cardinality(before.vanished) \in Nat
            BY <2>2, <3>2, FS_CardinalityType
        <3> QED BY <3>1, <3>3
    <2>7. Cardinality(before.live) \in Nat /\ Cardinality(before.vanished) \in Nat
          /\ Cardinality(held) \in Nat
        BY <2>2, FS_CardinalityType
    <2>8. Cardinality(CommandsOf(before.issued, BrokerKinds)) = 0
        <3>1. CommandsOf(<<>>, BrokerKinds) = {}
            BY DEF CommandsOf
        <3> QED BY <2>1, <3>1, FS_EmptySet
    <2>9. Cardinality(before.live) + Cardinality(before.vanished) + context.waiting
              <= MaxRunnerEntries + MaxTombstones
        BY <1>3, <2>1, <2>7, <2>8, HostAssumption
    <2>10. Cardinality(live) + Cardinality(vanished)
               <= Cardinality(before.live) + Cardinality(before.vanished)
        BY <1>5, <2>4, <2>5, <2>6, <2>7 DEF live, vanished
    <2>11. Cardinality(live) + Cardinality(vanished) + context.waiting + 0
               <= MaxRunnerEntries + MaxTombstones
        BY <1>3, <1>5, <2>7, <2>9, <2>10, HostAssumption DEF live, vanished
    <2> QED BY <1>1, <1>2, <1>7, <2>11 DEF live, vanished, brokers
<1>8. host.entries \in Nat
    BY <1>2 DEF HostOK
<1> QED BY <1>6, <1>7, <1>8

\* A completed decision's section has an id twice just if the decision places an order
\* under the id of a refused place that is to be told again.
LEMMA SectionIdsAreUnique ==
    ASSUME ResultInvariant, CheckpointInvariant, phase = "Completed"
    PROVE  LET issued == checkpoint.issued
               places == CommandsOf(issued, {"Place"})
               used   == checkpoint.live \cup checkpoint.vanished
           IN  /\ checkpoint.live \cap checkpoint.vanished = {}
               /\ (\A i \in places : issued[i].client \notin used) <=> ~ReusesRefused
               /\ \A i, j \in places : i # j => issued[i].client # issued[j].client
<1> DEFINE commands == host.commands
           places == CommandsOf(commands, {"Place"})
           used == checkpoint.live \cup checkpoint.vanished
<1>1. /\ checkpoint.live = context.open \cup Reinstated
      /\ checkpoint.vanished \subseteq context.hidden \ Reinstated
      /\ checkpoint.issued = commands
      /\ Unused(context, host)
    BY DEF CheckpointInvariant, CheckpointFollows
<1>2. /\ Placed = {commands[i].client : i \in places}
      /\ \A i, j \in places : i # j => commands[i].client # commands[j].client
    BY DEF ResultInvariant, Good, FollowsCommands, OrdersFollow, NamedOnce, Placed
<1>3. context.open \cap context.hidden = {}
    BY DEF ResultInvariant, IsContext, Context
<1>4. checkpoint.live \cap checkpoint.vanished = {}
    BY <1>1, <1>3
<1>5. Placed \cap used = Placed \cap context.refused \cap (failed \ abandoned)
    <2>1. Placed \cap (context.open \cup context.final \cup context.hidden) = {}
        BY <1>1 DEF Unused, Placed
    <2> HIDE DEF Placed
    <2> QED BY <1>1, <2>1 DEF Reinstated, Reinstatable
<1>6. (\A i \in places : commands[i].client \notin used) <=> Placed \cap used = {}
    <2> HIDE DEF commands, places, used
    <2> QED BY <1>2
<1>7. ReusesRefused <=> Placed \cap used # {}
    BY <1>5 DEF ReusesRefused
<1> QED BY <1>1, <1>2, <1>4, <1>6, <1>7

\* An ended decision's checkpoint is a transition the contract admits, unless the
\* decision uses the id of a refused place that is to be told again.
LEMMA TransitionIsValid ==
    ASSUME HostInvariant, ResultInvariant, CheckpointInvariant,
           phase \in {"Completed", "Rejected"}
    PROVE  ValidTransition(context, phase, checkpoint) <=> ~ReusesRefused
<1>1. CASE phase = "Rejected"
    <2>1. checkpoint = CheckpointOf(context)
        BY <1>1 DEF CheckpointInvariant
    <2>2. ValidSection(CheckpointOf(context))
        BY DEF ResultInvariant, IsContext
    <2> QED BY <1>1, <2>1, <2>2 DEF ValidTransition, ReusesRefused
<1>2. CASE phase = "Completed"
    <2>1. checkpoint.sequence = CheckpointOf(context).sequence + 1
        BY <1>2 DEF CheckpointInvariant, CheckpointFollows, CheckpointOf
    <2>2. Cardinality(checkpoint.vanished) <= MaxTombstones
        BY <1>2 DEF CheckpointInvariant, CheckpointFollows
    <2>3. ValidSection(checkpoint) <=> ~ReusesRefused
        BY <1>2, <2>2, SectionStaysBounded, SectionIdsAreUnique DEF ValidSection
    <2> QED BY <1>2, <2>1, <2>3 DEF ValidTransition
<1> QED BY <1>1, <1>2

-----------------------------------------------------------------------------

\* The types of the decision's state: what the host counts stays within what its
\* commands allow, and an update is due or failed only of the context's.
THEOREM DecisionTypeOK == Spec => []TypeOK
<1>1. ResultInvariant /\ CheckpointInvariant => TypeOK
    <2> SUFFICES ASSUME ResultInvariant, CheckpointInvariant PROVE TypeOK
        OBVIOUS
    <2>1. ASSUME NEW h, Good(context, h)
          PROVE  /\ h.plan \in Plan /\ h.marked \subseteq Ids /\ h.timers \subseteq Keys
                 /\ h.entries \in 0..Len(h.commands) /\ h.reserved \in 0..h.entries
        <3> DEFINE places == CommandsOf(h.commands, {"Place"})
                   brokers == CommandsOf(h.commands, BrokerKinds)
                   paid == {id \in DOMAIN h.provisional : h.provisional[id].commitment = 1}
        <3>1. /\ h.plan \in Plan /\ h.marked \subseteq Ids /\ h.timers \subseteq Keys
              /\ IsSequence(h.commands) /\ h.entries = Cardinality(brokers)
              /\ h.reserved = Cardinality(paid) /\ IsFiniteSet(DOMAIN h.provisional)
              /\ Cardinality(DOMAIN h.provisional) = Cardinality(places)
            BY <2>1 DEF Good, FollowsCommands, CountsFollow
        <3>2. IsFiniteSet(brokers) /\ Cardinality(brokers) \in 0..Len(h.commands)
            BY <3>1, CommandsAreCounted DEF KindIsCounted
        <3>3. places \subseteq brokers
            BY DEF CommandsOf, BrokerKinds
        <3>4. Cardinality(places) <= Cardinality(brokers)
            BY <3>2, <3>3, FS_Subset
        <3>5. /\ IsFiniteSet(paid)
              /\ Cardinality(paid) <= Cardinality(DOMAIN h.provisional)
            BY <3>1, FS_Subset
        <3>6. /\ Cardinality(paid) \in Nat /\ Cardinality(DOMAIN h.provisional) \in Nat
              /\ Cardinality(brokers) \in Nat
            BY <3>1, <3>2, <3>5, FS_CardinalityType
        <3> HIDE DEF places, brokers, paid
        <3> QED BY <3>1, <3>2, <3>4, <3>5, <3>6
    <2>2. /\ abandoned \subseteq failed \cap Reinstatable
          /\ checkpoint.sequence = IF phase = "Completed" THEN 1 ELSE 0
        BY DEF CheckpointInvariant, CheckpointFollows, CheckpointOf
    <2> QED BY <2>1, <2>2 DEF ResultInvariant, TypeOK
<1> QED BY <1>1, InitResult, NextResult, InitCheckpoint, NextCheckpoint, PTL DEF Spec

\* Whatever calls the kernel makes, whatever updates fail, are undone or given up and
\* whatever tombstones are evicted, the result of an ended decision, its checkpoint with
\* it, passes the contract's check, with acknowledgements or without, unless a place of
\* the decision has the id of a refused place whose refusal is to be told again; then
\* the check refuses it.
THEOREM ResultsPassTheContract == Spec => []ResultIsValid
<1>1. HostInvariant /\ ResultInvariant /\ CheckpointInvariant => ResultIsValid
    <2> SUFFICES ASSUME HostInvariant, ResultInvariant, CheckpointInvariant PROVE ResultIsValid
        OBVIOUS
    <2>1. Good(context, host) /\ context \in Context
        BY DEF ResultInvariant
    <2> DEFINE commands == host.commands
               orders == DOMAIN host.provisional
               places == CommandsOf(commands, {"Place"})
    <2>2. /\ host.plan = PlanOf(context, commands)
          /\ host.plan \in Plan /\ Fits(host.plan, context.acknowledgeable)
        BY <2>1 DEF Good, FollowsCommands
    <2>3. ASSUME NEW acknowledges \in {FALSE, context.acknowledgeable}
          PROVE  Fits(PlanOf(context, commands), acknowledges)
        <3>1. host.plan.rows \in Nat
            BY <2>2 DEF Plan
        <3>2. Total(host.plan, FALSE) <= Total(host.plan, TRUE)
              /\ Total(host.plan, FALSE) \in Int /\ Total(host.plan, TRUE) \in Int
            BY <3>1 DEF Total, DecisionPlanRows, AcknowledgementPlanRows
        <3>3. Fits(host.plan, TRUE) => Fits(host.plan, FALSE)
            <4> DEFINE a == Total(host.plan, FALSE)
                       b == Total(host.plan, TRUE)
            <4>1. (Fits(host.plan, FALSE) <=> a <= MaxDecisionPlanRows)
                  /\ (Fits(host.plan, TRUE) <=> b <= MaxDecisionPlanRows)
                BY Zenon DEF Fits
            <4>2. a <= b /\ a \in Int /\ b \in Int
                BY <3>2
            <4> HIDE DEF a, b
            <4>3. b <= MaxDecisionPlanRows => a <= MaxDecisionPlanRows
                BY <4>2, PlanAssumption
            <4> QED BY Zenon, <4>1, <4>3
        <3>4. Fits(host.plan, FALSE)
            <4>1. CASE context.acknowledgeable = TRUE
                BY <2>2, <3>3, <4>1
            <4>2. CASE context.acknowledgeable = FALSE
                BY <2>2, <4>2
            <4>3. context.acknowledgeable \in BOOLEAN
                BY <2>1 DEF Context
            <4> QED BY <4>1, <4>2, <4>3
        <3> QED BY <2>2, <3>4
    <2>4. /\ Len(commands) <= MaxStrategyCommands
          /\ \A i \in 1..Len(commands) : commands[i].id = i - 1
          /\ Cardinality(CommandsOf(commands, {"Request"})) <= MaxRequests
          /\ NamedOnce(commands) /\ TargetsExist(context, commands) /\ Granted(context, commands)
          /\ Cardinality(context.open) + Cardinality(places) <= MaxOpenOrders(context.mode)
        BY <2>1 DEF Good
    <2>5. ASSUME phase \in {"Completed", "Rejected"},
                 NEW acknowledges \in {FALSE, context.acknowledgeable}
          PROVE  PassesTheContract(context, phase, commands, checkpoint, acknowledges)
                     <=> ~ReusesRefused
        <3>1. ValidTransition(context, phase, checkpoint) <=> ~ReusesRefused
            BY <2>5, TransitionIsValid
        <3> HIDE DEF commands
        <3> QED BY <2>3, <2>4, <3>1 DEF PassesTheContract, places
    <2> QED BY <2>5 DEF ResultIsValid, ResultInvariant
<1> QED BY <1>1, InitHost, NextHost, InitResult, NextResult, InitCheckpoint, NextCheckpoint, PTL
        DEF Spec

\* At any time, also in the midst of an update and after a failed one is undone, what the
\* host keeps beside the commands is what the commands say.
THEOREM HostKeepsStep == Spec => []HostFollowsCommands
<1>1. ResultInvariant => HostFollowsCommands
    BY DEF ResultInvariant, Good, HostFollowsCommands
<1> QED BY <1>1, InitResult, NextResult, PTL DEF Spec
=============================================================================
