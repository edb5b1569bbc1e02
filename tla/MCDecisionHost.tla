--------------------------- MODULE MCDecisionHost ---------------------------
(***************************************************************************)
(* DecisionHost for TLC: the contexts and symmetric orders.                *)
(***************************************************************************)
EXTENDS DecisionHost

CONSTANT MaxWaiting     \* bound on the cancels that wait for their receipt

\* Contexts over a complete view, without timers and requests.
ContextsIn(mode, hidden, waiting) ==
    [open : SUBSET Ids, final : SUBSET Ids, refused : SUBSET Ids, hidden : hidden,
     updates : SUBSET Ids, waiting : 0..waiting, complete : {TRUE}, timers : {FALSE},
     requests : {FALSE}, acknowledgeable : BOOLEAN, mode : {mode}]

LiveContexts == ContextsIn("Live", SUBSET Ids, MaxWaiting)
PaperContexts == ContextsIn("Paper", {{}}, 0)

\* At most one order, open, with or without each grant.
GrantContexts ==
    {c \in [open : SUBSET Ids, final : {{}}, refused : {{}}, hidden : {{}},
            updates : SUBSET Ids, waiting : {0}, complete : BOOLEAN, timers : BOOLEAN,
            requests : BOOLEAN, acknowledgeable : {FALSE}, mode : {"Live"}] :
        Cardinality(c.open \cup c.updates) <= 1}

AllContexts == LiveContexts \cup PaperContexts \cup GrantContexts

\* Open orders and none to report.
QuietContexts ==
    {c \in LiveContexts : c.updates = {} /\ c.hidden = {} /\ c.waiting = 0}

OrderSymmetry == Permutations(Ids)
=============================================================================
