------------------------------ MODULE PlanRows ------------------------------
(***************************************************************************)
(* The account plan rows of a decision's Broker commands (decision_v6.rs,  *)
(* DecisionPlanRows), counted as the kernel issues them.  The code keeps   *)
(* the open orders by name; only their number matters to the count.        *)
(***************************************************************************)
EXTENDS Integers

CONSTANTS
    MaxDecisionPlanRows,    \* MAX_DECISION_PLAN_ROWS = 512
    MaxOpenOrdersPaper      \* MAX_OPEN_ORDERS = 192

DecisionPlanRows == 4
AcknowledgementPlanRows == 1
PlaceOrderPlanRows == 5
CancelOrderPlanRows == 3
CancelAllOrdersPlanRows == 3
CollapsedPlacePlanRows == 1
RefusedCommandPlanRows == 1

ASSUME PlanAssumption ==
    /\ MaxDecisionPlanRows \in Nat
    /\ MaxDecisionPlanRows >= DecisionPlanRows + AcknowledgementPlanRows + CancelOrderPlanRows
    /\ MaxOpenOrdersPaper \in Nat
    /\ MaxOpenOrdersPaper + DecisionPlanRows + AcknowledgementPlanRows
           + CancelAllOrdersPlanRows <= MaxDecisionPlanRows

Modes == {"Paper", "Live"}

\* The open orders a Sleeve may hold.
MaxOpenOrders(mode) ==
    IF mode = "Paper" THEN MaxOpenOrdersPaper
    ELSE (MaxDecisionPlanRows - DecisionPlanRows - AcknowledgementPlanRows - 3)
             \div CancelOrderPlanRows

\* The count so far: `context` and `own` are the open context orders and the
\* decision's own places that no cancel-all of the decision covers yet.
Plan == [mode : Modes, rows : Nat, brokerCommands : Nat, context : Nat, own : Nat]

EmptyPlan(mode, open) ==
    [mode |-> mode, rows |-> 0, brokerCommands |-> 0, context |-> open, own |-> 0]

Total(plan, acknowledges) ==
    IF plan.brokerCommands = 0 THEN 0
    ELSE DecisionPlanRows + plan.rows + IF acknowledges THEN AcknowledgementPlanRows ELSE 0

WithRows(plan, rows) ==
    [plan EXCEPT !.rows = @ + rows, !.brokerCommands = @ + 1]

WithPlace(plan) == [WithRows(plan, PlaceOrderPlanRows) EXCEPT !.own = @ + 1]

\* The Broker refuses the cancel of an order that is final already.
WithCancel(plan, finalTarget) ==
    WithRows(plan, IF finalTarget THEN RefusedCommandPlanRows ELSE CancelOrderPlanRows)

\* Mutant: in live every order counts as a place.
CancelAllRowsAsPlaces(plan) ==
    IF plan.mode = "Paper" THEN CancelAllOrdersPlanRows + plan.context + plan.own
    ELSE PlaceOrderPlanRows * (plan.context + plan.own)

\* In live the Broker expands a cancel-all into one cancel per order.
CancelAllRows(plan) ==
    IF plan.mode = "Paper" THEN CancelAllOrdersPlanRows + plan.context + plan.own
    ELSE LET rows == CancelOrderPlanRows * plan.context + CollapsedPlacePlanRows * plan.own
         IN  IF rows > RefusedCommandPlanRows THEN rows ELSE RefusedCommandPlanRows

WithCancelAll(plan) ==
    [WithRows(plan, CancelAllRows(plan)) EXCEPT !.context = 0, !.own = 0]

Fits(plan, acknowledges) == Total(plan, acknowledges) <= MaxDecisionPlanRows
=============================================================================
