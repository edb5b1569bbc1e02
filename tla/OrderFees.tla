----------------------------- MODULE OrderFees -----------------------------
(***************************************************************************)
(* The fees of one order (strategy_core_kernel, fees.rs): what each fill   *)
(* is charged, and what a buy commits when it is placed.                   *)
(*                                                                         *)
(* The Broker charges fill by fill and keeps the order's accumulator in    *)
(* between.  All amounts are exact: microdollars, quantities in parts of a *)
(* contract.  Every number the code gives these units is a constant, so    *)
(* small ones may stand for it.  The code refuses what does not fit 64     *)
(* bits; such orders and fills are left out.                               *)
(***************************************************************************)
EXTENDS Integers, FiniteSetsExt

CONSTANTS
    Dollar,         \* microdollars of a dollar, 1_000_000
    Grid,           \* POSTING_GRID_MICROS = 100, what cash is posted in
    Parts,          \* parts of a contract, 100
    Unit,           \* a rate of one and a multiplier of one, 10^6 * 10^6
    Multipliers,    \* fee multipliers
    Quantities      \* order quantities, in parts

ASSUME UnitsAssumption ==
    /\ {Dollar, Grid, Parts, Unit} \subseteq Nat \ {0}
    /\ Multipliers \subseteq Nat
    /\ Quantities \subseteq Nat \ {0}

VARIABLES
    order,          \* the order, as it was placed
    filled,         \* the parts filled so far
    accumulator,    \* the rounding kept for rebates
    spent,          \* the cash the fills took
    charged,        \* the fees the fills were charged
    traded          \* the trade fees in them, without rounding and rebates

vars == <<order, filled, accumulator, spent, charged, traded>>

\* Rounded up and down to whole multiples.
CeilDiv(a, b) == (a + b - 1) \div b
OnGrid(a) == (a \div Grid) * Grid

FeeTypes == {"Quadratic", "QuadraticWithMakerFees", "Flat"}
Roles == {"Maker", "Taker"}

\* In millionths.
BaseRate(type, role) ==
    IF role = "Maker"
    THEN IF type = "QuadraticWithMakerFees" THEN 17500 ELSE 0
    ELSE IF type = "Flat" THEN 35000 ELSE 70000

Order ==
    [action : {"Buy", "Sell"}, cap : 1..Dollar, quantity : Quantities,
     type : FeeTypes, multiplier : Multipliers]

-----------------------------------------------------------------------------
(* The fee of a fill.                                                      *)

Coefficient(o, role) == BaseRate(o.type, role) * o.multiplier

TradeFee(price, quantity, coefficient) ==
    CeilDiv(coefficient * price * (Dollar - price) * quantity, Unit * Dollar * Parts)

\* Mutant: what accumulated is rebated rounded up.
RebateRoundedUp(accumulated, before) ==
    IF accumulated <= OnGrid(before) THEN CeilDiv(accumulated, Grid) * Grid ELSE OnGrid(before)

Rebate(accumulated, before) ==
    IF OnGrid(accumulated) <= OnGrid(before) THEN OnGrid(accumulated) ELSE OnGrid(before)

\* Mutant: each fill starts with an accumulator of its own.
PostingOfAFill(revenue, fee, accumulated) ==
    LET rounding == (revenue - fee) % Grid
        rebate   == Rebate(rounding, fee + rounding)
    IN  [fee |-> fee + rounding - rebate, accumulator |-> rounding - rebate]

\* The cash change is rounded down to the grid; what that takes accumulates, and
\* goes back in whole units of the grid up to the fill's own fee.
Posting(revenue, fee, accumulated) ==
    LET rounding == (revenue - fee) % Grid
        rebate   == Rebate(accumulated + rounding, fee + rounding)
    IN  [fee         |-> fee + rounding - rebate,
         accumulator |-> accumulated + rounding - rebate]

-----------------------------------------------------------------------------
(* The commitment of a buy.                                                *)

\* The higher rate of the two roles.
WorstCoefficient(o) ==
    Max({Coefficient(o, role) : role \in Roles})

\* Where price and fee together would be highest, were they not rounded.
Peak(o) ==
    LET c == WorstCoefficient(o)
        vertex == (Dollar * c + Unit * Dollar) \div (2 * c)
    IN  IF c = 0 \/ vertex > o.cap THEN o.cap ELSE vertex

\* Mutant: only the price below the peak.
PricesBelow(o) ==
    {IF Peak(o) < r THEN r ELSE r + ((Peak(o) - r) \div Parts) * Parts :
        r \in {s \in 0..(Parts - 1) : s <= o.cap}}

\* Of the prices of each remainder, the one just below the peak and the one above.
PricesAround(o) ==
    UNION {LET last  == o.cap - ((o.cap - r) % Parts)
               lower == IF Peak(o) < r THEN r ELSE r + ((Peak(o) - r) \div Parts) * Parts
           IN  {lower, IF lower + Parts <= last THEN lower + Parts ELSE last} :
           r \in {s \in 0..(Parts - 1) : s <= o.cap}}

\* The cost of one part at a price, in parts of a microdollar.
PartCost(o, price) == price + Parts * TradeFee(price, 1, WorstCoefficient(o))

\* Mutant: the cap is not rounded up.
CapCost(o) == o.cap

\* The cap, rounded up to the grid.
GridCost(o) == CeilDiv(o.cap, Grid * Parts) * Grid * Parts

\* The most a part of the order may cost, in parts of a microdollar.
WorstPartCost(o) == Max({GridCost(o)} \cup {PartCost(o, price) : price \in PricesAround(o)})

WorstCash(o) ==
    CeilDiv(CeilDiv(o.quantity * WorstPartCost(o), Parts) + Grid - 1, Grid) * Grid

Principal(price, quantity) == (price * quantity) \div Parts

Reservation(o) == WorstCash(o) - Principal(o.cap, o.quantity)

\* What a buy commits when it is placed.
Commitment(o) == Principal(o.cap, o.quantity) + Reservation(o)

\* The Broker refuses a principal that is not a whole number of microdollars.
IsExact(price, quantity) == (price * quantity) % Parts = 0

-----------------------------------------------------------------------------
(* The order's fills.                                                      *)

Init ==
    /\ order \in {o \in Order : IsExact(o.cap, o.quantity)}
    /\ filled = 0 /\ accumulator = 0
    /\ spent = 0 /\ charged = 0 /\ traded = 0

\* The prices of fills: a buy's at or below its cap, a sell's at or above.
FillPrices(o) == IF o.action = "Buy" THEN 0..o.cap ELSE o.cap..Dollar

\* A fill of some parts, as maker or as taker.
Fill(price, quantity, role) ==
    LET principal == Principal(price, quantity)
        revenue   == IF order.action = "Buy" THEN -principal ELSE principal
        fee       == TradeFee(price, quantity, Coefficient(order, role))
        posting   == Posting(revenue, fee, accumulator)
    IN  /\ price \in FillPrices(order)
        /\ filled + quantity <= order.quantity
        /\ IsExact(price, quantity)
        /\ filled' = filled + quantity
        /\ accumulator' = posting.accumulator
        /\ spent' = spent - revenue + posting.fee
        /\ charged' = charged + posting.fee
        /\ traded' = traded + fee
        /\ UNCHANGED order

Next ==
    \E price \in 0..Dollar, quantity \in 1..order.quantity, role \in Roles :
        Fill(price, quantity, role)

Spec == Init /\ [][Next]_vars

-----------------------------------------------------------------------------
(* Properties.                                                             *)

\* No more is filled than ordered, and no fee or rounding kept is negative.
TypeOK ==
    /\ order \in Order
    /\ filled \in 0..order.quantity
    /\ {accumulator, charged, traded} \subseteq Nat
    /\ spent \in Int

\* However a buy is filled, in whatever parts, prices and roles, its fills never
\* take more cash than it committed.
SpendingIsCovered == order.action = "Buy" => spent <= Commitment(order)

\* Fill by fill, a buy has spent no more than its parts at the worst cost and what
\* the accumulator holds, up to the grid: the bound of the code's comment.
SpendingInvariant ==
    order.action = "Buy" =>
        Parts * spent <= filled * WorstPartCost(order) + Parts * Min({accumulator, Grid - 1})

\* No rounding is lost: the fees charged are the trade fees and what the accumulator
\* still holds, and all cash moves in units of the grid.
RoundingIsKept ==
    /\ charged = traded + accumulator
    /\ spent % Grid = 0

\* No fill pays out a fee: rebates are capped at the fill's own.
NoFeeIsNegative == [][charged' >= charged]_vars

\* The comment's claim: the few prices tried cover every price up to the cap.
FewPricesSuffice == \A price \in 0..order.cap : PartCost(order, price) <= WorstPartCost(order)
=============================================================================
