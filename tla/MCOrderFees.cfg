\* Fills of one order in units small enough to try every price and every split.
SPECIFICATION Spec
CONSTANTS
    Dollar = 12
    Grid = 4
    Parts = 3
    Unit = 100000
    Multipliers = {0, 2, 5}
    Quantities = {5, 6}
INVARIANTS
    TypeOK
    SpendingIsCovered
    SpendingInvariant
    RoundingIsKept
    FewPricesSuffice
\* A filled order has no more fills.
CHECK_DEADLOCK FALSE
