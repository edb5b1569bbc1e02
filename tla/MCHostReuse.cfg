\* The id of a refused place, used again.
SPECIFICATION Spec
CONSTANTS
    x = x
    y = y
    NoUpdate = NoUpdate
    Ids = {x, y}
    Keys = {}
    Contexts <- LiveContexts
    MaxWaiting = 1
    MaxDecisionPlanRows = 20
    MaxOpenOrdersPaper = 6
    MaxStrategyCommands = 3
    MaxRequests = 1
    MaxRunnerEntries = 4
    MaxTombstones = 1
SYMMETRY OrderSymmetry
INVARIANTS
    PlaceIdsAreUnique
\* A decision ends.
CHECK_DEADLOCK FALSE
