\* Own places before a cancel-all, within the open-order cap.
SPECIFICATION Spec
CONSTANTS
    x = x
    y = y
    z = z
    NoUpdate = NoUpdate
    Ids = {x, y, z}
    Keys = {}
    Contexts <- QuietContexts
    MaxWaiting = 1
    MaxDecisionPlanRows = 20
    MaxOpenOrdersPaper = 6
    MaxStrategyCommands = 3
    MaxRequests = 1
    MaxRunnerEntries = 4
    MaxTombstones = 1
SYMMETRY OrderSymmetry
INVARIANTS
    CancelAllAlwaysFits
\* A decision ends.
CHECK_DEADLOCK FALSE
