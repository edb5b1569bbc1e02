\* A decision in either mode, with and without each grant, up to the open-order cap.
SPECIFICATION Spec
CONSTANTS
    x = x
    y = y
    t = t
    NoUpdate = NoUpdate
    Ids = {x, y}
    Keys = {t}
    Contexts <- AllContexts
    MaxWaiting = 1
    MaxDecisionPlanRows = 14
    MaxOpenOrdersPaper = 4
    MaxStrategyCommands = 3
    MaxRequests = 1
    MaxRunnerEntries = 5
    MaxTombstones = 1
SYMMETRY OrderSymmetry
INVARIANTS
    TypeOK
    ResultIsValid
    HostFollowsCommands
    LiveEntriesFit
    CancelAllFitsFirst
\* A decision ends.
CHECK_DEADLOCK FALSE
