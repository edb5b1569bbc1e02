\* Two places, a cancel of one of them and a cancel-all; each command takes all the room.
SPECIFICATION Spec
CONSTANTS
    p1 = p1
    p2 = p2
    k1 = k1
    a1 = a1
    NoTarget = NoTarget
    Places = {p1, p2}
    Cancels = {k1}
    CancelAlls = {a1}
    Target <- SameTarget
    Quantity = 1
    MaxRunnerEntries = 4
    MaxTombstones = 1
    TombstoneExpiryViews = 2
    MaxDeliveryAttempts = 2
    MaxDeliveryDeferrals = 2
    Room = 1
    Costs = {1}
INVARIANTS
    TypeOK
    CancelsFollowTargets
    FailuresLeaveNothing
    HandledExactlyOnce
    OutcomesAsAssumed
    MostDeferredFirst
PROPERTIES
    CancelsAreNotDeferredOut
