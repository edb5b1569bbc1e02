\* Every update is handled or abandoned.
SPECIFICATION FairSpec
CONSTANTS
    p1 = p1
    p2 = p2
    k1 = k1
    NoTarget = NoTarget
    Places = {p1, p2}
    Cancels = {k1}
    CancelAlls = {}
    Target <- SameTarget
    Quantity = 1
    MaxRunnerEntries = 4
    MaxTombstones = 1
    TombstoneExpiryViews = 2
    MaxDeliveryAttempts = 2
    MaxDeliveryDeferrals = 2
    Room = 2
    Costs = {1}
PROPERTIES
    EveryUpdateSettles
