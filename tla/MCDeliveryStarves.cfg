\* Three places that each take all the room, at most one deferral.
SPECIFICATION Spec
CONSTANTS
    p1 = p1
    p2 = p2
    p3 = p3
    NoTarget = NoTarget
    Places = {p1, p2, p3}
    Cancels = {}
    CancelAlls = {}
    Target <- SameTarget
    Quantity = 1
    MaxRunnerEntries = 4
    MaxTombstones = 1
    TombstoneExpiryViews = 2
    MaxDeliveryAttempts = 2
    MaxDeliveryDeferrals = 2
    Room = 1
    Costs = {1}
INVARIANTS
    NoneStarves
