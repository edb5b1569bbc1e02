\* A place, perhaps from before the runner, a cancel-all, and decisions lost in crashes.
SPECIFICATION Spec
CONSTANTS
    p1 = p1
    a1 = a1
    NoTarget = NoTarget
    Places = {p1}
    Cancels = {}
    CancelAlls = {a1}
    Existing = {p1}
    Statuses = {"DurablyAccepted", "PartiallyFilled", "Cancelled"}
    Quantity = 2
    MaxRunnerEntries = 2
    MaxTombstones = 1
    TombstoneExpiryViews = 2
    MaxDeliveryAttempts = 1
    MaxDeliveryDeferrals = 2
    MaxRevision = 3
    MaxIssued = 1
    Durability = {TRUE, FALSE}
INVARIANTS
    AcknowledgedIsTold
    AcknowledgedIsUntracked
PROPERTIES
    ReportsFollowFills
