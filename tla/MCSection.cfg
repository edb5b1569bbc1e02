\* A place and a cancel, in one decision or in two; one tombstone.
SPECIFICATION Spec
CONSTANTS
    p1 = p1
    k1 = k1
    NoTarget = NoTarget
    Places = {p1}
    Cancels = {k1}
    CancelAlls = {}
    Existing = {}
    Statuses = {"DurablyAccepted", "PartiallyFilled", "CancellationRequested", "Filled", "Cancelled"}
    Quantity = 2
    MaxRunnerEntries = 2
    MaxTombstones = 1
    TombstoneExpiryViews = 2
    MaxDeliveryAttempts = 2
    MaxDeliveryDeferrals = 2
    MaxRevision = 4
    MaxIssued = 2
    Durability = {TRUE}
INVARIANTS
    TypeOK
    FillsAccounted
    NeverToldTwice
    ClosedOrdersAreTold
    SectionIsReadable
