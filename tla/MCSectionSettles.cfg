\* A place and a cancel, issued together or over a place of before; once the views settle,
\* each outcome is acknowledged, crashes, failures and held cancels or not.
SPECIFICATION FairSpec
CONSTANTS
    p1 = p1
    k1 = k1
    NoTarget = NoTarget
    Places = {p1}
    Cancels = {k1}
    CancelAlls = {}
    Existing = {p1}
    Statuses = {"DurablyAccepted", "PartiallyFilled", "Cancelled"}
    Quantity = 2
    MaxRunnerEntries = 2
    MaxTombstones = 1
    TombstoneExpiryViews = 2
    MaxDeliveryAttempts = 2
    MaxDeliveryDeferrals = 2
    MaxRevision = 2
    MaxIssued = 2
    Durability = {TRUE, FALSE}
PROPERTIES
    OutcomesAreAcknowledged
