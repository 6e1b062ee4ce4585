SPECIFICATION FairSpec
CONSTANTS
    Keys = {1, 2}
    FundingKeys = {1}
    Dispatchers = {d1}
    Producers = {p1}
    MaxAttempts = 2
    Lease = 2
    BackoffUnit = 1
    BackoffCap = 1
    MaxRetryAfter = 1
    RetryAfterHints = {0, 3}
    BatchLimit = 1
    MaxAborts = 1
INVARIANTS
    OneHolder
PROPERTIES
    LiveClaimEndsByItsHolder
    ImplementsDelivery
    EventuallySettled
