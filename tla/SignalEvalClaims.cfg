SPECIFICATION FairSpec
CONSTANTS
    Tokens = {1, 2}
    Workers = {w1, w2}
    ClaimIds = {i1, i2, i3, i4}
    Lease = 1
    Reeval = 1
    BatchLimit = 2
    MaxFaults = 2
INVARIANTS
    WriterOwnsItsClaim
PROPERTIES
    LiveClaimIsRespected
    EligibleIsEvaluated
