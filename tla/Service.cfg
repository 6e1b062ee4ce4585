SPECIFICATION ServiceSpec
CONSTANTS
    MgNames = {1, 2, 3}
    MgDigests = {"a", "b"}
    MgDirs <- MCDirs
    MgEmbedded <- MCEmbedded
    MgAbortsOn <- MCAborts
    MgAddsState = 1
    MgDatabases <- MCDatabases
    Migrators = {"m1", "m2"}
    MgServices = {"s1"}
    MgMaxStarts = 2
    Loops = {p1, p2}
    MaxBlock <- SmallChain
    Span <- SmallSpan
    MaxFaults = 3
    QgQueues <- MCQueues
    QgWorkers <- MCWorkers
    QgMaxWrites = 2
    QgMaxFails = 2
    RtMaxRows = 2
    RtRetention = 1
    RtBatch = 1
    RtMaxBatches = 2
    RtInterval = 1
    RtMaxFails = 1
CHECK_DEADLOCK FALSE
INVARIANTS
    MigUpgradesSucceed
    NoBlockUnseen
    PausesAreObeyed
PROPERTIES
    MigLedgerIsTrue
    MigWaiterEnds
    EveryBlockTried
    ResumedQueuesAreServed
    RetentionIsKept
