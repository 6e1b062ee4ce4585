SPECIFICATION StoresSpec
CONSTANTS
    WpSpaces = {"ws1", "ws2"}
    Wallets = {"w"}
    WpMaxLabels = 2
    WpMaxTime = 2
    WpReaders = {"r1"}
    WgWallets = {a, b, c, d}
    WgEvidence <- MCEvidence
    WgMaxEdges = 3
    ApClients = {"c1", "c2"}
    ApKeyOf <- MCKeyOf
    ApSpaces = {"default"}
    ApDefault = "default"
    ApBatches <- MCBatches
    ApMaxFailures = 2
    ApWindow = 1
    ApKeep = 1
    ApTtl = 1
    ApMaxTime = 2
    ApMaxTokens = 1
    ApMaxFailed = 3
    InHooks = {"h1", "h2"}
    InKind <- MCKind
    InPayloads <- MCPayloads
    InHistory <- MCHistory
    InPageSize = 1
    InMaxPages = 2
    TgChannels = {"a"}
    TgTexts <- MCTexts
    TgLimit = 2
    TgMaxPosts = 2
    TgMaxChanges = 2
    TgMaxFaults = 1
    GmCapacity = 5
    GmRate = 2
    GmCosts = {1, 3}
    GmMaxSleep = 2
    GmMaxPause = 4
    GmMaxLimited = 3
CHECK_DEADLOCK FALSE
INVARIANTS
    PolicyIsRespected
    PanelIsHonest
    IngestIsDurable
    StoredIsEvidence
    GmRateIsBounded
PROPERTIES
    LabelsAreSafe
    ClustersAreSound
    PanelIsGuarded
    RecentMessagesAreStored
    QueryEnds
