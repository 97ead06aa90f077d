CONSTANTS
    SNodes = 3
    Views <- MCViews
    RoutedPrompt <- MCRoutedPrompt
    RoutedGap = {2}
    RoutedRequests = 4
    AnchorDepth = 2
    MinShared = 2
    FamilyCap = 3
    LinkDepth = 3
    HotFloor = 2
    HotRefresh = 3
    HotPercent = 99
    ReuseWindow = 3
    Owner <- MCOwner
    Node = {0, 1}
    TraceBlock <- MCTraceBlock
    TransferFixed = 1
    TransferToken = 1
    KvsPrompt <- MCKvsPrompt
    Gap = {0, 4}
    KvsRequests = 4
    HbmBlocks = 2
    DramBlocks = 3
    StoreBlocks = 3
    Threshold = 2
    RecomputeToken = 2
    LeaseRequests = 2
    LeasePrompt <- MCLeasePrompt
    LeaseArrival = {0, 5}
    LeaseOutput = {1, 4, 6}
    LeaseConfig <- MCLeaseConfig
    PrefillNodes = 1
    BlockSize = 2
    FixedSchedule <- MCSchedule
    MinQuantum = 1
    BaseQuantum = 1
    MaxQuantum = 5
    PrefillWork = 1
    DecodeWork = 1
    CacheBlocks = 20
    SharedBlocks = 20
    Protocols <- MCProtocols
    LifePrefill = 2
    LifeDecode = 1
    LifeRequests = 3
    LifeArrival = {0, 3}
    LifeInput = {1, 3}
    LifeOutput = {1, 4}
    PrefillCost = 2
    DecodeCost = 2
    MaxWait = 6
    ProbeCost = 1
    Staleness = 8
    PutWork = 1
    PullWork = 2
    CountSets <- MCCountSets
    Limits = {4, 9}
    Jobs = {2}
    Workload <- MCWorkload
    ObservationEnd = 10
    TierSlo <- MCTierSlo
    CellRuns <- MCCellRuns
    BaselineGates <- MCBaseline
    StrictGates <- MCStrict
    Floors <- MCFloors
    Multipliers <- MCMultipliers
    PNode = {0, 1}
    Arriving <- MCArriving
    PlacedRequests = 3
    PrefillPerToken = 100
    KvsPerToken = 20
    Contention = 1
    BalancingThreshold = 2
    FamilyLimit = 2
    HotCount = 2
    FamilyDepth = 3
SPECIFICATION Spec
INVARIANTS
    AffinityIsSound
    TiersAreSound
    LeasesKeepTheirTokens
    BookingsAreHonest
    VerdictIsSound
    PlacementIsSound
