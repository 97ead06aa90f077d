SPECIFICATION Spec
CONSTANTS
    Block = {1, 2, 3}
    CacheBlocks = 2
    ProtectedBlocks = 1
    GhostBlocks = 1
    Nodes = {n1}
    PrefixChains <- MCChains
    BlockTokens <- MCTokens
    Configs <- MCConfigs
    MaxRequests = 4
    MaxArrival = 3
CHECK_DEADLOCK FALSE
INVARIANTS
    PinsMatchRequests
    SlotsFilledExactly
    PolicyTracksResidents
    DelayedViewReadsThePast
PROPERTIES
    ReplayDrains
