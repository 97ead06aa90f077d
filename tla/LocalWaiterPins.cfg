SPECIFICATION Spec
CONSTANTS
    Block = {1, 2, 3, 4}
    CacheBlocks = 2
    ProtectedBlocks = 1
    GhostBlocks = 1
    Nodes = {n1}
    PrefixChains <- FourChains
    BlockTokens <- FourTokens
    Configs <- DedupConfigs
    MaxRequests = 4
    MaxArrival = 1
CHECK_DEADLOCK FALSE
PROPERTIES
    WaiterPinsHold
