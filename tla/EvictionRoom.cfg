SPECIFICATION Spec
CONSTANTS
    Nodes <- MCNodes
    Keys <- MCKeys
    Requests <- MCRequests
    Arrival <- MCArrival
    Prefix <- MCPrefix
    Capacity = 2
    Modes <- Lru
    MaxEntries = 2
    MaxStaleness = 1
    RefreshWork = 2
    DelayWork = 1
    HistoryLimit = 3
    DecayWindow = 2
    MaxWork = 3
INVARIANTS
    AdmissionFits
