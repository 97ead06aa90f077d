SPECIFICATION KernelSpec
CONSTANTS
    p1 = p1
    p2 = p2
    d1 = d1
    d2 = d2
    PNodes = {p1, p2}
    DNodes = {d1, d2}
    Key = {1, 2}
    KeyTokens <- MCTokens
    Workloads <- MCWorkloads
    Plans <- MCPlans
    PrefillCost = 1
    KvsCost = 1
    CacheEntries = 1
    RetryBudget = 1
    End = 12
    LeaseTokens = 1
CHECK_DEADLOCK FALSE
INVARIANTS
    NodesRunOneAtATime
    AttemptsAdvance
    QueueProxyExact
    HitsComeFromPublishedWork
    NobodyOversleeps
PROPERTIES
    RunEnds
