SPECIFICATION KernelSpec
CONSTANTS
    p1 = p1
    p2 = p2
    d1 = d1
    d2 = d2
    PNodes = {p1, p2}
    DNodes = {d1}
    Key = {1, 2}
    KeyTokens <- MCTokens
    Workloads <- MCWorkloads
    Plans <- MCPlansOfOneNode
    PrefillCost = 1
    KvsCost = 0
    CacheEntries = 2
    RetryBudget = 1
    End = 6
    LeaseTokens = 1
CHECK_DEADLOCK FALSE
INVARIANTS
    IssuedWorkFits
