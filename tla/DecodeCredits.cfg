SPECIFICATION PolicySpec
CONSTANTS
    PNodes = {p1, p2}
    DNodes = {d1, d2}
    Key = {1, 2}
    KeyTokens <- MCTokens
    Workloads <- MCWorkloads
    Plans <- MCPlans
    PrefillCost = 1
    KvsCost = 1
    CacheEntries = 2
    RetryBudget = 1
    End = 40
    LeaseTokens = 1
    Capacity = 3
    Gates = {"NO_GATE", "DEFER", "GATED_PD", "GATED_DP"}
    Predictions = {1, 2, 4}
    Abortable = {1}
CHECK_DEADLOCK FALSE
INVARIANTS
    CreditsWithinCapacity
    LedgerMatchesKernel
    AbortsAreRetried
PROPERTIES
    EverythingSettles
