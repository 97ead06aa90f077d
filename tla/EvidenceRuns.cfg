\* A shared sink through failed writes, crashes, outages and restarts; two cells
\* with up to three damages each, then the verdict; two processes of each grid
\* script, one after the other.
SPECIFICATION Spec
CONSTANTS
    r1 = r1
    r2 = r2
    k1 = k1
    k2 = k2
    mixed = mixed
    overload = overload
    Requests <- MCRequests
    Decisions <- MCDecisions
    MaxAttempts = 1
    MaxPushes = 3
    Keys <- MCKeys
    Values = {1, 2}
    Cells = 2
    Arms <- MCArms
    Scores <- MCScores
    MinReconciled <- Half
    MaxDisagreement <- Nothing
    MinTau <- FourFifths
    MaxFaults = 3
    Absent = Absent
    NoCell = NoCell
    Regimes <- OneRegime
    Scales <- OneScale
    Overload = overload
    Mixed = mixed
    MaxRuns = 2
    MaxFailures = 1
    MaxJoinTimeouts = 1
SYMMETRY Symmetry
INVARIANTS
    LogIsKept
    ReportTellsTheTruth
    JoinIsExact
    VerdictStands
    PublicationIsSafe
    GridStopsAtItsLimit
    OutcomeTellsTheTruth
