\* A process of the final script publishes; the next one cannot remove the
\* placeholder of its backup.
SPECIFICATION Spec
CONSTANTS
    r1 = r1
    r2 = r2
    k1 = k1
    k2 = k2
    mixed = mixed
    overload = overload
    Requests <- MCRequests
    Decisions <- MCDecisions
    MaxAttempts = 1
    MaxPushes = 1
    Keys <- MCKeys
    Values = {1, 2}
    Cells = 2
    Arms <- MCArms
    Scores <- MCScores
    MinReconciled <- Half
    MaxDisagreement <- Nothing
    MinTau <- FourFifths
    MaxFaults = 1
    Absent = Absent
    NoCell = NoCell
    Regimes <- OneRegime
    Scales <- OneScale
    Overload = overload
    Mixed = mixed
    MaxRuns = 2
    MaxFailures = 0
    MaxJoinTimeouts = 0
SYMMETRY Symmetry
INVARIANTS
    FailureRestores
