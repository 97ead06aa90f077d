\* The output stream under leases, grants, crashes and stray frames, and the
\* selections before it, over two maps of different age.
SPECIFICATION Spec
CONSTANTS
    h1 = h1
    h2 = h2
    NoHost = NoHost
    Hosts <- MCHosts
    Maps <- MCMaps
    OwnerSupports <- AllCapabilities
    InstanceReports <- SomeCapabilities
    Mode = "enforce"
    RetryBudget = 2
    MaxRounds = 2
    D2GateOpen = TRUE
    DurableAck = TRUE
    MaxPreemptions = 1
    MaxAttempts = 3
    MaxOutput = 2
    MaxViewEpoch = 1
CONSTRAINT Explored
CHECK_DEADLOCK FALSE
INVARIANTS
    TypeOK
    ExactlyOnceInOrder
    LedgerMirrorsFence
    SupersededLegsFenced
    AdvisoryReportNeverRaises
    RetryLedgerSound
PROPERTIES
    ExhaustionOnlyEndsInError
    AppliedViewsNeverRegress
    ImplementsPromise
