\* Two runs of each script, dying anywhere.
SPECIFICATION Spec
CONSTANTS
    host1 = host1
    host2 = host2
    e1 = e1
    e2 = e2
    Unknown = Unknown
    Machines <- MCMachines
    EndpointIds <- MCEndpoints
    MinimumFit = 1
    MinimumObservations = 1
    Outcomes <- MCOutcomes
    MaxSweep = 1
    MaxCalibrations = 2
    MaxValidations = 1
SYMMETRY Symmetry
CHECK_DEADLOCK FALSE
INVARIANTS
    ClaimsAreEarned
