------------------------ MODULE HardwareValidation ------------------------
(***************************************************************************)
(* From a serving engine to the label HW_VALIDATED.  A calibration run     *)
(* (scripts/run_m9_hardware.py) describes an engine, sweeps it, judges     *)
(* what it saw and publishes artifacts; a validation run                   *)
(* (scripts/run_m10_hardware.py) reads such artifacts together with a      *)
(* document of measurements, judges, and publishes in its turn.  The gates *)
(* are calibration/hardware.py and replay/hardware.py.                     *)
(*                                                                         *)
(* Artifacts are replaced file by file with the manifest last, and a run   *)
(* may die anywhere.  A directory is read in one step: its reader treats   *)
(* it as immutable.                                                        *)
(***************************************************************************)
EXTENDS Naturals, Sequences

CONSTANTS
    Machines,       \* who may answer behind the URL of the engine
    Unknown,        \* the machine of a run that identified none
    EndpointIds,    \* names an operator gives an endpoint
    MinimumFit,     \* observations a fit needs, and the reviewed policy asks for
    MinimumObservations,
    Outcomes,       \* what replaying a document can come to
    MaxSweep,       \* bounds: points of a sweep, runs of each script
    MaxCalibrations, MaxValidations

ASSUME HardwareAssumption ==
    /\ Unknown \notin Machines
    /\ MinimumFit \in Nat \ {0} /\ MinimumObservations \in Nat
    /\ Outcomes \subseteq [plan_frozen : BOOLEAN, reconciled : BOOLEAN,
                            tau_b : {"none", "below", "above"}]
    /\ MaxSweep \in Nat /\ MaxCalibrations \in Nat /\ MaxValidations \in Nat

VARIABLES
    serving,        \* the machine that answers now
    m9,             \* the calibration run in progress
    m10,            \* the validation run in progress
    calibrations,   \* what the judged runs of each script had to publish, in
    validations,    \*   order (history)
    disk            \* disk[d][f]: the run that wrote file f of d, or NoRun

vars == <<serving, m9, m10, calibrations, validations, disk>>

MANIFEST == "MANIFEST.json"
GATE     == "GATE.json"

\* The artifacts each verdict publishes, in the order they are replaced.
Files(d) ==
    CASE d = "m9-hardware" ->
            <<GATE, "observations.csv", "params.json", "results.csv", MANIFEST>>
      [] d = "m9-hardware-blocked"  -> <<GATE, MANIFEST>>
      [] d = "m10-hardware"         -> <<GATE, "replay.json", MANIFEST>>
      [] d = "m10-hardware-blocked" -> <<GATE, "fault_injection.csv", MANIFEST>>

Dirs == {"m9-hardware", "m9-hardware-blocked",
         "m10-hardware", "m10-hardware-blocked"}
-----------------------------------------------------------------------------
\* The gates.  A blocker is charged for each reason that holds, and what a
\* report may be labelled is one choice of status, unit and tier.

Charge(blocker, reason) == IF reason THEN {blocker} ELSE {}

HardwareBlockers(policy, context, evidence) ==
    UNION {
        Charge("NO_ENGINE_ACCESS", ~evidence.engine_reachable),
        Charge("SYNTHETIC_ENDPOINT", evidence.endpoint_is_synthetic),
        Charge("NOT_PRODUCTION_TRUSTED", ~evidence.production_trust),
        Charge("NON_PRODUCTION_POLICY", ~policy.production),
        Charge("INCOMPLETE_PROVENANCE", context.machine = Unknown),
        Charge("CONTRACT_VERSION_MISMATCH", ~context.contract),
        Charge("INSUFFICIENT_OBSERVATIONS",
               evidence.observation_count < policy.minimum_observations),
        Charge("FIT_UNAVAILABLE", evidence.fit = "none"),
        Charge("RESIDUAL_ABOVE_GATE", evidence.fit = "poor"),
        Charge("DRY_RUN_ONLY", evidence.dry_run)}

\* The three fields of a label move together.
HARDWARE   == <<"HW_CALIBRATED", "MILLISECONDS", "HW_VALIDATED">>
EXPERIMENT == <<"NON_PRODUCTION_EXPERIMENT", "NORMALIZED_WORK",
                "SYNTHETIC_REPLAY">>
REMOTE     == <<"SYNTHETIC_UNCALIBRATED", "NORMALIZED_WORK", "REMOTE_REPORTED">>
HARNESS    == <<"SYNTHETIC_UNCALIBRATED", "NORMALIZED_WORK", "HARNESS_ONLY">>
REPLAY     == <<"SYNTHETIC_UNCALIBRATED", "NORMALIZED_WORK", "SYNTHETIC_REPLAY">>

CalibrationLabels(blockers, evidence) ==
    CASE blockers = {}                          -> HARDWARE
      [] "NON_PRODUCTION_POLICY" \in blockers   -> EXPERIMENT
      [] /\ blockers = {"NOT_PRODUCTION_TRUSTED"}
         /\ evidence.engine_reachable
         /\ ~evidence.endpoint_is_synthetic     -> REMOTE
      [] OTHER                                  -> HARNESS

ReplayBlockers(policy, evidence) ==
    UNION {
        Charge("NO_ENGINE_ACCESS", ~evidence.engine_reachable),
        Charge("SYNTHETIC_CALIBRATION", evidence.calibration_endpoint_synthetic),
        Charge("CALIBRATION_NOT_ACCEPTED",
               \/ ~evidence.calibration_accepted
               \/ evidence.calibration_status # "HW_CALIBRATED"),
        Charge("INCOMPLETE_PROVENANCE", ~evidence.provenance_complete),
        Charge("PLAN_NOT_FROZEN", ~evidence.plan_frozen),
        Charge("STATISTIC_NOT_FROZEN", ~evidence.ranked),
        Charge("NON_PRODUCTION_POLICY", ~policy.production),
        Charge("RANKING_UNAVAILABLE", evidence.tau_b = "none"),
        Charge("RANKING_BELOW_GATE", evidence.tau_b = "below"),
        Charge("FRACTIONS_OUTSIDE_GATE", ~evidence.reconciled),
        Charge("DRY_RUN_ONLY", evidence.dry_run)}

ReplayLabels(blockers) ==
    CASE blockers = {}                        -> HARDWARE
      [] "NON_PRODUCTION_POLICY" \in blockers -> EXPERIMENT
      [] OTHER                                -> REPLAY

\* The strings no artifact of a rejected run may name.
HardwareLabels == {"HW_CALIBRATED", "MILLISECONDS", "HW_VALIDATED"}
-----------------------------------------------------------------------------
Idle == [stage |-> "idle"]
NoRun == 0
None  == "none"

Init ==
    /\ serving \in Machines
    /\ m9 = Idle /\ m10 = Idle
    /\ calibrations = <<>> /\ validations = <<>>
    /\ disk = [d \in Dirs |->
                 [f \in {Files(d)[i] : i \in DOMAIN Files(d)} |-> NoRun]]

\* A server restart: another machine answers at the same URL.
Restart ==
    /\ serving' \in Machines \ {serving}
    /\ UNCHANGED <<m9, m10, calibrations, validations, disk>>

\* One os.replace of a run that publishes; the last one ends the run.
Publishing(run, dir) ==
    [stage |-> "publishing", run |-> run, dir |-> dir, next |-> 1]

Replaced(job) ==
    [disk EXCEPT ![job.dir][Files(job.dir)[job.next]] = job.run]

AfterReplace(job) ==
    IF job.next = Len(Files(job.dir)) THEN Idle
    ELSE [job EXCEPT !.next = @ + 1]

\* No artifact of a rejected run may name a hardware label.
ScanPasses(accepted, names) == accepted \/ names \cap HardwareLabels = {}
-----------------------------------------------------------------------------
\* The calibration run.  It describes the engine once; no URL, or a handshake
\* that raises, leaves it without an engine.
Calibrate(reachable, machine, dry_run) ==
    /\ m9 = Idle /\ Len(calibrations) < MaxCalibrations
    /\ machine = Unknown \/ (reachable /\ machine = serving)
    /\ m9' = [stage |-> "sweeping", reachable |-> reachable, machine |-> machine,
              dry_run |-> dry_run, measured |-> {}, count |-> 0]
    /\ UNCHANGED <<serving, m10, calibrations, validations, disk>>

\* One grid point, timed by whoever answers.
Measure ==
    /\ m9.stage = "sweeping" /\ m9.reachable /\ ~m9.dry_run
    /\ m9.count < MaxSweep
    /\ m9' = [m9 EXCEPT !.measured = @ \cup {serving}, !.count = @ + 1]
    /\ UNCHANGED <<serving, m10, calibrations, validations, disk>>

\* The sweep is over: fit, judge, and have something to publish.  What the
\* operator chose is chosen here, where it is first used.
Judge(policy, endpoint, dirty, trusted, contract, fit) ==
    /\ m9.stage = "sweeping"
    /\ m9.reachable /\ ~m9.dry_run => m9.count > 0
    /\ m9.count < MinimumFit => fit = None
    /\ LET evidence == [engine_reachable |-> m9.reachable,
                        endpoint_is_synthetic |-> ~m9.reachable,
                        production_trust |-> m9.reachable /\ trusted,
                        observation_count |-> m9.count,
                        fit |-> fit, dry_run |-> m9.dry_run]
           context  == [machine |-> m9.machine,
                        contract |-> m9.reachable /\ contract]
           blockers == HardwareBlockers(policy, context, evidence)
           accepted == blockers = {}
           labels   == CalibrationLabels(blockers, evidence)
       IN /\ ScanPasses(accepted, {labels[1], labels[2], labels[3]})
          /\ calibrations' = Append(calibrations,
                IF accepted
                THEN [accepted |-> TRUE, labels |-> labels, endpoint |-> endpoint,
                      machine |-> m9.machine, measured |-> m9.measured,
                      dirty |-> dirty]
                ELSE [accepted |-> FALSE, labels |-> labels])
          /\ m9' = Publishing(Len(calibrations) + 1,
                              IF accepted THEN "m9-hardware"
                              ELSE "m9-hardware-blocked")
    /\ UNCHANGED <<serving, m10, validations, disk>>

ReplaceCalibration ==
    /\ m9.stage = "publishing"
    /\ disk' = Replaced(m9) /\ m9' = AfterReplace(m9)
    /\ UNCHANGED <<serving, m10, calibrations, validations>>

\* A grid point that cannot be measured, a write that fails, a kill.
CalibrationDies ==
    /\ m9 # Idle /\ m9' = Idle
    /\ UNCHANGED <<serving, m10, calibrations, validations, disk>>
-----------------------------------------------------------------------------
\* The validation run.  A directory it can load holds every file of an
\* accepted calibration, each as its manifest has it, from committed code.
Required == {Files("m9-hardware")[i] : i \in DOMAIN Files("m9-hardware")}

Holds(d, files) ==
    /\ files \subseteq DOMAIN disk[d]
    /\ \A f \in files : disk[d][f] # NoRun

ManifestVerifies(d) == \A f \in DOMAIN disk[d] : disk[d][f] = disk[d][MANIFEST]

Loadable(d) ==
    /\ Holds(d, Required)
    /\ ManifestVerifies(d)
    /\ ~calibrations[disk[d][GATE]].dirty

NoArtifact == [accepted |-> FALSE, status |-> None, machine |-> Unknown,
               endpoint |-> None, manifest |-> NoRun, synthetic |-> TRUE,
               reachable |-> FALSE]

\* What each file contributes: the report comes from the gate's, the endpoint
\* from the parameters, the digest from the manifest itself.
LoadCalibration(d) ==
    IF d = None \/ ~Loadable(d) THEN NoArtifact
    ELSE LET gate == calibrations[disk[d][GATE]]
         IN [accepted |-> gate.accepted, status |-> gate.labels[1],
             machine |-> gate.machine,
             endpoint |-> calibrations[disk[d]["params.json"]].endpoint,
             manifest |-> disk[d][MANIFEST], synthetic |-> FALSE,
             reachable |-> TRUE]

\* The one machine behind a calibration and a document, or Unknown.
OneMachine(artifact, observed) ==
    LET candidates ==
            (IF artifact = NoArtifact THEN {} ELSE {artifact.machine})
                \cup observed.machines
    IN IF \E m \in Machines : candidates = {m}
       THEN CHOOSE m \in Machines : candidates = {m}
       ELSE Unknown

\* variant: any calibration of the same endpoint and machine will do.
BoundByEndpoint(artifact, observed) ==
    /\ observed.endpoint = artifact.endpoint
    /\ observed.machines \subseteq {artifact.machine}

\* A document is measured against one calibration: same endpoint, same
\* manifest, same machine in every cell.
Bound(artifact, observed) ==
    /\ observed.endpoint = artifact.endpoint
    /\ observed.manifest = artifact.manifest
    /\ observed.machines \subseteq {artifact.machine}

NoDocument == [endpoint |-> None, manifest |-> NoRun, machines |-> {},
               outcome |-> [plan_frozen |-> FALSE, tau_b |-> None,
                            reconciled |-> FALSE]]

Documents ==
    [endpoint : EndpointIds, manifest : {NoRun} \cup DOMAIN calibrations,
     machines : SUBSET Machines \ {{}}, outcome : Outcomes]

Evidence(artifact, observed, dry_run) ==
    LET given == observed # NoDocument
        bound == artifact # NoArtifact /\ given => Bound(artifact, observed)
    IN [engine_reachable |-> given /\ artifact.reachable
                                   /\ artifact.accepted /\ bound,
        calibration_status |-> artifact.status,
        calibration_accepted |-> artifact.accepted /\ bound,
        calibration_endpoint_synthetic |-> artifact.synthetic,
        provenance_complete |-> OneMachine(artifact, observed) # Unknown,
        ranked |-> given, plan_frozen |-> observed.outcome.plan_frozen,
        tau_b |-> observed.outcome.tau_b,
        reconciled |-> observed.outcome.reconciled, dry_run |-> dry_run]

\* The report names its labels and, within its evidence, the status of the
\* calibration it read; only the policy is left out of the scan.
Names(labels, evidence) ==
    {labels[1], labels[2], labels[3], evidence.calibration_status}

Validate(d, observed, policy, dry_run) ==
    /\ m10 = Idle /\ Len(validations) < MaxValidations
    /\ LET artifact == LoadCalibration(d)
           evidence == Evidence(artifact, observed, dry_run)
           blockers == ReplayBlockers(policy, evidence)
           accepted == blockers = {}
           names    == Names(ReplayLabels(blockers), evidence)
       IN IF ScanPasses(accepted, names)
          THEN /\ validations' = Append(validations,
                    IF accepted
                    THEN [accepted |-> TRUE, names |-> names,
                          endpoint |-> observed.endpoint,
                          manifest |-> observed.manifest,
                          machine  |-> OneMachine(artifact, observed)]
                    ELSE [accepted |-> FALSE, names |-> names])
               /\ m10' = Publishing(Len(validations) + 1,
                                    IF accepted THEN "m10-hardware"
                                    ELSE "m10-hardware-blocked")
          ELSE UNCHANGED <<validations, m10>>
    /\ UNCHANGED <<serving, m9, calibrations, disk>>

ReplaceValidation ==
    /\ m10.stage = "publishing"
    /\ disk' = Replaced(m10) /\ m10' = AfterReplace(m10)
    /\ UNCHANGED <<serving, m9, calibrations, validations>>

ValidationDies ==
    /\ m10 # Idle /\ m10' = Idle
    /\ UNCHANGED <<serving, m9, calibrations, validations, disk>>
-----------------------------------------------------------------------------
Policies == [production : BOOLEAN, minimum_observations : {MinimumObservations}]

Next ==
    \/ Restart
    \/ \E reachable, dry_run \in BOOLEAN, m \in Machines \cup {Unknown} :
          Calibrate(reachable, m, dry_run)
    \/ Measure
    \/ \E p \in Policies, e \in EndpointIds, dirty, trusted, contract \in BOOLEAN,
          fit \in {None, "poor", "good"} :
          Judge(p, e, dirty, trusted, contract, fit)
    \/ ReplaceCalibration
    \/ CalibrationDies
    \/ \E d \in {None, "m9-hardware", "m9-hardware-blocked"},
          observed \in Documents \cup {NoDocument}, p \in Policies,
          dry_run \in BOOLEAN :
          Validate(d, observed, p, dry_run)
    \/ ReplaceValidation
    \/ ValidationDies

Spec == Init /\ [][Next]_vars
-----------------------------------------------------------------------------
Label == {"HW_CALIBRATED", "NON_PRODUCTION_EXPERIMENT", "SYNTHETIC_UNCALIBRATED",
          "MILLISECONDS", "NORMALIZED_WORK", "HW_VALIDATED", "REMOTE_REPORTED",
          "HARNESS_ONLY", "SYNTHETIC_REPLAY", None}

Jobs(dirs, runs) == {Idle} \cup
    UNION {[stage : {"publishing"}, run : runs, dir : {d},
            next : DOMAIN Files(d)] : d \in dirs}

Calibrated == [accepted : {TRUE}, labels : {HARDWARE}, endpoint : EndpointIds,
               machine : Machines, measured : SUBSET Machines, dirty : BOOLEAN]

Validated == [accepted : {TRUE}, names : SUBSET Label, endpoint : EndpointIds,
              manifest : 1 .. MaxCalibrations, machine : Machines]

TypeOK ==
    /\ serving \in Machines
    /\ m9 \in Jobs({"m9-hardware", "m9-hardware-blocked"}, DOMAIN calibrations) \cup
          [stage : {"sweeping"}, reachable : BOOLEAN, dry_run : BOOLEAN,
           machine : Machines \cup {Unknown}, measured : SUBSET Machines,
           count : 0 .. MaxSweep]
    /\ m10 \in Jobs({"m10-hardware", "m10-hardware-blocked"}, DOMAIN validations)
    /\ calibrations \in Seq(Calibrated \cup
          [accepted : {FALSE}, labels : {EXPERIMENT, REMOTE, HARNESS}])
    /\ validations \in Seq(Validated \cup
          [accepted : {FALSE}, names : SUBSET Label])

\* A reader who finds a complete, verifying validation (run_m10_hardware.py
\* 256-273, 907-1215) can follow it back: the calibration whose manifest it
\* names was accepted, came from committed code, and is of the very endpoint
\* and machine the validation reports.  Torn sets, runs that die while they
\* publish and calibrations replaced behind a validation do not change that.
ClaimIsBacked ==
    Holds("m10-hardware", DOMAIN disk["m10-hardware"])
        /\ ManifestVerifies("m10-hardware") =>
    LET claim == validations[disk["m10-hardware"][GATE]]
    IN /\ claim.accepted /\ claim.manifest \in DOMAIN calibrations
       /\ LET source == calibrations[claim.manifest]
          IN /\ source.accepted /\ ~source.dirty
             /\ source.endpoint = claim.endpoint
             /\ source.machine = claim.machine

\* No file on disk names a hardware label unless its run was accepted and the
\* file is in the directory of accepted runs (run_m9_hardware.py 153-168,
\* run_m10_hardware.py 235-253).
NoStrongerClaim ==
    \A d \in Dirs : \A f \in DOMAIN disk[d] : disk[d][f] # NoRun =>
        LET calibrating == d \in {"m9-hardware", "m9-hardware-blocked"}
            run   == IF calibrating THEN calibrations[disk[d][f]]
                     ELSE validations[disk[d][f]]
            names == IF calibrating
                     THEN {run.labels[1], run.labels[2], run.labels[3]}
                     ELSE run.names
        IN names \cap HardwareLabels # {} =>
              run.accepted /\ d \in {"m9-hardware", "m10-hardware"}

\* A hardware claim, in a file or in a whole set, is one that a run earned.
ClaimsAreEarned == TypeOK /\ ClaimIsBacked /\ NoStrongerClaim
=============================================================================
