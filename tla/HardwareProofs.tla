--------------------------- MODULE HardwareProofs ---------------------------
(* That a hardware claim is earned, for any machines, names, gates and      *)
(* bounds.  ClaimIsBacked speaks of a whole verifying set on disk; what     *)
(* holds step by step is stronger.  A run that was accepted publishes into  *)
(* the directory of accepted runs and no other run does (DiskInv, JobInv),  *)
(* and an accepted validation is backed from the moment it is judged, when  *)
(* it saw the calibration's set whole (HistoryInv).                         *)
EXTENDS HardwareValidation, SequenceTheorems, TLAPS

CalibrationDirs == {"m9-hardware", "m9-hardware-blocked"}
ValidationDirs  == {"m10-hardware", "m10-hardware-blocked"}
AcceptedDirs    == {"m9-hardware", "m10-hardware"}

FileSet(d) == {Files(d)[i] : i \in DOMAIN Files(d)}

Calibration == Calibrated \cup
    [accepted : {FALSE}, labels : {EXPERIMENT, REMOTE, HARNESS}]
Validation == Validated \cup [accepted : {FALSE}, names : SUBSET Label]

\* A run may stand in directory d: it is one of the script's, and accepted
\* just in case d is the directory of accepted runs.
Belongs(run, runs, d) ==
    run \in DOMAIN runs /\ (runs[run].accepted <=> d \in AcceptedDirs)

RunsOf(d) == IF d \in CalibrationDirs THEN calibrations ELSE validations

DiskInv ==
    /\ DOMAIN disk = Dirs
    /\ \A d \in Dirs :
          /\ DOMAIN disk[d] = FileSet(d)
          /\ \A f \in FileSet(d) :
                disk[d][f] # NoRun => Belongs(disk[d][f], RunsOf(d), d)

JobInv ==
    /\ m9.stage = "sweeping" => Len(calibrations) < MaxCalibrations
    /\ m9.stage = "publishing" => Belongs(m9.run, calibrations, m9.dir)
    /\ m10.stage = "publishing" => Belongs(m10.run, validations, m10.dir)

\* The calibration an accepted validation names is what it was measured on.
Backed(claim) ==
    /\ claim.manifest \in DOMAIN calibrations
    /\ LET source == calibrations[claim.manifest]
       IN /\ source.accepted /\ ~source.dirty
          /\ source.endpoint = claim.endpoint
          /\ source.machine = claim.machine

HistoryInv ==
    /\ Len(calibrations) <= MaxCalibrations
    /\ \A i \in DOMAIN validations :
          IF validations[i].accepted THEN Backed(validations[i])
          ELSE validations[i].names \cap HardwareLabels = {}

HardwareInv == TypeOK /\ DiskInv /\ JobInv /\ HistoryInv
-----------------------------------------------------------------------------
\* Every directory has a gate and a manifest, and its files are in order.
LEMMA FilesInOrder ==
    ASSUME NEW d \in Dirs
    PROVE  /\ Len(Files(d)) \in Nat \ {0}
           /\ DOMAIN Files(d) = 1 .. Len(Files(d))
           /\ GATE \in FileSet(d) /\ MANIFEST \in FileSet(d)
<1>1. CASE d = "m9-hardware"
  <2>1. Files(d) = <<GATE, "observations.csv", "params.json", "results.csv", MANIFEST>>
    BY <1>1 DEF Files
  <2>2. Files(d)[1] = GATE /\ Files(d)[5] = MANIFEST /\ DOMAIN Files(d) = 1 .. 5 /\ Len(Files(d)) = 5
    BY <2>1
  <2> QED  BY <2>2 DEF FileSet
<1>2. CASE d = "m9-hardware-blocked"
  <2>1. Files(d) = <<GATE, MANIFEST>>
    BY <1>2 DEF Files
  <2>2. Files(d)[1] = GATE /\ Files(d)[2] = MANIFEST /\ DOMAIN Files(d) = 1 .. 2 /\ Len(Files(d)) = 2
    BY <2>1
  <2> QED  BY <2>2 DEF FileSet
<1>3. CASE d = "m10-hardware"
  <2>1. Files(d) = <<GATE, "replay.json", MANIFEST>>
    BY <1>3 DEF Files
  <2>2. Files(d)[1] = GATE /\ Files(d)[3] = MANIFEST /\ DOMAIN Files(d) = 1 .. 3 /\ Len(Files(d)) = 3
    BY <2>1
  <2> QED  BY <2>2 DEF FileSet
<1>4. CASE d = "m10-hardware-blocked"
  <2>1. Files(d) = <<GATE, "fault_injection.csv", MANIFEST>>
    BY <1>4 DEF Files
  <2>2. Files(d)[1] = GATE /\ Files(d)[3] = MANIFEST /\ DOMAIN Files(d) = 1 .. 3 /\ Len(Files(d)) = 3
    BY <2>1
  <2> QED  BY <2>2 DEF FileSet
<1> QED  BY <1>1, <1>2, <1>3, <1>4 DEF Dirs

\* Only the directory of accepted calibrations holds every file that a
\* calibration needs to be loaded.
LEMMA OnlyOneDirLoads ==
    /\ Required = FileSet("m9-hardware")
    /\ ~ Required \subseteq FileSet("m9-hardware-blocked")
    /\ "params.json" \in Required /\ GATE \in Required /\ MANIFEST \in Required
<1>1. Files("m9-hardware") = <<GATE, "observations.csv", "params.json", "results.csv", MANIFEST>>
      /\ Files("m9-hardware-blocked") = <<GATE, MANIFEST>>
  BY DEF Files
<1>2. Files("m9-hardware")[3] = "params.json" /\ 3 \in DOMAIN Files("m9-hardware")
  BY <1>1
<1>3. "params.json" \in Required
  BY <1>2 DEF Required
<1>4. "params.json" \notin FileSet("m9-hardware-blocked")
  BY <1>1 DEF FileSet, GATE, MANIFEST
<1>5. Required = FileSet("m9-hardware")
  BY DEF Required, FileSet
<1> QED  BY <1>3, <1>4, <1>5, FilesInOrder DEF Dirs
-----------------------------------------------------------------------------
\* Labels are three strings of Label.
LEMMA LabelsAreNamed ==
    ASSUME NEW labels \in {HARDWARE, EXPERIMENT, REMOTE, HARNESS, REPLAY}
    PROVE  labels[1] \in Label /\ labels[2] \in Label /\ labels[3] \in Label
<1>1. HARDWARE[1] \in Label /\ HARDWARE[2] \in Label /\ HARDWARE[3] \in Label
  BY DEF HARDWARE, Label
<1>2. EXPERIMENT[1] \in Label /\ EXPERIMENT[2] \in Label /\ EXPERIMENT[3] \in Label
  BY DEF EXPERIMENT, Label
<1>3. REMOTE[1] \in Label /\ REMOTE[2] \in Label /\ REMOTE[3] \in Label
  BY DEF REMOTE, Label
<1>4. HARNESS[1] \in Label /\ HARNESS[2] \in Label /\ HARNESS[3] \in Label
  BY DEF HARNESS, Label
<1>5. REPLAY[1] \in Label /\ REPLAY[2] \in Label /\ REPLAY[3] \in Label
  BY DEF REPLAY, Label
<1> QED  BY <1>1, <1>2, <1>3, <1>4, <1>5

\* No rejected calibration is labelled as one of the hardware.
LEMMA RejectedLabels ==
    ASSUME NEW blockers, NEW evidence, blockers # {}
    PROVE  CalibrationLabels(blockers, evidence) \in {EXPERIMENT, REMOTE, HARNESS}
BY DEF CalibrationLabels

LEMMA ReplayLabelled ==
    ASSUME NEW blockers
    PROVE  ReplayLabels(blockers) \in {HARDWARE, EXPERIMENT, REPLAY}
BY DEF ReplayLabels

\* An accepted calibration identified its machine.
LEMMA AcceptedIsIdentified ==
    ASSUME NEW policy, NEW context, NEW evidence,
           HardwareBlockers(policy, context, evidence) = {}
    PROVE  context.machine # Unknown
<1>1. Charge("INCOMPLETE_PROVENANCE", context.machine = Unknown)
         \subseteq HardwareBlockers(policy, context, evidence)
  BY DEF HardwareBlockers
<1> QED  BY <1>1 DEF Charge

\* An accepted validation read an accepted calibration, ranked the arms of a
\* document, and could name one machine for both.
LEMMA AcceptedIsProvenanced ==
    ASSUME NEW policy, NEW evidence, ReplayBlockers(policy, evidence) = {}
    PROVE  evidence.calibration_accepted /\ evidence.provenance_complete /\ evidence.ranked
<1>1. /\ Charge("CALIBRATION_NOT_ACCEPTED",
               \/ ~evidence.calibration_accepted
               \/ evidence.calibration_status # "HW_CALIBRATED")
           \subseteq ReplayBlockers(policy, evidence)
      /\ Charge("INCOMPLETE_PROVENANCE", ~evidence.provenance_complete)
           \subseteq ReplayBlockers(policy, evidence)
      /\ Charge("STATISTIC_NOT_FROZEN", ~evidence.ranked)
           \subseteq ReplayBlockers(policy, evidence)
  BY DEF ReplayBlockers
<1> QED  BY <1>1 DEF Charge
-----------------------------------------------------------------------------
\* A hardware label is not among those of a rejected calibration.
LEMMA RejectedAreModest ==
    ASSUME NEW labels \in {EXPERIMENT, REMOTE, HARNESS}
    PROVE  {labels[1], labels[2], labels[3]} \cap HardwareLabels = {}
<1>1. {EXPERIMENT[1], EXPERIMENT[2], EXPERIMENT[3]} \cap HardwareLabels = {}
  BY DEF EXPERIMENT, HardwareLabels
<1>2. {REMOTE[1], REMOTE[2], REMOTE[3]} \cap HardwareLabels = {}
  BY DEF REMOTE, HardwareLabels
<1>3. {HARNESS[1], HARNESS[2], HARNESS[3]} \cap HardwareLabels = {}
  BY DEF HARNESS, HardwareLabels
<1> QED  BY <1>1, <1>2, <1>3

\* The invariant says what the run checks.
LEMMA InvSuffices == HardwareInv => ClaimsAreEarned
<1> SUFFICES ASSUME HardwareInv PROVE ClaimsAreEarned
  OBVIOUS
<1>1. ClaimIsBacked
  <2> SUFFICES ASSUME Holds("m10-hardware", DOMAIN disk["m10-hardware"])
               PROVE  LET claim == validations[disk["m10-hardware"][GATE]]
                      IN claim.accepted /\ Backed(claim)
    BY DEF ClaimIsBacked, Backed
  <2>1. "m10-hardware" \in Dirs /\ GATE \in FileSet("m10-hardware")
    BY FilesInOrder DEF Dirs
  <2>2. disk["m10-hardware"][GATE] # NoRun
    BY <2>1 DEF Holds, HardwareInv, DiskInv
  <2>3. Belongs(disk["m10-hardware"][GATE], validations, "m10-hardware")
    BY <2>1, <2>2 DEF HardwareInv, DiskInv, RunsOf, CalibrationDirs
  <2> QED
    BY <2>3 DEF Belongs, AcceptedDirs, HardwareInv, HistoryInv
<1>2. NoStrongerClaim
  <2> SUFFICES ASSUME NEW d \in Dirs, NEW f \in FileSet(d), disk[d][f] # NoRun
               PROVE  LET calibrating == d \in CalibrationDirs
                          run   == IF calibrating THEN calibrations[disk[d][f]]
                                   ELSE validations[disk[d][f]]
                          names == IF calibrating
                                   THEN {run.labels[1], run.labels[2], run.labels[3]}
                                   ELSE run.names
                      IN names \cap HardwareLabels # {} =>
                            run.accepted /\ d \in AcceptedDirs
    BY DEF NoStrongerClaim, CalibrationDirs, AcceptedDirs, HardwareInv, DiskInv
  <2>1. Belongs(disk[d][f], RunsOf(d), d)
    BY DEF HardwareInv, DiskInv
  <2>2. CASE d \in CalibrationDirs
    <3> DEFINE run == calibrations[disk[d][f]]
    <3>1. disk[d][f] \in DOMAIN calibrations /\ (run.accepted <=> d \in AcceptedDirs)
      BY <2>1, <2>2 DEF Belongs, RunsOf
    <3>2. run \in Calibration
      <4>1. calibrations \in Seq(Calibration)
        BY DEF HardwareInv, TypeOK, Calibration
      <4> QED  BY <4>1, <3>1
    <3>3. run.accepted \/ run.labels \in {EXPERIMENT, REMOTE, HARNESS}
      BY <3>2 DEF Calibration, Calibrated
    <3> QED  BY <2>2, <3>1, <3>3, RejectedAreModest
  <2>3. CASE d \notin CalibrationDirs
    BY <2>1, <2>3 DEF Belongs, RunsOf, HardwareInv, HistoryInv
  <2> QED  BY <2>2, <2>3
<1> QED  BY <1>1, <1>2 DEF ClaimsAreEarned, HardwareInv
-----------------------------------------------------------------------------
\* What a directory that can be loaded says of a calibration: the report and
\* the parameters are of one accepted run, which the manifest names.
LEMMA LoadedIsAccepted ==
    ASSUME HardwareInv, NEW d \in {None, "m9-hardware", "m9-hardware-blocked"}
    PROVE  LET artifact == LoadCalibration(d)
           IN /\ artifact.status \in Label
              /\ artifact.accepted =>
                   /\ artifact # NoArtifact
                   /\ artifact.manifest \in DOMAIN calibrations
                   /\ LET source == calibrations[artifact.manifest]
                      IN /\ source \in Calibrated /\ ~source.dirty
                         /\ source.endpoint = artifact.endpoint
                         /\ source.machine = artifact.machine
<1>1. CASE d = None \/ ~Loadable(d)
  BY <1>1 DEF LoadCalibration, NoArtifact, Label
<1>2. CASE ~(d = None \/ ~Loadable(d))
  <2>1. d \in Dirs /\ d \in CalibrationDirs /\ DOMAIN disk[d] = FileSet(d)
    BY <1>2 DEF Dirs, CalibrationDirs, HardwareInv, DiskInv
  <2>2. Required \subseteq FileSet(d)
    BY <1>2, <2>1 DEF Loadable, Holds
  <2>3. d = "m9-hardware"
    BY <1>2, <2>2, OnlyOneDirLoads
  <2> DEFINE run == disk[d][MANIFEST]
  <2>4. run # NoRun /\ disk[d][GATE] = run /\ disk[d]["params.json"] = run
    BY <1>2, <2>1, <2>2, OnlyOneDirLoads DEF Loadable, Holds, ManifestVerifies
  <2>5. run \in DOMAIN calibrations /\ calibrations[run].accepted
    BY <2>1, <2>2, <2>3, <2>4, OnlyOneDirLoads
    DEF HardwareInv, DiskInv, RunsOf, Belongs, AcceptedDirs
  <2>6. calibrations \in Seq(Calibration)
    BY DEF HardwareInv, TypeOK, Calibration
  <2>7. calibrations[run] \in Calibrated
    <3>1. calibrations[run] \in Calibration
      BY <2>5, <2>6
    <3> QED  BY <2>5, <3>1 DEF Calibration
  <2>8. ~calibrations[run].dirty
    BY <1>2, <2>4 DEF Loadable
  <2>9. LoadCalibration(d) =
          [accepted |-> calibrations[run].accepted, status |-> calibrations[run].labels[1],
           machine |-> calibrations[run].machine, endpoint |-> calibrations[run].endpoint,
           manifest |-> run, synthetic |-> FALSE, reachable |-> TRUE]
    BY <1>2, <2>4 DEF LoadCalibration
  <2>10. calibrations[run].labels = HARDWARE
    BY <2>7 DEF Calibrated
  <2>11. LoadCalibration(d).status \in Label
    BY <2>9, <2>10, LabelsAreNamed
  <2>12. LoadCalibration(d) # NoArtifact
    BY <2>5, <2>9 DEF NoArtifact
  <2> HIDE DEF run
  <2> QED  BY <2>5, <2>7, <2>8, <2>9, <2>11, <2>12
<1> QED  BY <1>1, <1>2

\* With a calibration, the one machine behind it and a document is the
\* calibration's.
LEMMA MachineOfTheCalibration ==
    ASSUME NEW artifact, artifact # NoArtifact, NEW observed,
           OneMachine(artifact, observed) # Unknown
    PROVE  /\ OneMachine(artifact, observed) = artifact.machine
           /\ artifact.machine \in Machines
<1> DEFINE candidates == {artifact.machine} \cup observed.machines
<1>1. OneMachine(artifact, observed) =
        IF \E m \in Machines : candidates = {m}
        THEN CHOOSE m \in Machines : candidates = {m} ELSE Unknown
  BY DEF OneMachine
<1>2. PICK m \in Machines : candidates = {m}
  BY <1>1
<1>3. m = artifact.machine
  BY <1>2
<1>4. (CHOOSE x \in Machines : candidates = {x}) = artifact.machine
  BY <1>2, <1>3
<1> QED  BY <1>1, <1>2, <1>3, <1>4

\* More calibrations, and what validations there are, keep every claim backed.
LEMMA ClaimsStayBacked ==
    ASSUME calibrations \in Seq(Calibration), NEW c \in Calibration,
           calibrations' = Append(calibrations, c), NEW claim, Backed(claim)
    PROVE  Backed(claim)'
<1>1. /\ claim.manifest \in DOMAIN calibrations'
      /\ calibrations'[claim.manifest] = calibrations[claim.manifest]
  BY DEF Backed
<1> QED  BY <1>1 DEF Backed

\* A run keeps its place when another is appended.
LEMMA RunsStay ==
    ASSUME NEW S, NEW runs \in Seq(S), NEW c \in S, NEW d, NEW run, Belongs(run, runs, d)
    PROVE  Belongs(run, Append(runs, c), d)
<1>1. run \in DOMAIN Append(runs, c) /\ Append(runs, c)[run] = runs[run]
  BY DEF Belongs
<1> QED  BY <1>1 DEF Belongs

\* The run just judged publishes where it belongs.
LEMMA NewestBelongs ==
    ASSUME NEW S, NEW runs \in Seq(S), NEW c \in S, NEW d,
           c.accepted <=> d \in AcceptedDirs
    PROVE  Belongs(Len(runs) + 1, Append(runs, c), d)
<1>1. Len(runs) + 1 \in DOMAIN Append(runs, c) /\ Append(runs, c)[Len(runs) + 1] = c
  OBVIOUS
<1> QED  BY <1>1 DEF Belongs
-----------------------------------------------------------------------------
\* A job that starts to publish, and what each replacement makes of it.
LEMMA PublishingIsAJob ==
    ASSUME NEW dirs, NEW runs, NEW d \in dirs, d \in Dirs, NEW run \in runs
    PROVE  Publishing(run, d) \in Jobs(dirs, runs)
<1>1. 1 \in DOMAIN Files(d)
  BY FilesInOrder
<1> QED  BY <1>1 DEF Publishing, Jobs

LEMMA JobInProgress ==
    ASSUME NEW dirs \in SUBSET Dirs, NEW runs, NEW job \in Jobs(dirs, runs),
           job.stage = "publishing"
    PROVE  /\ job.dir \in dirs /\ job.run \in runs /\ job.next \in DOMAIN Files(job.dir)
           /\ job = [stage |-> "publishing", run |-> job.run, dir |-> job.dir,
                     next |-> job.next]
BY DEF Jobs, Idle

LEMMA AfterReplaceIsAJob ==
    ASSUME NEW dirs \in SUBSET Dirs, NEW runs, NEW job \in Jobs(dirs, runs),
           job.stage = "publishing"
    PROVE  /\ AfterReplace(job) \in Jobs(dirs, runs)
           /\ AfterReplace(job).stage \in {"idle", "publishing"}
           /\ AfterReplace(job).stage = "publishing" =>
                 AfterReplace(job).run = job.run /\ AfterReplace(job).dir = job.dir
<1>1. /\ job.dir \in dirs /\ job.run \in runs /\ job.next \in DOMAIN Files(job.dir)
      /\ job = [stage |-> "publishing", run |-> job.run, dir |-> job.dir,
                next |-> job.next]
  BY JobInProgress
<1>2. CASE job.next = Len(Files(job.dir))
  BY <1>2 DEF AfterReplace, Jobs, Idle
<1>3. CASE job.next # Len(Files(job.dir))
  <2>1. AfterReplace(job) = [stage |-> "publishing", run |-> job.run, dir |-> job.dir,
                             next |-> job.next + 1]
    BY <1>1, <1>3 DEF AfterReplace
  <2>2. job.next + 1 \in DOMAIN Files(job.dir)
    BY <1>1, <1>3, FilesInOrder
  <2>3. AfterReplace(job) \in [stage : {"publishing"}, run : runs, dir : {job.dir},
                               next : DOMAIN Files(job.dir)]
    BY <1>1, <2>1, <2>2
  <2> QED  BY <1>1, <2>1, <2>3 DEF Jobs
<1> QED  BY <1>2, <1>3

LEMMA JobsGrow ==
    ASSUME NEW dirs, NEW runs, NEW more, runs \subseteq more
    PROVE  Jobs(dirs, runs) \subseteq Jobs(dirs, more)
BY DEF Jobs

\* A run that belongs in the directory it publishes to leaves the disk in order.
LEMMA ReplacedKeepsDisk ==
    ASSUME DiskInv, NEW job, job.dir \in Dirs, job.next \in DOMAIN Files(job.dir),
           Belongs(job.run, RunsOf(job.dir), job.dir),
           disk' = Replaced(job), UNCHANGED <<calibrations, validations>>
    PROVE  DiskInv'
<1> DEFINE file == Files(job.dir)[job.next]
<1>1. file \in FileSet(job.dir)
  BY DEF FileSet
<1>2. disk' = [disk EXCEPT ![job.dir] = [disk[job.dir] EXCEPT ![file] = job.run]]
  BY DEF Replaced
<1>3. DOMAIN disk' = Dirs
  BY <1>2 DEF DiskInv
<1>4. ASSUME NEW d \in Dirs, NEW f \in FileSet(d)
      PROVE  /\ DOMAIN disk'[d] = FileSet(d)
             /\ disk'[d][f] # NoRun => Belongs(disk'[d][f], RunsOf(d), d)
  <2> HIDE DEF file
  <2>1. CASE d = job.dir /\ f = file
    BY <1>2, <2>1 DEF DiskInv
  <2>2. CASE d = job.dir /\ f # file
    <3>1. disk'[d] = [disk[d] EXCEPT ![file] = job.run]
      BY <1>2, <2>2 DEF DiskInv
    <3>2. DOMAIN disk'[d] = FileSet(d) /\ disk'[d][f] = disk[d][f]
      BY <3>1, <2>2 DEF DiskInv
    <3> QED  BY <3>2 DEF DiskInv
  <2>3. CASE d # job.dir
    <3>1. disk'[d] = disk[d]
      BY <1>2, <2>3 DEF DiskInv
    <3> QED  BY <3>1 DEF DiskInv
  <2> QED  BY <2>1, <2>2, <2>3
<1>5. ASSUME NEW d \in Dirs PROVE DOMAIN disk'[d] = FileSet(d)
  <2>1. GATE \in FileSet(d)
    BY FilesInOrder
  <2> QED  BY <1>4, <2>1
<1>6. ASSUME NEW d \in Dirs PROVE RunsOf(d)' = RunsOf(d)
  BY DEF RunsOf
<1> QED  BY <1>3, <1>4, <1>5, <1>6 DEF DiskInv, Belongs

\* A step that touches neither history nor the disk keeps what is said of them.
LEMMA NothingJudged ==
    ASSUME HardwareInv, UNCHANGED <<calibrations, validations, disk>>
    PROVE  DiskInv' /\ HistoryInv'
<1>1. DiskInv'
  BY DEF HardwareInv, DiskInv, RunsOf, Belongs
<1>2. HistoryInv'
  BY DEF HardwareInv, HistoryInv, Backed
<1> QED  BY <1>1, <1>2
-----------------------------------------------------------------------------
Sweeps == [stage : {"sweeping"}, reachable : BOOLEAN, dry_run : BOOLEAN,
           machine : Machines \cup {Unknown}, measured : SUBSET Machines,
           count : 0 .. MaxSweep]

\* The job of each script, of any history.
Jobs9(runs)  == Jobs(CalibrationDirs, DOMAIN runs)
Jobs10(runs) == Jobs(ValidationDirs, DOMAIN runs)

LEMMA TypesOfJobs ==
    TypeOK <=> /\ serving \in Machines
               /\ m9 \in Jobs9(calibrations) \cup Sweeps
               /\ m10 \in Jobs10(validations)
               /\ calibrations \in Seq(Calibration)
               /\ validations \in Seq(Validation)
BY DEF TypeOK, Jobs9, Jobs10, Sweeps, CalibrationDirs, ValidationDirs,
       Calibration, Validation

LEMMA TypesOfJobsNext ==
    TypeOK' <=> /\ serving' \in Machines
                /\ m9' \in Jobs9(calibrations') \cup Sweeps
                /\ m10' \in Jobs10(validations')
                /\ calibrations' \in Seq(Calibration)
                /\ validations' \in Seq(Validation)
BY DEF TypeOK, Jobs9, Jobs10, Sweeps, CalibrationDirs, ValidationDirs,
       Calibration, Validation

LEMMA HardwareStarts == Init => HardwareInv
<1> SUFFICES ASSUME Init PROVE HardwareInv
  OBVIOUS
<1>1. TypeOK
  <2>1. Idle \in Jobs9(calibrations) /\ Idle \in Jobs10(validations)
    BY DEF Jobs9, Jobs10, Jobs
  <2> QED  BY <2>1, TypesOfJobs DEF Init
<1>2. DiskInv
  BY DEF Init, DiskInv, FileSet
<1>3. JobInv
  BY DEF Init, JobInv, Idle
<1>4. HistoryInv
  BY HardwareAssumption DEF Init, HistoryInv
<1> QED  BY <1>1, <1>2, <1>3, <1>4 DEF HardwareInv

\* The steps that judge and publish nothing.
LEMMA QuietSteps ==
    ASSUME HardwareInv,
           \/ Restart
           \/ \E reachable, dry_run \in BOOLEAN, m \in Machines \cup {Unknown} :
                 Calibrate(reachable, m, dry_run)
           \/ Measure \/ CalibrationDies \/ ValidationDies \/ UNCHANGED vars
    PROVE  HardwareInv'
<1>1. UNCHANGED <<calibrations, validations, disk>>
  BY DEF Restart, Calibrate, Measure, CalibrationDies, ValidationDies, vars
<1>2. DiskInv' /\ HistoryInv'
  BY <1>1, NothingJudged
<1>3. /\ serving \in Machines /\ m9 \in Jobs9(calibrations) \cup Sweeps
      /\ m10 \in Jobs10(validations)
      /\ calibrations \in Seq(Calibration) /\ validations \in Seq(Validation)
  BY TypesOfJobs DEF HardwareInv
<1>4. serving' \in Machines
  BY <1>3 DEF Restart, Calibrate, Measure, CalibrationDies, ValidationDies, vars
<1>5. m9' \in Jobs9(calibrations) \cup Sweeps /\ m10' \in Jobs10(validations)
  <2>1. Idle \in Jobs9(calibrations) /\ Idle \in Jobs10(validations)
    BY DEF Jobs9, Jobs10, Jobs
  <2>2. CASE Restart \/ UNCHANGED vars
    BY <1>3, <2>2 DEF Restart, vars
  <2>3. ASSUME NEW reachable \in BOOLEAN, NEW dry_run \in BOOLEAN,
               NEW m \in Machines \cup {Unknown}, Calibrate(reachable, m, dry_run)
        PROVE  m9' \in Sweeps /\ m10' = m10
    BY <2>3, HardwareAssumption DEF Calibrate, Sweeps
  <2>4. CASE Measure
    <3>1. m9 \in Sweeps
      BY <1>3, <2>4 DEF Measure, Jobs9, Jobs, Idle
    <3>2. m9' \in Sweeps
      <4>1. m9.measured \cup {serving} \in SUBSET Machines /\ m9.count + 1 \in 0 .. MaxSweep
        BY <1>3, <2>4, <3>1, HardwareAssumption DEF Measure, Sweeps
      <4>2. m9' = [m9 EXCEPT !.measured = m9.measured \cup {serving},
                             !.count = m9.count + 1]
        BY <2>4 DEF Measure
      <4> QED  BY <3>1, <4>1, <4>2 DEF Sweeps
    <3> QED  BY <1>3, <2>4, <3>2 DEF Measure
  <2>5. CASE CalibrationDies \/ ValidationDies
    BY <1>3, <2>1, <2>5 DEF CalibrationDies, ValidationDies
  <2> QED  BY <1>3, <2>2, <2>3, <2>4, <2>5
<1>6. TypeOK'
  <2>1. /\ serving' \in Machines /\ m9' \in Jobs9(calibrations') \cup Sweeps
        /\ m10' \in Jobs10(validations')
        /\ calibrations' \in Seq(Calibration) /\ validations' \in Seq(Validation)
    BY <1>1, <1>3, <1>4, <1>5
  <2> QED  BY <2>1, TypesOfJobsNext
<1>7. JobInv'
  <2>1. \/ m9' = m9
        \/ m9'.stage = "idle"
        \/ m9'.stage = "sweeping" /\ Len(calibrations) < MaxCalibrations
    <3>1. CASE Measure
      <4>1. m9 \in Sweeps
        BY <1>3, <3>1 DEF Measure, Jobs9, Jobs, Idle
      <4> QED  BY <3>1, <4>1 DEF Measure, Sweeps, HardwareInv, JobInv
    <3>2. CASE ~Measure
      BY <3>2 DEF Restart, Calibrate, CalibrationDies, ValidationDies, vars, Idle
    <3> QED  BY <3>1, <3>2
  <2>2. m10' = m10 \/ m10'.stage = "idle"
    BY DEF Restart, Calibrate, Measure, CalibrationDies, ValidationDies, vars, Idle
  <2> QED  BY <1>1, <2>1, <2>2 DEF HardwareInv, JobInv, Belongs
<1> QED  BY <1>2, <1>6, <1>7 DEF HardwareInv
\* A verdict on a calibration is appended to the history, and the directory it
\* is on its way to is the one for such verdicts.
LEMMA JudgeKeepsInv ==
    ASSUME HardwareInv, NEW policy \in Policies, NEW endpoint \in EndpointIds,
           NEW dirty \in BOOLEAN, NEW trusted \in BOOLEAN, NEW contract \in BOOLEAN,
           NEW fit \in {None, "poor", "good"},
           Judge(policy, endpoint, dirty, trusted, contract, fit)
    PROVE  HardwareInv'
<1>1. /\ serving \in Machines /\ m9 \in Sweeps /\ m10 \in Jobs10(validations)
      /\ calibrations \in Seq(Calibration) /\ validations \in Seq(Validation)
      /\ Len(calibrations) < MaxCalibrations
  BY TypesOfJobs DEF HardwareInv, JobInv, Judge, Jobs9, Jobs, Idle
<1>2. PICK c, d :
         /\ c \in Calibration /\ d \in CalibrationDirs
         /\ c.accepted <=> d \in AcceptedDirs
         /\ calibrations' = Append(calibrations, c)
         /\ m9' = Publishing(Len(calibrations) + 1, d)
  <2>1. PICK evidence, context :
           LET blockers == HardwareBlockers(policy, context, evidence)
               accepted == blockers = {}
               labels   == CalibrationLabels(blockers, evidence)
           IN /\ context.machine = m9.machine
              /\ calibrations' = Append(calibrations,
                    IF accepted
                    THEN [accepted |-> TRUE, labels |-> labels, endpoint |-> endpoint,
                          machine |-> m9.machine, measured |-> m9.measured,
                          dirty |-> dirty]
                    ELSE [accepted |-> FALSE, labels |-> labels])
              /\ m9' = Publishing(Len(calibrations) + 1,
                                  IF accepted THEN "m9-hardware"
                                  ELSE "m9-hardware-blocked")
    BY ZenonT(40) DEF Judge
  <2> DEFINE blockers == HardwareBlockers(policy, context, evidence)
             labels   == CalibrationLabels(blockers, evidence)
  <2>2. CASE blockers = {}
    <3>1. labels = HARDWARE
      BY <2>2 DEF CalibrationLabels
    <3>2. m9.machine \in Machines
      BY <1>1, <2>1, <2>2, AcceptedIsIdentified DEF Sweeps
    <3>3. [accepted |-> TRUE, labels |-> labels, endpoint |-> endpoint,
           machine |-> m9.machine, measured |-> m9.measured, dirty |-> dirty]
             \in Calibration
      BY <1>1, <3>1, <3>2 DEF Calibration, Calibrated, Sweeps
    <3>4. WITNESS [accepted |-> TRUE, labels |-> labels, endpoint |-> endpoint,
                   machine |-> m9.machine, measured |-> m9.measured, dirty |-> dirty],
                  "m9-hardware"
    <3> QED  BY <2>1, <2>2, <3>3 DEF CalibrationDirs, AcceptedDirs
  <2>3. CASE blockers # {}
    <3>1. labels \in {EXPERIMENT, REMOTE, HARNESS}
      BY <2>3, RejectedLabels
    <3>2. [accepted |-> FALSE, labels |-> labels] \in Calibration
      BY <3>1 DEF Calibration
    <3>3. WITNESS [accepted |-> FALSE, labels |-> labels], "m9-hardware-blocked"
    <3> QED  BY <2>1, <2>3, <3>2 DEF CalibrationDirs, AcceptedDirs
  <2> QED  BY <2>2, <2>3
<1>3. serving' = serving /\ m10' = m10 /\ validations' = validations /\ disk' = disk
  BY DEF Judge
<1>4. /\ Len(calibrations') = Len(calibrations) + 1
      /\ calibrations' \in Seq(Calibration)
      /\ DOMAIN calibrations \subseteq DOMAIN calibrations'
      /\ Len(calibrations) + 1 \in DOMAIN calibrations'
  BY <1>1, <1>2
<1>5. TypeOK'
  <2>1. m9' \in Jobs9(calibrations')
    BY <1>2, <1>4, PublishingIsAJob DEF Jobs9, CalibrationDirs, Dirs
  <2> QED  BY <1>1, <1>3, <1>4, <2>1, TypesOfJobsNext
<1>6. DiskInv'
  <2>1. ASSUME NEW d0 \in Dirs, NEW run, Belongs(run, RunsOf(d0), d0)
        PROVE  Belongs(run, RunsOf(d0), d0)'
    <3>1. CASE d0 \in CalibrationDirs
      <4>1. Belongs(run, calibrations, d0)
        BY <2>1, <3>1 DEF RunsOf
      <4>2. Belongs(run, Append(calibrations, c), d0)
        BY <1>1, <1>2, <4>1, RunsStay
      <4> QED  BY <1>2, <3>1, <4>2 DEF RunsOf, Belongs
    <3>2. CASE d0 \notin CalibrationDirs
      BY <1>3, <2>1, <3>2 DEF RunsOf, Belongs
    <3> QED  BY <3>1, <3>2
  <2> QED  BY <1>3, <2>1 DEF HardwareInv, DiskInv
<1>7. JobInv'
  <2>1. Belongs(Len(calibrations) + 1, Append(calibrations, c), d)
    BY <1>1, <1>2, NewestBelongs
  <2>2. m9' = [stage |-> "publishing", run |-> Len(calibrations) + 1, dir |-> d, next |-> 1]
    BY <1>2 DEF Publishing
  <2> QED  BY <1>2, <1>3, <2>1, <2>2 DEF HardwareInv, JobInv, Belongs
<1>8. HistoryInv'
  <2>1. ASSUME NEW claim, Backed(claim) PROVE Backed(claim)'
    BY <1>1, <1>2, <2>1, ClaimsStayBacked
  <2>2. Len(calibrations') <= MaxCalibrations
    BY <1>1, <1>4, HardwareAssumption
  <2> QED  BY <1>3, <2>1, <2>2 DEF HardwareInv, HistoryInv, Backed
<1> QED  BY <1>5, <1>6, <1>7, <1>8 DEF HardwareInv

\* One os.replace, of either script.
LEMMA ReplaceKeepsInv ==
    ASSUME HardwareInv, ReplaceCalibration \/ ReplaceValidation
    PROVE  HardwareInv'
<1>1. /\ serving \in Machines /\ m9 \in Jobs9(calibrations) \cup Sweeps
      /\ m10 \in Jobs10(validations)
      /\ calibrations \in Seq(Calibration) /\ validations \in Seq(Validation)
  BY TypesOfJobs DEF HardwareInv
<1>2. UNCHANGED <<serving, calibrations, validations>>
  BY DEF ReplaceCalibration, ReplaceValidation
<1>3. HistoryInv'
  BY <1>2 DEF HardwareInv, HistoryInv, Backed
<1>4. CASE ReplaceCalibration
  <2>1. m9 \in Jobs(CalibrationDirs, DOMAIN calibrations) /\ m9.stage = "publishing"
    BY <1>1, <1>4 DEF ReplaceCalibration, Jobs9, Sweeps
  <2>2. CalibrationDirs \in SUBSET Dirs
    BY DEF CalibrationDirs, Dirs
  <2>3. /\ m9.dir \in CalibrationDirs /\ m9.next \in DOMAIN Files(m9.dir)
        /\ Belongs(m9.run, calibrations, m9.dir)
    BY <2>1, <2>2, JobInProgress DEF HardwareInv, JobInv
  <2>4. PICK job : job = m9
    OBVIOUS
  <2>5. DiskInv'
    <3>1. Belongs(job.run, RunsOf(job.dir), job.dir) /\ job.dir \in Dirs
      BY <2>2, <2>3, <2>4 DEF RunsOf
    <3>2. disk' = Replaced(job)
      BY <1>4, <2>4 DEF ReplaceCalibration
    <3> QED  BY <1>2, <2>3, <2>4, <3>1, <3>2, ReplacedKeepsDisk DEF HardwareInv
  <2>6. /\ m9' \in Jobs(CalibrationDirs, DOMAIN calibrations)
        /\ m9'.stage \in {"idle", "publishing"}
        /\ m9'.stage = "publishing" => m9'.run = m9.run /\ m9'.dir = m9.dir
        /\ m10' = m10
    <3>1. m9' = AfterReplace(job) /\ m10' = m10
      BY <1>4, <2>4 DEF ReplaceCalibration
    <3>2. /\ AfterReplace(job) \in Jobs(CalibrationDirs, DOMAIN calibrations)
          /\ AfterReplace(job).stage \in {"idle", "publishing"}
          /\ AfterReplace(job).stage = "publishing" =>
                AfterReplace(job).run = job.run /\ AfterReplace(job).dir = job.dir
      BY <2>1, <2>2, <2>4, AfterReplaceIsAJob
    <3> QED  BY <2>4, <3>1, <3>2
  <2>7. TypeOK'
    BY <1>1, <1>2, <2>6, TypesOfJobsNext DEF Jobs9
  <2>8. JobInv'
    BY <1>2, <2>1, <2>6 DEF HardwareInv, JobInv, Belongs
  <2> QED  BY <1>3, <2>5, <2>7, <2>8 DEF HardwareInv
<1>5. CASE ReplaceValidation
  <2>1. m10 \in Jobs(ValidationDirs, DOMAIN validations) /\ m10.stage = "publishing"
    BY <1>1, <1>5 DEF ReplaceValidation, Jobs10
  <2>2. ValidationDirs \in SUBSET Dirs
    BY DEF ValidationDirs, Dirs
  <2>3. /\ m10.dir \in ValidationDirs /\ m10.next \in DOMAIN Files(m10.dir)
        /\ Belongs(m10.run, validations, m10.dir)
    BY <2>1, <2>2, JobInProgress DEF HardwareInv, JobInv
  <2>4. PICK job : job = m10
    OBVIOUS
  <2>5. DiskInv'
    <3>1. Belongs(job.run, RunsOf(job.dir), job.dir) /\ job.dir \in Dirs
      BY <2>2, <2>3, <2>4 DEF RunsOf, CalibrationDirs, ValidationDirs
    <3>2. disk' = Replaced(job)
      BY <1>5, <2>4 DEF ReplaceValidation
    <3> QED  BY <1>2, <2>3, <2>4, <3>1, <3>2, ReplacedKeepsDisk DEF HardwareInv
  <2>6. /\ m10' \in Jobs(ValidationDirs, DOMAIN validations)
        /\ m10'.stage = "publishing" => m10'.run = m10.run /\ m10'.dir = m10.dir
        /\ m9' = m9
    <3>1. m10' = AfterReplace(job) /\ m9' = m9
      BY <1>5, <2>4 DEF ReplaceValidation
    <3>2. /\ AfterReplace(job) \in Jobs(ValidationDirs, DOMAIN validations)
          /\ AfterReplace(job).stage = "publishing" =>
                AfterReplace(job).run = job.run /\ AfterReplace(job).dir = job.dir
      BY <2>1, <2>2, <2>4, AfterReplaceIsAJob
    <3> QED  BY <2>4, <3>1, <3>2
  <2>7. TypeOK'
    BY <1>1, <1>2, <2>6, TypesOfJobsNext DEF Jobs10
  <2>8. JobInv'
    BY <1>2, <2>1, <2>6 DEF HardwareInv, JobInv, Belongs
  <2> QED  BY <1>3, <2>5, <2>7, <2>8 DEF HardwareInv
<1> QED  BY <1>4, <1>5
\* A validation that is accepted read a whole, accepted calibration, and its
\* document was measured on that very one.
LEMMA AcceptedIsBacked ==
    ASSUME HardwareInv, NEW d \in {None, "m9-hardware", "m9-hardware-blocked"},
           NEW observed \in Documents \cup {NoDocument}, NEW policy, NEW dry_run,
           NEW artifact, artifact = LoadCalibration(d),
           ReplayBlockers(policy, Evidence(artifact, observed, dry_run)) = {},
           NEW claim, claim.manifest = observed.manifest,
           claim.endpoint = observed.endpoint,
           claim.machine = OneMachine(artifact, observed)
    PROVE  Backed(claim) /\ claim.endpoint \in EndpointIds /\ claim.machine \in Machines
<1> DEFINE evidence == Evidence(artifact, observed, dry_run)
           given == observed # NoDocument
           bound == artifact # NoArtifact /\ given => Bound(artifact, observed)
<1>1. evidence.calibration_accepted /\ evidence.provenance_complete /\ evidence.ranked
  BY AcceptedIsProvenanced
<1>2. artifact.accepted /\ bound /\ given /\ OneMachine(artifact, observed) # Unknown
  BY <1>1 DEF Evidence
<1>3. /\ artifact # NoArtifact /\ artifact.manifest \in DOMAIN calibrations
      /\ LET source == calibrations[artifact.manifest]
         IN /\ source \in Calibrated /\ ~source.dirty
            /\ source.endpoint = artifact.endpoint
            /\ source.machine = artifact.machine
  BY <1>2, LoadedIsAccepted
<1>4. Bound(artifact, observed) /\ observed \in Documents
  BY <1>2, <1>3
<1>5. observed.endpoint = artifact.endpoint /\ observed.manifest = artifact.manifest
  BY <1>4 DEF Bound
<1>6. claim.machine = artifact.machine /\ artifact.machine \in Machines
  BY <1>2, <1>3, MachineOfTheCalibration
<1>7. calibrations[artifact.manifest].accepted /\ observed.endpoint \in EndpointIds
  BY <1>3, <1>4 DEF Calibrated, Documents
<1> QED  BY <1>3, <1>5, <1>6, <1>7 DEF Backed

\* What a validation names is a set of labels.
LEMMA NamesAreLabels ==
    ASSUME HardwareInv, NEW d \in {None, "m9-hardware", "m9-hardware-blocked"},
           NEW observed, NEW dry_run, NEW blockers,
           NEW artifact, artifact = LoadCalibration(d)
    PROVE  Names(ReplayLabels(blockers), Evidence(artifact, observed, dry_run)) \subseteq Label
<1>1. artifact.status \in Label
  BY LoadedIsAccepted
<1>2. Evidence(artifact, observed, dry_run).calibration_status = artifact.status
  BY DEF Evidence
<1> QED  BY <1>1, <1>2, ReplayLabelled, LabelsAreNamed DEF Names

LEMMA ValidateKeepsInv ==
    ASSUME HardwareInv, NEW d \in {None, "m9-hardware", "m9-hardware-blocked"},
           NEW observed \in Documents \cup {NoDocument}, NEW policy \in Policies,
           NEW dry_run \in BOOLEAN, Validate(d, observed, policy, dry_run)
    PROVE  HardwareInv'
<1>1. /\ serving \in Machines /\ m9 \in Jobs9(calibrations) \cup Sweeps
      /\ m10 \in Jobs10(validations)
      /\ calibrations \in Seq(Calibration) /\ validations \in Seq(Validation)
  BY TypesOfJobs DEF HardwareInv
<1>2. serving' = serving /\ m9' = m9 /\ calibrations' = calibrations /\ disk' = disk
  BY DEF Validate
<1>3. CASE validations' = validations /\ m10' = m10
  <2>1. UNCHANGED vars
    BY <1>2, <1>3 DEF vars
  <2> QED  BY <2>1, QuietSteps
<1>4. CASE ~(validations' = validations /\ m10' = m10)
  <2>1. PICK v, to :
           /\ v \in Validation /\ to \in ValidationDirs
           /\ v.accepted <=> to \in AcceptedDirs
           /\ IF v.accepted THEN Backed(v) ELSE v.names \cap HardwareLabels = {}
           /\ validations' = Append(validations, v)
           /\ m10' = Publishing(Len(validations) + 1, to)
    <3>1. PICK artifact : artifact = LoadCalibration(d)
      OBVIOUS
    <3> DEFINE evidence == Evidence(artifact, observed, dry_run)
               blockers == ReplayBlockers(policy, evidence)
               accepted == blockers = {}
               names    == Names(ReplayLabels(blockers), evidence)
               claim    == [accepted |-> TRUE, names |-> names,
                            endpoint |-> observed.endpoint,
                            manifest |-> observed.manifest,
                            machine  |-> OneMachine(artifact, observed)]
    <3>2. /\ ScanPasses(accepted, names)
          /\ validations' = Append(validations,
                IF accepted THEN claim ELSE [accepted |-> FALSE, names |-> names])
          /\ m10' = Publishing(Len(validations) + 1,
                               IF accepted THEN "m10-hardware" ELSE "m10-hardware-blocked")
      BY <1>4, <3>1 DEF Validate
    <3>3. names \subseteq Label
      BY <3>1, NamesAreLabels
    <3>4. CASE accepted
      <4>1. Backed(claim) /\ claim.endpoint \in EndpointIds /\ claim.machine \in Machines
        <5>1. /\ claim.manifest = observed.manifest /\ claim.endpoint = observed.endpoint
              /\ claim.machine = OneMachine(artifact, observed)
          OBVIOUS
        <5> HIDE DEF claim
        <5> QED  BY <3>1, <3>4, <5>1, AcceptedIsBacked
      <4>2. claim.manifest \in 1 .. MaxCalibrations
        BY <1>1, <4>1, HardwareAssumption DEF Backed, HardwareInv, HistoryInv
      <4>3. claim \in Validation
        BY <3>3, <4>1, <4>2 DEF Validation, Validated
      <4>4. WITNESS claim, "m10-hardware"
      <4> QED  BY <3>2, <3>4, <4>1, <4>3 DEF ValidationDirs, AcceptedDirs
    <3>5. CASE ~accepted
      <4>1. [accepted |-> FALSE, names |-> names] \in Validation
        BY <3>3 DEF Validation
      <4>2. names \cap HardwareLabels = {}
        BY <3>2, <3>5 DEF ScanPasses
      <4>3. WITNESS [accepted |-> FALSE, names |-> names], "m10-hardware-blocked"
      <4> QED  BY <3>2, <3>5, <4>1, <4>2 DEF ValidationDirs, AcceptedDirs
    <3> QED  BY <3>4, <3>5
  <2>2. /\ validations' \in Seq(Validation)
        /\ DOMAIN validations \subseteq DOMAIN validations'
        /\ Len(validations) + 1 \in DOMAIN validations'
    BY <1>1, <2>1
  <2>3. TypeOK'
    <3>1. m10' \in Jobs10(validations')
      BY <2>1, <2>2, PublishingIsAJob DEF Jobs10, ValidationDirs, Dirs
    <3> QED  BY <1>1, <1>2, <2>2, <3>1, TypesOfJobsNext
  <2>4. DiskInv'
    <3>1. ASSUME NEW d0 \in Dirs, NEW run, Belongs(run, RunsOf(d0), d0)
          PROVE  Belongs(run, RunsOf(d0), d0)'
      <4>1. CASE d0 \notin CalibrationDirs
        <5>1. Belongs(run, validations, d0)
          BY <3>1, <4>1 DEF RunsOf
        <5>2. Belongs(run, Append(validations, v), d0)
          BY <1>1, <2>1, <5>1, RunsStay
        <5> QED  BY <2>1, <4>1, <5>2 DEF RunsOf, Belongs
      <4>2. CASE d0 \in CalibrationDirs
        BY <1>2, <3>1, <4>2 DEF RunsOf, Belongs
      <4> QED  BY <4>1, <4>2
    <3> QED  BY <1>2, <3>1 DEF HardwareInv, DiskInv
  <2>5. JobInv'
    <3>1. Belongs(Len(validations) + 1, Append(validations, v), to)
      BY <1>1, <2>1, NewestBelongs
    <3>2. m10' = [stage |-> "publishing", run |-> Len(validations) + 1, dir |-> to, next |-> 1]
      BY <2>1 DEF Publishing
    <3> QED  BY <1>2, <2>1, <3>1, <3>2 DEF HardwareInv, JobInv, Belongs
  <2>6. HistoryInv'
    <3>1. ASSUME NEW i \in DOMAIN validations'
          PROVE  IF validations'[i].accepted THEN Backed(validations'[i])
                 ELSE validations'[i].names \cap HardwareLabels = {}
      <4>1. CASE i \in DOMAIN validations
        <5>1. validations'[i] = validations[i]
          BY <1>1, <2>1, <4>1
        <5> QED  BY <4>1, <5>1 DEF HardwareInv, HistoryInv
      <4>2. CASE i \notin DOMAIN validations
        <5>1. validations'[i] = v
          BY <1>1, <2>1, <4>2
        <5> QED  BY <2>1, <5>1
      <4> QED  BY <4>1, <4>2
    <3> QED  BY <1>2, <3>1 DEF HardwareInv, HistoryInv, Backed
  <2> QED  BY <2>3, <2>4, <2>5, <2>6 DEF HardwareInv
<1> QED  BY <1>3, <1>4
-----------------------------------------------------------------------------
\* The inductive invariant holds for any machines, names, gates and bounds.
THEOREM HardwareInvariance == Spec => []HardwareInv
<1>1. ASSUME HardwareInv, [Next]_vars PROVE HardwareInv'
  <2>1. CASE \/ Restart
             \/ \E reachable, dry_run \in BOOLEAN, m \in Machines \cup {Unknown} :
                   Calibrate(reachable, m, dry_run)
             \/ Measure \/ CalibrationDies \/ ValidationDies \/ UNCHANGED vars
    BY <1>1, <2>1, QuietSteps
  <2>2. CASE \E p \in Policies, e \in EndpointIds, dirty, trusted, contract \in BOOLEAN,
                fit \in {None, "poor", "good"} :
                Judge(p, e, dirty, trusted, contract, fit)
    BY <1>1, <2>2, JudgeKeepsInv
  <2>3. CASE ReplaceCalibration \/ ReplaceValidation
    BY <1>1, <2>3, ReplaceKeepsInv
  <2>4. CASE \E d \in {None, "m9-hardware", "m9-hardware-blocked"},
                observed \in Documents \cup {NoDocument}, p \in Policies,
                dry_run \in BOOLEAN :
                Validate(d, observed, p, dry_run)
    BY <1>1, <2>4, ValidateKeepsInv
  <2> QED  BY <1>1, <2>1, <2>2, <2>3, <2>4 DEF Next
<1> QED  BY <1>1, HardwareStarts, PTL DEF Spec

\* Whatever dies, restarts or is replaced behind a validation
\* (run_m9_hardware.py, run_m10_hardware.py), a complete verifying validation
\* names an accepted calibration of its own endpoint and machine, and no file
\* of a rejected run names a hardware label.
THEOREM EveryClaimIsEarned == Spec => []ClaimsAreEarned
BY HardwareInvariance, InvSuffices, PTL
=============================================================================
