--------------------------- MODULE EvidenceProofs ---------------------------
(***************************************************************************)
(* The results directory and the watchdog of a grid script, for any number *)
(* of processes and any grid: a reader sees no half set, a committed set   *)
(* is not lost, a grid over its memory limit ends as an abort, and the     *)
(* verdicts and the exit code of a finished one are true.  The             *)
(* decision log, for any selections: what was acknowledged is kept, and    *)
(* the report made of it says what the records say.  And the replay, for   *)
(* any damages, scores and thresholds: the join finds what was damaged,    *)
(* and no verdict speaks against a cell.                                   *)
(***************************************************************************)
EXTENDS Evidence, SumTheorems, SequenceTheorems, TLAPS

\* What a process does to the directories.
PubStep ==
    \/ step = "compute" /\ (Stage(SuccessSet) \/ Stage(AbortSet))
    \/ /\ step = "compute" /\ step' = "raised"
       /\ UNCHANGED <<kind, run, live, backups, saved, undone, durable>>
    \/ Die \/ NewProcess \/ Publish

LEMMA NextIsPubStep == ASSUME [Next]_vars PROVE PubStep \/ UNCHANGED pubVars
<1>1. CASE RunCampaign
  BY <1>1 DEF RunCampaign, CampaignNext, PubStep, pubVars, campaignVars, Compute, PublishGrid,
     PublishCases, Defer, ComputeRaises, Raise, Killed, Publication, Crash, Restart, Stopped
<1>2. CASE RecordDecisions \/ JoinReplay \/ Judged \/ UNCHANGED vars
  BY <1>2 DEF RecordDecisions, JoinReplay, Judged, vars, campaignVars
<1>3. QED
  BY <1>1, <1>2 DEF Next, pubVars
-----------------------------------------------------------------------------
\* What the scripts know at each step: the live directory is out of the way
\* before the commit and the whole new set after it, and what was moved away is
\* in the backup of this process until it is put back or cleaned up.
StepKnows ==
    /\ step # "install"
    /\ step \in {"compute", "swap"} => ~saved
    /\ step \in {"reserved", "cleared"} => saved
    /\ step = "reserved" => /\ live # Absent /\ BackupName \in DOMAIN backups
                            /\ backups[BackupName] = EmptyDirectory
    /\ step = "cleared" => BackupName \notin DOMAIN backups
    /\ step \in {"swap", "reserved", "cleared", "moved"} => WholeOf(staging, run)
    /\ step = "moved" => live = Absent
    /\ step \in {"committed", "cleaning"} => WholeOf(live, run)
    /\ step = "rollback" => undone # {} \/ live = Absent \/ ~HasBackup
    /\ step = "cleaning" => durable = run /\ undone = {}
    /\ saved /\ step \in {"moved", "committed"} => BackupName \in DOMAIN backups
    /\ HasBackup /\ step \in {"moved", "committed", "rollback"} =>
          undone # {} \/ FullSet(backups[BackupName])

\* The live directory holds a set that was committed, and no step endangers it.
Settled == step # "committed" /\ (step = "rollback" => ~HasBackup)

\* Where the last committed set is: an uncommitted live directory does not count.
DurableIsKept ==
    durable > 0 /\ "placeholder" \notin undone =>
        \E r \in durable..run :
            \/ Settled /\ WholeOf(live, r)
            \/ \E b \in DOMAIN backups : WholeOf(backups[b], r)

PubInv ==
    /\ run \in 1..MaxRuns /\ durable \in 0..run /\ undone \subseteq Reasons
    /\ kind # "placement" => StepKnows /\ DurableIsKept /\ LiveIsWhole

LEMMA InitPubInv == ASSUME Init PROVE PubInv
BY MaxRunsAssumption DEF Init, CampaignInit, PubInit, PubInv, StepKnows, DurableIsKept,
   LiveIsWhole, HasBackup

\* An absent directory holds no set.
LEMMA AbsentIsNotWhole ==
    ASSUME NEW r \in 1..MaxRuns
    PROVE  ~WholeOf(Absent, r)
<1>1. ASSUME NEW set \in {SuccessSet, AbortSet} PROVE Absent # Stamped(set, r)
  <2>1. Stamped(set, r) \in [Names(set) -> 1..MaxRuns]
    BY DEF Stamped
  <2>2. Names(set) \in SUBSET (Names(SuccessSet) \cup Names(AbortSet))
    BY <1>1
  <2> QED  BY <2>1, <2>2, AbsentAssumption
<1> QED  BY <1>1 DEF WholeOf

\* Nor does an empty one.
LEMMA EmptyIsNotWhole ==
    ASSUME NEW r
    PROVE  ~WholeOf(EmptyDirectory, r)
<1>1. DOMAIN EmptyDirectory = {}
  BY DEF EmptyDirectory
<1>2. ASSUME NEW set \in {SuccessSet, AbortSet} PROVE DOMAIN Stamped(set, r) # {}
  BY DEF Stamped, Names, SuccessSet, AbortSet
<1> QED  BY <1>1, <1>2 DEF WholeOf

LEMMA SetsAreWhole ==
    ASSUME NEW r, NEW set \in {SuccessSet, AbortSet}
    PROVE  WholeOf(Stamped(set, r), r)
BY DEF WholeOf

\* Removing a name leaves the others.
LEMMA WithoutKeeps ==
    ASSUME NEW d, NEW n
    PROVE  /\ DOMAIN Without(d, n) = DOMAIN d \ {n}
           /\ \A m \in DOMAIN d \ {n} : Without(d, n)[m] = d[m]
BY DEF Without

\* A process ends, or begins: nothing on disk moves.
LEMMA EndKeepsPubInv ==
    ASSUME PubInv, UNCHANGED <<kind, live, backups, durable, undone>>,
           (run' = run) \/ (run < MaxRuns /\ run' = run + 1),
           (step' \in {"raised", "dead", "done"}) \/ (step' = "compute" /\ ~saved'),
           \/ Settled \/ durable = 0 \/ "placeholder" \in undone
           \/ \E r \in durable..run : \E b \in DOMAIN backups : WholeOf(backups[b], r)
    PROVE  PubInv'
<1>1. run' \in 1..MaxRuns /\ durable' \in 0..run' /\ run \in Nat /\ run <= run'
  BY MaxRunsAssumption DEF PubInv
<1>2. ASSUME kind # "placement" PROVE StepKnows'
  BY DEF StepKnows
<1>3. ASSUME kind # "placement" PROVE DurableIsKept'
  BY <1>1, <1>3 DEF PubInv, DurableIsKept, Settled
<1>4. ASSUME kind # "placement" PROVE LiveIsWhole'
  BY <1>1, <1>4 DEF PubInv, LiveIsWhole, FullSet
<1>5. QED
  BY <1>1, <1>2, <1>3, <1>4 DEF PubInv

\* The process stages a new set.
LEMMA StageKeepsPubInv ==
    ASSUME PubInv, step = "compute", NEW set \in {SuccessSet, AbortSet}, Stage(set)
    PROVE  PubInv'
<1>1. CASE kind = "placement"
  BY <1>1 DEF PubInv, Stage
<1>2. CASE kind # "placement"
  <2>1. /\ step' = "swap" /\ live' = live /\ staging' = Stamped(set, run)
        /\ UNCHANGED <<kind, run, backups, saved, undone, durable>>
        /\ step = "compute"
    BY <1>2 DEF Stage
  <2>2. StepKnows'
    <3>1. ~saved /\ WholeOf(Stamped(set, run), run)
      BY <1>2, SetsAreWhole DEF PubInv, StepKnows
    <3>2. QED
      BY <2>1, <3>1 DEF StepKnows
  <2>3. DurableIsKept' /\ LiveIsWhole'
    BY <1>2, <2>1 DEF PubInv, DurableIsKept, LiveIsWhole, FullSet, Settled
  <2>4. QED
    BY <2>1, <2>2, <2>3 DEF PubInv
<1>3. QED
  BY <1>1, <1>2

\* A name is made for the backup.
LEMMA ReserveKeepsPubInv ==
    ASSUME PubInv, Reserve \/ RemovePlaceholder \/ PlaceholderStays \/ RenameFails
    PROVE  PubInv'
<1>1. /\ UNCHANGED <<kind, run, live, staging, durable>>
      /\ BackupName' = BackupName
  BY DEF Reserve, RemovePlaceholder, PlaceholderStays, RenameFails, BackupName
<1>2. undone' = undone \/ undone' = undone \cup {"placeholder"}
  BY DEF Reserve, RemovePlaceholder, PlaceholderStays, RenameFails
<1>3. CASE Reserve
  <2>1. /\ step = "swap" /\ step' = "reserved" /\ live # Absent /\ saved' /\ undone' = undone
        /\ BackupName \notin DOMAIN backups
        /\ backups' = With(backups, BackupName, EmptyDirectory)
    BY <1>3 DEF Reserve
  <2>2. /\ DOMAIN backups' = DOMAIN backups \cup {BackupName}
        /\ backups'[BackupName] = EmptyDirectory
        /\ \A b \in DOMAIN backups : backups'[b] = backups[b]
    BY <2>1 DEF With
  <2>3. ASSUME kind # "placement" PROVE StepKnows'
    BY <1>1, <2>1, <2>2, <2>3 DEF PubInv, StepKnows
  <2>4. ASSUME kind # "placement" PROVE DurableIsKept' /\ LiveIsWhole'
    BY <1>1, <2>1, <2>2, <2>4 DEF PubInv, DurableIsKept, LiveIsWhole, FullSet, Settled
  <2> QED  BY <1>1, <2>1, <2>3, <2>4 DEF PubInv
<1>4. CASE RemovePlaceholder
  <2>1. /\ step = "reserved" /\ step' = "cleared" /\ UNCHANGED <<saved, undone>>
        /\ backups' = Without(backups, BackupName)
    BY <1>4 DEF RemovePlaceholder
  <2>2. /\ DOMAIN backups' = DOMAIN backups \ {BackupName}
        /\ \A b \in DOMAIN backups' : backups'[b] = backups[b]
    BY <2>1 DEF Without
  <2>3. ASSUME kind # "placement" PROVE StepKnows'
    BY <1>1, <2>1, <2>2, <2>3 DEF PubInv, StepKnows
  <2>4. ASSUME kind # "placement", NEW r \in Int, NEW b \in DOMAIN backups,
               WholeOf(backups[b], r)
        PROVE  b \in DOMAIN backups' /\ WholeOf(backups'[b], r)
    <3>1. b # BackupName
      BY <2>1, <2>4, EmptyIsNotWhole DEF PubInv, StepKnows
    <3> QED  BY <2>2, <2>4, <3>1
  <2>5. durable \in Int /\ run \in Int
    BY MaxRunsAssumption DEF PubInv
  <2>6. ASSUME kind # "placement" PROVE DurableIsKept' /\ LiveIsWhole'
    BY <1>1, <2>1, <2>4, <2>5, <2>6 DEF PubInv, DurableIsKept, LiveIsWhole, FullSet, Settled
  <2> QED  BY <1>1, <2>1, <2>3, <2>6 DEF PubInv
<1>5. CASE PlaceholderStays
  <2>1. /\ step' = "rollback" /\ UNCHANGED <<saved, backups>>
        /\ undone' = undone \cup {"placeholder"}
    BY <1>5 DEF PlaceholderStays
  <2>2. ASSUME kind # "placement" PROVE StepKnows' /\ DurableIsKept' /\ LiveIsWhole'
    BY <2>1 DEF StepKnows, DurableIsKept, LiveIsWhole
  <2> QED  BY <1>1, <2>1, <2>2 DEF PubInv, Reasons
<1>6. CASE RenameFails
  <2>1. step = "cleared" /\ step' = "rollback" /\ UNCHANGED <<saved, backups, undone>>
    BY <1>6 DEF RenameFails
  <2>2. ASSUME kind # "placement" PROVE ~HasBackup /\ ~HasBackup'
    BY <1>1, <2>1, <2>2 DEF PubInv, StepKnows, HasBackup
  <2>3. ASSUME kind # "placement" PROVE StepKnows' /\ DurableIsKept' /\ LiveIsWhole'
    BY <1>1, <2>1, <2>2, <2>3 DEF PubInv, StepKnows, DurableIsKept, LiveIsWhole, FullSet, Settled
  <2> QED  BY <1>1, <2>1, <2>3 DEF PubInv
<1> QED  BY <1>3, <1>4, <1>5, <1>6

\* The live directory is moved to a backup, or there is none.
LEMMA MoveKeepsPubInv ==
    ASSUME PubInv, MoveAway \/ NothingToMove
    PROVE  PubInv'
<1>1. CASE MoveAway
  <2>1. /\ step \in {"swap", "cleared"} /\ step' = "moved" /\ live' = Absent /\ saved'
        /\ step = "cleared" \/ BackupName \notin DOMAIN backups
        /\ backups' = With(backups, BackupName, live) /\ BackupName' = BackupName
        /\ UNCHANGED <<kind, run, staging, undone, durable>>
    BY <1>1 DEF MoveAway, Movable, BackupName
  <2>2. /\ DOMAIN backups' = DOMAIN backups \cup {BackupName}
        /\ backups'[BackupName] = live
        /\ \A b \in DOMAIN backups : b # BackupName => backups'[b] = backups[b]
    BY <2>1 DEF With
  <2>3. ASSUME kind # "placement" PROVE StepKnows'
    <3>1. WholeOf(staging, run) /\ (undone # {} \/ FullSet(live))
      BY <1>1, <2>1, <2>3 DEF PubInv, StepKnows, LiveIsWhole, MoveAway
    <3>2. QED
      BY <2>1, <2>2, <3>1 DEF StepKnows, FullSet
  <2>4. ASSUME kind # "placement" PROVE DurableIsKept'
    <3>1. BackupName \notin DOMAIN backups
      BY <2>1, <2>4 DEF PubInv, StepKnows
    <3>2. \A b \in DOMAIN backups : b \in DOMAIN backups' /\ backups'[b] = backups[b]
      BY <2>2, <3>1
    <3> QED  BY <2>1, <2>2, <2>4, <3>2 DEF PubInv, DurableIsKept
  <2>5. LiveIsWhole'
    BY <2>1 DEF LiveIsWhole
  <2>6. QED
    BY <2>1, <2>3, <2>4, <2>5 DEF PubInv
<1>2. CASE NothingToMove
  <2>1. /\ step = "swap" /\ step' = "moved" /\ live = Absent
        /\ UNCHANGED <<kind, run, live, staging, backups, saved, undone, durable>>
    BY <1>2 DEF NothingToMove
  <2>2. ASSUME kind # "placement" PROVE PubInv'
    BY <2>1, <2>2 DEF PubInv, StepKnows, DurableIsKept, LiveIsWhole, FullSet, Settled, HasBackup
  <2>3. QED
    BY <2>1, <2>2 DEF PubInv
<1>3. QED
  BY <1>1, <1>2

\* The new set becomes the live directory, or does not.
LEMMA CommitKeepsPubInv ==
    ASSUME PubInv, Commit \/ CommitFails \/ CommitInterrupted
    PROVE  PubInv'
<1> DEFINE InBackup(d) == \E r \in d..run : \E b \in DOMAIN backups : WholeOf(backups[b], r)
<1>1. run \in 1..MaxRuns /\ durable \in 0..run /\ MaxRuns \in Nat
  BY MaxRunsAssumption DEF PubInv
<1>2. CASE Commit \/ CommitFails
  <2>1. /\ step = "moved"
        /\ UNCHANGED <<kind, run, backups, saved, undone, durable>>
        /\ BackupName' = BackupName /\ HasBackup' = HasBackup
        /\ \/ step' = "committed" /\ live' = staging
           \/ step' = "rollback" /\ live' = live
    BY <1>2 DEF Commit, CommitFails, BackupName, HasBackup
  <2>2. ASSUME kind # "placement"
        PROVE  /\ live = Absent /\ WholeOf(staging, run)
               /\ saved => BackupName \in DOMAIN backups
               /\ HasBackup => undone # {} \/ FullSet(backups[BackupName])
    BY <2>1, <2>2 DEF PubInv, StepKnows
  <2>3. ASSUME kind # "placement" PROVE StepKnows'
    BY <2>1, <2>2, <2>3 DEF StepKnows, FullSet
  <2>4. ASSUME kind # "placement" PROVE DurableIsKept'
    <3>1. \A r \in durable..run : durable > 0 => r \in 1..MaxRuns /\ ~WholeOf(live, r)
      <4>1. \A r \in durable..run : durable > 0 => r \in 1..MaxRuns
        BY <1>1
      <4>2. QED
        BY <2>2, <2>4, <4>1, AbsentIsNotWhole
    <3>2. durable > 0 /\ "placeholder" \notin undone => InBackup(durable)
      BY <2>4, <3>1 DEF PubInv, DurableIsKept
    <3>3. QED
      BY <2>1, <3>2 DEF DurableIsKept
  <2>5. ASSUME kind # "placement" PROVE LiveIsWhole'
    BY <1>1, <2>1, <2>2, <2>5 DEF LiveIsWhole, FullSet
  <2>6. QED
    BY <1>1, <2>1, <2>3, <2>4, <2>5 DEF PubInv
<1>3. CASE CommitInterrupted
  <2>1. /\ step = "committed" /\ step' = "rollback" /\ undone' = undone \cup {"interrupt"}
        /\ UNCHANGED <<kind, run, live, backups, saved, durable>>
        /\ BackupName' = BackupName
    BY <1>3 DEF CommitInterrupted, BackupName
  <2>2. ASSUME kind # "placement" PROVE StepKnows' /\ DurableIsKept' /\ LiveIsWhole'
    BY <2>1, <2>2 DEF PubInv, StepKnows, DurableIsKept, LiveIsWhole, Settled
  <2>3. QED
    BY <1>1, <2>1, <2>2 DEF PubInv, Reasons
<1>4. QED
  BY <1>2, <1>3

\* Past the commit the set counts, and what it replaced may go.
LEMMA CleanupKeepsPubInv ==
    ASSUME PubInv, LeaveTry \/ RemoveBackup \/ CleanupFails
    PROVE  PubInv'
<1>1. /\ run \in 1..MaxRuns /\ run' = run /\ kind' = kind /\ live' = live
      /\ undone' \in {undone, {}} /\ durable' \in 0..run
      /\ step' \in {"cleaning", "done", "raised"}
      /\ \/ step = "committed" /\ durable' = run
         \/ step = "cleaning" /\ durable' = durable
  <2>1. run \in 1..MaxRuns /\ durable \in 0..run /\ run \in 0..run
    BY MaxRunsAssumption DEF PubInv
  <2>2. CASE LeaveTry
    BY <2>1, <2>2 DEF LeaveTry
  <2>3. CASE RemoveBackup \/ CleanupFails
    BY <2>1, <2>3 DEF RemoveBackup, CleanupFails, Raise
  <2>4. QED
    BY <2>2, <2>3
<1>2. ASSUME kind # "placement"
      PROVE  /\ WholeOf(live, run) /\ durable' = run
             /\ LiveIsWhole
  BY <1>1, <1>2 DEF PubInv, StepKnows
<1>3. ASSUME kind # "placement" PROVE StepKnows'
  <2>1. step' = "cleaning" => undone' = {}
    BY <1>3 DEF PubInv, StepKnows, LeaveTry, RemoveBackup, CleanupFails, Raise
  <2> QED  BY <1>1, <1>2, <1>3, <2>1 DEF StepKnows
<1>4. ASSUME kind # "placement" PROVE DurableIsKept' /\ LiveIsWhole'
  BY <1>1, <1>2, <1>4 DEF DurableIsKept, LiveIsWhole, FullSet, Settled
<1>5. QED
  BY <1>1, <1>3, <1>4 DEF PubInv

\* A publication is taken back, whole or not at all.
LEMMA RollbackKeepsPubInv ==
    ASSUME PubInv, ClearLive \/ RollBack \/ RollBackFails
    PROVE  PubInv'
<1>1. /\ run \in 1..MaxRuns /\ durable \in 0..run /\ step = "rollback"
      /\ UNCHANGED <<kind, run, saved, undone, durable>>
      /\ BackupName' = BackupName
  BY DEF PubInv, ClearLive, RollBack, RollBackFails, Raise, BackupName
<1>2. ASSUME kind # "placement", durable > 0, "placeholder" \notin undone, HasBackup
      PROVE  \E r \in durable..run : \E b \in DOMAIN backups : WholeOf(backups[b], r)
  BY <1>1, <1>2 DEF PubInv, DurableIsKept, Settled
<1>3. CASE ClearLive
  <2>1. step' = step /\ backups' = backups /\ live # Absent /\ HasBackup /\ HasBackup'
    BY <1>1, <1>3 DEF ClearLive, HasBackup
  <2>2. ASSUME kind # "placement" PROVE undone # {}
    BY <1>1, <2>1, <2>2 DEF PubInv, StepKnows
  <2>3. ASSUME kind # "placement" PROVE StepKnows' /\ DurableIsKept' /\ LiveIsWhole'
    BY <1>1, <1>2, <2>1, <2>2, <2>3 DEF PubInv, StepKnows, DurableIsKept, LiveIsWhole
  <2>4. QED
    BY <1>1, <2>3 DEF PubInv
<1>4. CASE (RollBack \/ RollBackFails) /\ live' = live /\ backups' = backups
  <2>1. step' = "raised"
    BY <1>4 DEF RollBack, RollBackFails, Raise
  <2>2. \/ durable = 0 \/ kind = "placement" \/ "placeholder" \in undone \/ Settled
        \/ \E r \in durable..run : \E b \in DOMAIN backups : WholeOf(backups[b], r)
    BY <1>1, <1>2 DEF Settled
  <2>3. ASSUME kind # "placement" PROVE PubInv'
    BY <1>1, <1>4, <2>1, <2>2, <2>3, EndKeepsPubInv
  <2>4. QED
    BY <1>1, <2>3 DEF PubInv
<1>5. CASE /\ HasBackup /\ live = Absent /\ step' = "raised"
           /\ live' = backups[BackupName]
           /\ backups' = Without(backups, BackupName)
  <2>1. /\ DOMAIN backups' = DOMAIN backups \ {BackupName}
        /\ \A b \in DOMAIN backups' : backups'[b] = backups[b]
    BY <1>5 DEF Without
  <2>2. ASSUME kind # "placement" PROVE undone # {} \/ FullSet(live')
    BY <1>1, <1>5, <2>2 DEF PubInv, StepKnows
  <2>3. ASSUME kind # "placement" PROVE StepKnows'
    BY <1>5 DEF StepKnows
  <2>4. ASSUME kind # "placement" PROVE DurableIsKept'
    BY <1>1, <1>2, <1>5, <2>1, <2>4 DEF DurableIsKept, Settled
  <2>5. ASSUME kind # "placement" PROVE LiveIsWhole'
    BY <1>1, <2>2, <2>5 DEF LiveIsWhole, FullSet
  <2>6. QED
    BY <1>1, <2>3, <2>4, <2>5 DEF PubInv
<1>6. QED
  BY <1>3, <1>4, <1>5 DEF RollBack, RollBackFails, Raise

LEMMA StepPubInv == ASSUME PubInv, [Next]_vars PROVE PubInv'
<1>1. /\ run \in 1..MaxRuns /\ durable \in 0..run /\ run \in Nat
  BY MaxRunsAssumption DEF PubInv
<1>2. CASE step = "compute" /\ (Stage(SuccessSet) \/ Stage(AbortSet))
  BY <1>2, StageKeepsPubInv
<1>3. CASE /\ step = "compute" /\ step' = "raised"
           /\ UNCHANGED <<kind, run, live, backups, saved, undone, durable>>
  <2>1. Settled
    BY <1>3 DEF Settled
  <2> QED  BY <1>3, <2>1, EndKeepsPubInv
<1>4. CASE Die
  BY <1>1, <1>4 DEF PubInv, StepKnows, DurableIsKept, LiveIsWhole, FullSet, Settled, Die
<1>5. CASE NewProcess
  <2>1. /\ step \in {"done", "raised", "dead"} /\ run < MaxRuns /\ run' = run + 1
        /\ step' = "compute" /\ ~saved'
        /\ UNCHANGED <<kind, live, backups, undone, durable>>
    BY <1>5 DEF NewProcess, Ended
  <2>2. Settled
    BY <2>1 DEF Settled
  <2> QED  BY <2>1, <2>2, EndKeepsPubInv
<1>6. CASE Publish
  <2>1. CASE MoveFails
    <3>1. /\ step = "swap" /\ step' = "raised"
          /\ UNCHANGED <<kind, run, live, backups, saved, undone, durable>>
      BY <2>1 DEF MoveFails, Raise
    <3>2. Settled
      BY <3>1 DEF Settled
    <3> QED  BY <3>1, <3>2, EndKeepsPubInv
  <2>2. CASE Install \/ InstallFails
    <3>1. kind' = kind /\ run' = run /\ durable' \in 0..run /\ undone' = undone
      BY <1>1, <2>2 DEF Install, InstallFails, Raise
    <3>2. step = "install"
      BY <2>2 DEF Install, InstallFails
    <3>3. kind = "placement"
      BY <3>2 DEF PubInv, StepKnows
    <3>4. QED
      BY <1>1, <3>1, <3>3 DEF PubInv
  <2>3. QED
    BY <1>6, <2>1, <2>2, ReserveKeepsPubInv, MoveKeepsPubInv, CommitKeepsPubInv,
       CleanupKeepsPubInv, RollbackKeepsPubInv DEF Publish
<1>7. CASE UNCHANGED pubVars
  BY <1>7 DEF pubVars, PubInv, StepKnows, DurableIsKept, LiveIsWhole, FullSet, BackupName,
     Settled, HasBackup
<1>8. QED
  BY <1>2, <1>3, <1>4, <1>5, <1>6, <1>7, NextIsPubStep DEF PubStep

\* The strengthened invariant holds of every step of every publishing process.
THEOREM PublicationInvariance == Spec => []PubInv
<1>1. Init => PubInv
  BY InitPubInv
<1>2. PubInv /\ [Next]_vars => PubInv'
  BY StepPubInv
<1>3. QED
  BY <1>1, <1>2, PTL DEF Spec

\* However many processes publish, fail or die one after the other: the live
\* directory is absent or the whole set of one run, and what was committed last
\* is still on disk, as long as no rollback ran over a live set since.
THEOREM PublicationStaysSafe == Spec => []PublicationIsSafe
<1>1. PubInv => PublicationIsSafe
  BY DEF PubInv, PublicationIsSafe, DurableIsKept, LiveIsWhole, CommittedSurvives, LastSetIsKept
<1>2. QED
  BY <1>1, PublicationInvariance, PTL
-----------------------------------------------------------------------------
(* The watchdog.  What it saw, the signal it sent and the handler that      *)
(* takes the signal belong to the one execution that is under way, as long  *)
(* as no thread of an earlier one is left.                                  *)
Resting == handler = NoHandler /\ poller = "gone" /\ ~pending /\ aborted = NoCell

\* The limit was seen, and the execution has not been told yet.
Owed == pending \/ poller = "tripped"

Watched ==
    /\ busy = [cell |-> busy.cell, stage |-> busy.stage, outcome |-> busy.outcome]
    /\ \/ busy.stage = "run" /\ busy.outcome = "none"
       \/ busy.stage = "exit" /\ busy.outcome \in {"ok", "error", "abort"}
    /\ handler = HandlerOf(busy.cell)
    /\ poller \in {"live", "tripped", "gone"}
    /\ pending => poller = "gone"
    /\ Owed => busy.outcome # "abort"
    /\ poller = "live" => busy.outcome # "abort"
    /\ aborted = IF Owed \/ busy.outcome = "abort" THEN busy.cell ELSE NoCell

EndsInOrder ==
    /\ phase # "killed"
    /\ phase = "success" => aborted = NoCell
    /\ phase = "abort" => cause = aborted /\ cause \in failures
    /\ phase \notin Working => ~pending /\ busy = Idle
    /\ phase \in Working => IF busy = Idle THEN Resting ELSE Watched

GridInv ==
    /\ phase \in Working \union {"raised", "success", "abort", "killed"}
    /\ kind # "final" => phase = "probe"
    /\ strays = {} => EndsInOrder

LEMMA InitGridInv == ASSUME Init PROVE GridInv
BY DEF Init, CampaignInit, GridInit, GridInv, EndsInOrder, Resting, Working, NoHandler, Idle

\* Only the campaign moves the grid.
LEMMA NextIsGridStep ==
    ASSUME [Next]_vars
    PROVE  \/ Compute \/ Restart
           \/ PublishCases
           \/ UNCHANGED <<gridVars, kind>>
<1>1. CASE RunCampaign
  <2>1. CASE CampaignNext
    <3>1. CASE PublishGrid \/ Defer \/ ComputeRaises \/ Killed \/ Crash
      BY <3>1 DEF PublishGrid, Stage, Defer, ComputeRaises, Raise, Killed, Crash, Die
    <3>2. CASE Publication
      <4>1. UNCHANGED gridVars
        BY <3>2 DEF Publication
      <4>2. kind' = kind
        BY <3>2 DEF Publication, Publish, Reserve, RemovePlaceholder, PlaceholderStays,
           RenameFails, MoveAway, NothingToMove, MoveFails, Commit, CommitFails,
           CommitInterrupted, LeaveTry, RemoveBackup, CleanupFails, ClearLive,
           RollBack, RollBackFails, Install, InstallFails, Raise
      <4>3. QED
        BY <4>1, <4>2
    <3>3. CASE Stopped
      BY <3>3 DEF Stopped, campaignVars, pubVars
    <3>4. QED
      BY <2>1, <3>1, <3>2, <3>3 DEF CampaignNext
  <2>2. QED
    BY <1>1, <2>1 DEF RunCampaign, campaignVars, pubVars
<1>2. CASE RecordDecisions \/ JoinReplay \/ Judged \/ UNCHANGED vars
  BY <1>2 DEF RecordDecisions, JoinReplay, Judged, vars, campaignVars, pubVars
<1>3. QED
  BY <1>1, <1>2 DEF Next

\* An execution that settles with its own outcome, without an owed signal.
LEMMA SettleEndsInOrder ==
    ASSUME GridInv, strays = {}, phase \in Working, busy # Idle, ~Owed, poller # "live",
           ~pending', poller' = "gone", aborted' = aborted,
           Settle(busy.outcome)
    PROVE  EndsInOrder' /\ phase' \in Working \union {"raised", "abort"}
<1>1. /\ busy.outcome \in {"ok", "error", "abort"}
      /\ handler = HandlerOf(busy.cell)
      /\ aborted = IF busy.outcome = "abort" THEN busy.cell ELSE NoCell
  BY DEF GridInv, EndsInOrder, Watched, Settle
<1>2. busy' = Idle /\ handler' = NoHandler
  BY DEF Settle
<1>3. CASE busy.outcome = "abort"
  <2>1. /\ phase' = "abort" /\ cause' = busy.cell /\ busy.cell \in failures'
    BY <1>1, <1>3 DEF Settle, HandlerOf
  <2>2. QED
    BY <1>1, <1>2, <1>3, <2>1 DEF EndsInOrder, Working
<1>4. CASE busy.outcome # "abort"
  <2>1. phase' \in {phase, "raised"}
    BY <1>1, <1>4 DEF Settle
  <2>2. aborted' = NoCell
    BY <1>1, <1>4
  <2>3. QED
    BY <1>2, <2>1, <2>2 DEF EndsInOrder, Working, Resting
<1>5. QED
  BY <1>3, <1>4

\* The main thread begins or ends an execution.
LEMMA RunnerKeepsOrder ==
    ASSUME GridInv, strays = {}, strays' = {}, Enter \/ TakeCached \/ Finish \/ Exit \/ NextPhase
    PROVE  EndsInOrder' /\ phase' \in Working \union {"raised", "success", "abort"}
<1>1. phase \in Working /\ ~pending /\ EndsInOrder
  BY DEF GridInv, Running, Enter, TakeCached, Finish, Exit, NextPhase
<1>2. CASE Enter
  <2>1. Resting
    BY <1>1, <1>2 DEF Enter, EndsInOrder
  <2>2. /\ phase' = phase /\ busy' # Idle /\ Watched'
    BY <1>2, <2>1 DEF Enter, Resting, Watched, Owed, Idle
  <2>3. QED
    BY <1>1, <2>2 DEF EndsInOrder, Working
<1>3. CASE TakeCached
  BY <1>1, <1>3 DEF TakeCached, EndsInOrder, Resting, Working
<1>4. CASE Finish
  <2>1. /\ busy.stage = "run" /\ busy # Idle
    BY <1>4 DEF Finish, Idle
  <2>2. PICK outcome \in {"ok", "error"} :
             busy' = [busy EXCEPT !.stage = "exit", !.outcome = outcome]
    BY <1>4 DEF Finish
  <2>3. Watched
    BY <1>1, <2>1 DEF EndsInOrder
  <2>4. UNCHANGED <<phase, handler, pending, poller, aborted>>
    BY <1>4 DEF Finish
  <2>5. busy' = [cell |-> busy.cell, stage |-> "exit", outcome |-> outcome]
    BY <2>2, <2>3 DEF Watched
  <2>6. Watched' /\ busy' # Idle
    BY <2>1, <2>3, <2>4, <2>5 DEF Watched, Owed, Idle
  <2>7. QED
    BY <1>1, <2>4, <2>6 DEF EndsInOrder, Working
<1>5. CASE Exit
  <2>1. busy # Idle /\ poller = "gone" /\ Settle(busy.outcome)
        /\ poller' = "gone" /\ pending' = pending /\ aborted' = aborted
    BY <1>5 DEF Exit, Idle
  <2>2. QED
    BY <1>1, <2>1, SettleEndsInOrder DEF Owed
<1>6. CASE NextPhase
  <2>1. /\ phase' \in {"grid", "audit", "raised", "success"} /\ busy = Idle
        /\ UNCHANGED <<busy, handler, pending, poller, aborted>>
    BY <1>6 DEF NextPhase
  <2>2. Resting
    BY <1>1, <2>1 DEF EndsInOrder
  <2>3. QED
    BY <1>1, <2>1, <2>2 DEF EndsInOrder, Working, Resting
<1>7. QED
  BY <1>2, <1>3, <1>4, <1>5, <1>6

\* The watchdog thread looks at the memory, and tells the main thread.
LEMMA WatchdogKeepsOrder ==
    ASSUME GridInv, strays = {}, strays' = {}, Trip \/ Kill \/ Quit \/ StrayTrip \/ StrayEnds
    PROVE  EndsInOrder' /\ phase' = phase
<1>1. ~StrayTrip /\ ~StrayEnds
  BY DEF StrayTrip, StrayEnds
<1>2. /\ phase \in Working /\ poller \in {"live", "tripped"} /\ UNCHANGED <<busy, handler>>
  BY <1>1 DEF Trip, Kill, Quit
<1>3. busy # Idle /\ Watched
  BY <1>2 DEF GridInv, EndsInOrder, Resting
<1>4. CASE Trip
  <2>1. UNCHANGED <<phase, busy, handler, pending>> /\ poller = "live"
        /\ poller' = "tripped" /\ aborted' = busy.cell
    BY <1>4 DEF Trip
  <2>2. Watched'
    BY <1>3, <2>1 DEF Watched, Owed
  <2>3. QED
    BY <1>2, <1>3, <2>1, <2>2 DEF EndsInOrder, Working
<1>5. CASE Kill
  <2>1. handler.installed
    BY <1>3 DEF Watched, HandlerOf
  <2>2. UNCHANGED <<phase, busy, handler, aborted>> /\ poller = "tripped"
        /\ poller' = "gone" /\ pending'
    BY <1>5, <2>1 DEF Kill, Signal
  <2>3. Watched'
    BY <1>3, <2>2 DEF Watched, Owed
  <2>4. QED
    BY <1>2, <1>3, <2>2, <2>3 DEF EndsInOrder, Working
<1>6. CASE Quit
  <2>1. UNCHANGED <<phase, busy, handler, pending, aborted>> /\ poller = "live"
        /\ poller' = "gone"
    BY <1>6 DEF Quit
  <2>2. Watched'
    BY <1>3, <2>1 DEF Watched, Owed
  <2>3. QED
    BY <1>2, <1>3, <2>1, <2>2 DEF EndsInOrder, Working
<1>7. QED
  BY <1>1, <1>4, <1>5, <1>6

\* The handler runs in the main thread.
LEMMA InterruptKeepsOrder ==
    ASSUME GridInv, strays = {}, strays' = {}, Interrupt
    PROVE  EndsInOrder' /\ phase' \in Working \union {"abort"}
<1>1. pending /\ ~pending' /\ aborted' = aborted
  BY DEF Interrupt
<1>2. phase \in Working /\ busy # Idle /\ Watched
  BY <1>1 DEF GridInv, EndsInOrder, Resting
<1>3. poller = "gone" /\ aborted = busy.cell /\ handler = HandlerOf(busy.cell)
  BY <1>1, <1>2 DEF Watched, Owed
<1>4. CASE busy.stage = "run"
  <2>1. /\ UNCHANGED <<phase, handler, poller>>
        /\ busy' = [busy EXCEPT !.stage = "exit", !.outcome = "abort"]
    BY <1>4 DEF Interrupt
  <2>2. busy'.cell = busy.cell /\ busy'.stage = "exit" /\ busy'.outcome = "abort"
    BY <1>2, <2>1 DEF Watched
  <2>3. Watched' /\ busy' # Idle
    BY <1>1, <1>2, <1>3, <2>1, <2>2 DEF Watched, Owed, Idle
  <2>4. QED
    BY <1>2, <2>1, <2>3 DEF EndsInOrder, Working
<1>5. CASE busy.stage = "exit"
  <2>1. Settle("abort")
    BY <1>5 DEF Interrupt
  <2>2. /\ phase' = "abort" /\ busy' = Idle /\ handler' = NoHandler
        /\ cause' = busy.cell /\ busy.cell \in failures'
    BY <1>3, <2>1 DEF Settle, HandlerOf
  <2>3. QED
    BY <1>1, <1>3, <2>2 DEF EndsInOrder, Working
<1>6. QED
  BY <1>2, <1>4, <1>5 DEF Watched

LEMMA StepGridInv == ASSUME GridInv, [Next]_vars PROVE GridInv'
<1>1. CASE Compute
  <2>1. kind = "final" /\ kind' = kind /\ Grid
    BY <1>1 DEF Compute, pubVars
  <2>2. ASSUME strays' # {} PROVE GridInv'
    <3>1. phase' \in Working \union {"raised", "success", "abort", "killed"}
      <4>1. CASE Enter \/ TakeCached \/ Finish \/ NextPhase \/ Trip \/ Quit \/ StrayTrip
        BY <4>1 DEF GridInv, Enter, TakeCached, Finish, NextPhase, Trip, Quit, StrayTrip, Working
      <4>2. CASE Exit \/ JoinTimesOut \/ Interrupt
        BY <4>2 DEF GridInv, Exit, JoinTimesOut, Interrupt, Settle
      <4>3. CASE Kill \/ StrayEnds
        BY <4>3 DEF GridInv, Kill, StrayEnds, Signal
      <4>4. QED
        BY <2>1, <4>1, <4>2, <4>3 DEF Grid
    <3>2. QED
      BY <2>1, <2>2, <3>1 DEF GridInv
  <2>3. ASSUME strays' = {} PROVE GridInv'
    <3>1. ~JoinTimesOut
      BY <2>3 DEF JoinTimesOut
    <3>2. strays = {}
      <4>1. CASE Enter \/ TakeCached \/ Finish \/ Exit \/ NextPhase \/ Trip \/ Kill \/ Quit
        BY <2>3, <4>1 DEF Enter, TakeCached, Finish, Exit, NextPhase, Trip, Kill, Quit
      <4>2. CASE Interrupt \/ StrayTrip \/ StrayEnds
        BY <2>3, <4>2 DEF Interrupt, StrayTrip, StrayEnds
      <4>3. QED
        BY <2>1, <3>1, <4>1, <4>2 DEF Grid
    <3>3. EndsInOrder'
          /\ phase' \in Working \union {"raised", "success", "abort", "killed"}
      <4>1. CASE Enter \/ TakeCached \/ Finish \/ Exit \/ NextPhase
        BY <2>3, <3>2, <4>1, RunnerKeepsOrder
      <4>2. CASE Trip \/ Kill \/ Quit \/ StrayTrip \/ StrayEnds
        BY <2>3, <3>2, <4>2, WatchdogKeepsOrder DEF GridInv
      <4>3. CASE Interrupt
        BY <2>3, <3>2, <4>3, InterruptKeepsOrder
      <4>4. QED
        BY <2>1, <3>1, <4>1, <4>2, <4>3 DEF Grid
    <3>4. QED
      BY <2>1, <3>3 DEF GridInv
  <2>4. QED
    BY <2>2, <2>3
<1>2. CASE Restart
  BY <1>2 DEF Restart, GridInv, EndsInOrder, Resting, Working, NoHandler, Idle
<1>3. CASE PublishCases
  <2>1. /\ kind # "final" /\ kind' = kind
        /\ UNCHANGED <<phase, busy, handler, pending, poller, strays, aborted, cause>>
    BY <1>3 DEF PublishCases, Stage
  <2>2. phase = "probe"
    BY <2>1 DEF GridInv
  <2>3. strays = {} => EndsInOrder'
    BY <2>1, <2>2 DEF GridInv, EndsInOrder, Resting, Watched, Owed, Working
  <2>4. QED
    BY <2>1, <2>2, <2>3 DEF GridInv, Working
<1>4. CASE UNCHANGED <<gridVars, kind>>
  BY <1>4 DEF gridVars, GridInv, EndsInOrder, Resting, Watched, Owed
<1>5. QED
  BY <1>1, <1>2, <1>3, <1>4, NextIsGridStep

\* Whatever the cells compute and whenever the memory is sampled: as long as
\* every watchdog thread ended within its join, a grid that reached its memory
\* limit is never published as finished, an abort names the cell that is on
\* record, and the signal never ends the process by its default action.
THEOREM GridStopsInOrder == Spec => []GridStopsAtItsLimit
<1>1. Init => GridInv
  BY InitGridInv
<1>2. GridInv /\ [Next]_vars => GridInv'
  BY StepGridInv
<1>3. GridInv => GridStopsAtItsLimit
  BY DEF GridInv, EndsInOrder, GridStopsAtItsLimit, LimitStopsTheGrid, AbortNamesItsCell,
     WatchdogSparesTheProcess
<1>4. QED
  BY <1>1, <1>2, <1>3, PTL DEF Spec
-----------------------------------------------------------------------------
(* The decision log.  A line in the file is finished, or it is the last one *)
(* and the next record to be written is the one it was begun for.           *)

Record == [request : Requests, attempt : 0..MaxAttempts, decision : Decisions]
Line == [push : Nat, record : Record, end : {"whole", "torn", "unterminated"}]
Entries == [push : Nat, record : Record]

Finished(lines) == IF Unfinished(lines) THEN Len(lines) - 1 ELSE Len(lines)

\* Lines of a file, of pushes up to top.
FileFits(lines, top) ==
    /\ lines \in Seq(Line)
    /\ \A i \in 1..(Len(lines) - 1) : Whole(lines[i])
    /\ \A i, j \in 1..Len(lines) : i < j => lines[i].push < lines[j].push
    /\ \A i \in 1..Len(lines) : lines[i].push <= top

\* Records that are still to be written after what is in the file.
Pends(lines, unwritten, top) ==
    /\ unwritten \in Seq(Entries)
    /\ \A i, j \in 1..Len(unwritten) : i < j => unwritten[i].push < unwritten[j].push
    /\ \A i \in 1..Len(unwritten) : unwritten[i].push <= top
    /\ \A i \in 1..Finished(lines), j \in 1..Len(unwritten) : lines[i].push < unwritten[j].push
    /\ Unfinished(lines) => unwritten # <<>> /\ unwritten[1].push = lines[Len(lines)].push

\* No finished line is lost.
Grows(lines, more) ==
    /\ Len(lines) <= Len(more)
    /\ \A i \in 1..Len(lines) : Whole(lines[i]) => more[i] = lines[i]

\* What returned is in the file, below what fsync covered if it was asked to.
Remembered(lines, done, covered) ==
    /\ covered \in 0..Len(lines)
    /\ \A i \in 1..covered : Whole(lines[i])
    /\ fsync => \A p \in done : \E i \in 1..covered : lines[i].push = p
    /\ ~outage => \A p \in done : \E i \in 1..Len(lines) : lines[i].push = p /\ Whole(lines[i])

LogInv ==
    /\ pushes \in Nat
    /\ fsync \in BOOLEAN /\ outage \in BOOLEAN
    /\ sink \in {"open", "closed", "down"}
    /\ FileFits(file, pushes)
    /\ sink = "open" => Pends(file, buffer, pushes)
    /\ sink # "open" => buffer = <<>>
    /\ sink = "closed" => ~Unfinished(file)
    /\ Remembered(file, acked, synced)

\* A file that fits ends in a finished line, or in one that is not.
LEMMA LastLine ==
    ASSUME NEW lines, NEW top, FileFits(lines, top)
    PROVE  /\ Len(lines) \in Nat
           /\ Unfinished(lines) => Len(lines) > 0 /\ ~Whole(lines[Len(lines)])
           /\ Finished(lines) \in 0..Len(lines)
           /\ \A i \in 1..Len(lines) : Whole(lines[i]) <=> i <= Finished(lines)
<1>1. /\ lines \in Seq(Line) /\ Len(lines) \in Nat
      /\ \A i \in 1..(Len(lines) - 1) : Whole(lines[i])
      /\ \A i \in 1..Len(lines) : lines[i] \in Line
  BY DEF FileFits
<1>2. CASE lines = <<>>
  BY <1>1, <1>2 DEF Unfinished, Finished
<1>3. CASE lines # <<>>
  <2>1. Len(lines) > 0 /\ lines[Len(lines)] \in Line
    BY <1>1, <1>3
  <2>2. Unfinished(lines) <=> ~Whole(lines[Len(lines)])
    BY <1>3, <2>1 DEF Unfinished, Last, Whole, Line
  <2> QED  BY <1>1, <2>1, <2>2 DEF Finished
<1> QED  BY <1>2, <1>3

\* The file when all that is pending is written.
AllWritten(lines, unwritten) ==
    [i \in 1..(Finished(lines) + Len(unwritten)) |->
        IF i <= Finished(lines) THEN lines[i] ELSE Cut(unwritten[i - Finished(lines)], "whole")]

\* One more record on a file.
LEMMA RecordCompleted ==
    ASSUME NEW lines \in Seq(Line), NEW p \in Entries,
           Unfinished(lines) => p.push = lines[Len(lines)].push
    PROVE  /\ Complete(lines, p) \in Seq(Line)
           /\ ~Unfinished(Complete(lines, p))
           /\ Complete(lines, p) = AllWritten(lines, <<p>>)
<1>1. PICK f, line, r : /\ f = Finished(lines) /\ line = Cut(p, "whole")
                        /\ r = Complete(lines, p)
  OBVIOUS
<1>2. line \in Line /\ Len(lines) \in Nat
  BY <1>1 DEF Cut, Line, Entries
<1>3. f \in Nat /\ f <= Len(lines)
  BY <1>1, <1>2 DEF Finished, Unfinished
<1>4. /\ r \in Seq(Line) /\ Len(r) = f + 1 /\ r[f + 1] = line
      /\ \A i \in 1..f : r[i] = lines[i]
  <2>1. CASE ~Unfinished(lines)
    <3>1. r = Append(lines, line) /\ f = Len(lines)
      BY <1>1, <2>1 DEF Complete, Finished
    <3> QED  BY <1>2, <3>1
  <2>2. CASE Unfinished(lines)
    <3>1. lines # <<>> /\ f = Len(lines) - 1 /\ Last(lines).push = p.push
      BY <1>1, <2>2 DEF Unfinished, Finished, Last
    <3>2. r = Append(Front(lines), line)
      BY <1>1, <2>2, <3>1 DEF Complete
    <3>3. PICK front : front = Front(lines)
      OBVIOUS
    <3>4. front \in Seq(Line) /\ Len(front) = f /\ \A i \in 1..f : front[i] = lines[i]
      BY <1>2, <3>1, <3>3, SubSeqProperties DEF Front
    <3> QED  BY <1>2, <3>2, <3>3, <3>4
  <2> QED  BY <2>1, <2>2
<1>5. ~Unfinished(r)
  BY <1>1, <1>3, <1>4 DEF Unfinished, Last, Cut
<1>6. r = AllWritten(lines, <<p>>)
  <2>1. PICK w : w = AllWritten(lines, <<p>>)
    OBVIOUS
  <2>2. w = [i \in 1..(f + 1) |-> IF i <= f THEN lines[i] ELSE Cut(<<p>>[i - f], "whole")]
    BY <1>1, <2>1 DEF AllWritten
  <2>3. \A i \in 1..(f + 1) : w[i] = r[i]
    <3>1. ASSUME NEW i \in 1..(f + 1) PROVE w[i] = r[i]
      <4>1. CASE i <= f
        BY <1>3, <1>4, <2>2, <4>1
      <4>2. CASE i = f + 1
        <5>1. i - f = 1 /\ <<p>>[i - f] = p /\ ~(i <= f)
          BY <1>3, <4>2
        <5> QED  BY <1>1, <1>4, <2>2, <4>2, <5>1
      <4> QED  BY <1>3, <4>1, <4>2
    <3> QED  BY <3>1
  <2>4. r = [i \in 1..(f + 1) |-> r[i]]
    BY <1>3, <1>4
  <2>5. w = [i \in 1..(f + 1) |-> w[i]]
    BY <2>2
  <2> QED  BY <2>1, <2>3, <2>4, <2>5
<1> QED  BY <1>1, <1>4, <1>5, <1>6

FlushedRec(g, unwritten) ==
    g = [i \in 0..Len(unwritten) |->
            IF i = 0 THEN file ELSE Complete(g[i - 1], unwritten[i])]

\* Flushing writes what is pending, line after line.
LEMMA FlushedIs ==
    ASSUME file \in Seq(Line), NEW unwritten \in Seq(Entries),
           Unfinished(file) => unwritten # <<>> /\ unwritten[1].push = file[Len(file)].push
    PROVE  /\ Flushed(unwritten) = AllWritten(file, unwritten)
           /\ Flushed(unwritten) \in Seq(Line)
<1>1. PICK n, f : n = Len(unwritten) /\ f = Finished(file)
  OBVIOUS
<1>2. n \in Nat /\ Len(file) \in Nat /\ f \in Nat /\ f <= Len(file)
      /\ (\A i \in 1..n : unwritten[i] \in Entries)
  BY <1>1 DEF Finished, Unfinished
<1> DEFINE Form(i) == [j \in 1..(f + i) |->
                          IF j <= f THEN file[j] ELSE Cut(unwritten[j - f], "whole")]
           After(i) == IF i = 0 THEN file ELSE Form(i)
<1>3. ASSUME NEW i \in 1..n
      PROVE  /\ Form(i) \in Seq(Line) /\ Len(Form(i)) = f + i
             /\ ~Unfinished(Form(i))
  <2>1. ASSUME NEW j \in 1..(f + i) PROVE Form(i)[j] \in Line
    <3>1. CASE j <= f
      BY <1>2, <3>1
    <3>2. CASE ~(j <= f)
      <4>1. j - f \in 1..n
        BY <1>2, <3>2
      <4>2. Cut(unwritten[j - f], "whole") \in Line
        BY <1>2, <4>1 DEF Cut, Line, Entries
      <4> QED  BY <3>2, <4>2
    <3> QED  BY <3>1, <3>2
  <2>2. PICK r : r = Form(i)
    OBVIOUS
  <2>3. r \in [1..(f + i) -> Line]
    BY <2>1, <2>2
  <2>4. r \in Seq(Line) /\ Len(r) = f + i
    BY <1>2, <2>3
  <2>5. r[f + i] = Cut(unwritten[i], "whole")
    <3>1. ~(f + i <= f) /\ (f + i) - f = i /\ f + i \in 1..(f + i)
      BY <1>2
    <3> QED  BY <2>2, <3>1
  <2>6. ~Unfinished(r)
    BY <2>4, <2>5 DEF Unfinished, Last, Cut
  <2> QED  BY <2>2, <2>4, <2>6
<1>4. ASSUME NEW i \in 1..n PROVE Complete(After(i - 1), unwritten[i]) = Form(i)
  <2>1. CASE i = 1
    <3>1. Unfinished(file) => unwritten[i].push = file[Len(file)].push
      BY <2>1
    <3>2. Complete(file, unwritten[i]) = AllWritten(file, <<unwritten[i]>>)
      BY <1>2, <3>1, RecordCompleted
    <3>3. PICK w : w = AllWritten(file, <<unwritten[i]>>)
      OBVIOUS
    <3>4. w = [j \in 1..(f + 1) |->
                  IF j <= f THEN file[j] ELSE Cut(<<unwritten[i]>>[j - f], "whole")]
      BY <1>1, <3>3 DEF AllWritten
    <3>5. ASSUME NEW j \in 1..(f + 1) PROVE w[j] = Form(i)[j]
      <4>1. CASE j <= f
        BY <1>2, <2>1, <3>4, <4>1
      <4>2. CASE j = f + 1
        <5>1. j - f = i /\ ~(j <= f) /\ <<unwritten[i]>>[j - f] = unwritten[i]
          BY <1>2, <2>1, <4>2
        <5> QED  BY <2>1, <3>4, <5>1
      <4> QED  BY <1>2, <4>1, <4>2
    <3>6. w = [j \in 1..(f + 1) |-> w[j]] /\ Form(i) = [j \in 1..(f + 1) |-> Form(i)[j]]
      BY <2>1, <3>4
    <3>7. w = Form(i)
      <4> HIDE DEF Form
      <4> QED  BY <3>5, <3>6
    <3>8. After(i - 1) = file
      BY <2>1
    <3> QED  BY <3>2, <3>3, <3>7, <3>8
  <2>2. CASE i # 1
    <3>1. PICK before, now : before = Form(i - 1) /\ now = Form(i)
      OBVIOUS
    <3>2. /\ i - 1 \in 1..n /\ After(i - 1) = before
          /\ before \in Seq(Line) /\ Len(before) = f + (i - 1)
          /\ ~Unfinished(before)
      <4>1. i - 1 \in 1..n /\ i - 1 # 0
        BY <1>2, <2>2
      <4> HIDE DEF Form
      <4> QED  BY <1>3, <3>1, <4>1
    <3>3. Complete(before, unwritten[i]) = AllWritten(before, <<unwritten[i]>>)
      BY <1>2, <3>2, RecordCompleted
    <3>4. PICK w : w = AllWritten(before, <<unwritten[i]>>)
      OBVIOUS
    <3>5. Finished(before) = f + (i - 1) /\ (f + (i - 1)) + 1 = f + i
      BY <1>2, <3>2 DEF Finished
    <3>6. w = [j \in 1..(f + i) |->
                  IF j <= f + (i - 1) THEN before[j]
                  ELSE Cut(<<unwritten[i]>>[j - (f + (i - 1))], "whole")]
      BY <3>4, <3>5 DEF AllWritten
    <3>7. ASSUME NEW j \in 1..(f + i) PROVE w[j] = now[j]
      <4>1. CASE j <= f + (i - 1)
        <5>1. j \in 1..(f + (i - 1))
          BY <1>2, <3>2, <4>1
        <5>2. before[j] = now[j]
          BY <3>1, <5>1
        <5> QED  BY <3>6, <4>1, <5>2
      <4>2. CASE j = f + i
        <5>1. /\ ~(j <= f + (i - 1)) /\ j - (f + (i - 1)) = 1
              /\ <<unwritten[i]>>[1] = unwritten[i] /\ ~(j <= f) /\ j - f = i
          BY <1>2, <4>2
        <5>2. now[j] = Cut(unwritten[i], "whole")
          BY <3>1, <5>1
        <5> QED  BY <3>6, <5>1, <5>2
      <4> QED  BY <1>2, <4>1, <4>2
    <3>8. w = [j \in 1..(f + i) |-> w[j]] /\ now = [j \in 1..(f + i) |-> now[j]]
      BY <3>1, <3>6
    <3>9. w = now
      BY <3>7, <3>8
    <3> QED  BY <3>1, <3>2, <3>3, <3>4, <3>9
  <2> QED  BY <2>1, <2>2
<1>5. PICK g : g = [i \in 0..n |-> After(i)]
  OBVIOUS
<1>6. FlushedRec(g, unwritten)
  <2>1. ASSUME NEW i \in 0..n
        PROVE  g[i] = IF i = 0 THEN file ELSE Complete(g[i - 1], unwritten[i])
    <3>1. CASE i = 0
      BY <1>5, <3>1
    <3>2. CASE i # 0
      <4>1. i \in 1..n /\ i - 1 \in 0..n
        BY <1>2, <3>2
      <4>2. g[i] = Form(i) /\ g[i - 1] = After(i - 1)
        <5> HIDE DEF Form
        <5> QED  BY <1>5, <3>2, <4>1
      <4>3. Complete(After(i - 1), unwritten[i]) = Form(i)
        <5> HIDE DEF After, Form
        <5> QED  BY <1>4, <4>1
      <4> HIDE DEF After, Form
      <4> QED  BY <3>2, <4>2, <4>3
    <3> QED  BY <3>1, <3>2
  <2>2. g = [i \in 0..n |-> g[i]]
    <3> HIDE DEF After
    <3> QED  BY <1>5
  <2>3. g = [i \in 0..n |-> IF i = 0 THEN file ELSE Complete(g[i - 1], unwritten[i])]
    BY <2>1, <2>2
  <2> QED  BY <1>1, <2>3 DEF FlushedRec
<1>7. PICK h : h = CHOOSE way : FlushedRec(way, unwritten)
  OBVIOUS
<1>8. FlushedRec(h, unwritten)
  BY <1>6, <1>7
<1>9. h[0] = file /\ \A i \in 1..n : h[i] = Complete(h[i - 1], unwritten[i])
  BY <1>1, <1>2, <1>8 DEF FlushedRec
<1>10. \A i \in 0..n : h[i] = After(i)
  <2> DEFINE T == {i \in 1..n : h[i] = Form(i)}
  <2>1. ASSUME NEW i \in 1..n, \A j \in 1..(i - 1) : j \in T PROVE i \in T
    <3>1. h[i - 1] = After(i - 1)
      <4>1. CASE i = 1
        BY <1>9, <4>1
      <4>2. CASE i # 1
        <5>1. i - 1 \in 1..(i - 1) /\ i - 1 # 0
          BY <4>2
        <5>2. h[i - 1] = Form(i - 1)
          BY <2>1, <5>1
        <5> HIDE DEF Form
        <5> QED  BY <5>1, <5>2
      <4> QED  BY <4>1, <4>2
    <3>2. h[i] = Form(i)
      <4> HIDE DEF Form, After
      <4> QED  BY <1>4, <1>9, <3>1
    <3> HIDE DEF Form
    <3> QED  BY <3>2
  <2>2. 1..n \subseteq T
    <3> HIDE DEF T
    <3> QED  BY <1>2, <2>1, IntervalInduction
  <2>3. ASSUME NEW i \in 0..n PROVE h[i] = After(i)
    <3>1. CASE i = 0
      BY <1>9, <3>1
    <3>2. CASE i # 0
      <4>1. i \in 1..n
        BY <3>2
      <4>2. h[i] = Form(i)
        <5> HIDE DEF Form
        <5> QED  BY <2>2, <4>1
      <4> HIDE DEF Form
      <4> QED  BY <3>2, <4>2
    <3> QED  BY <3>1, <3>2
  <2> QED  BY <2>3
<1>11. Flushed(unwritten) = h[n]
  BY <1>1, <1>7 DEF Flushed, FlushedRec
<1>12. Flushed(unwritten) = After(n)
  <2> HIDE DEF After
  <2> QED  BY <1>2, <1>10, <1>11
<1>13. CASE n = 0
  <2>0. unwritten = <<>>
    BY <1>1, <1>13, EmptySeq
  <2>1. ~Unfinished(file) /\ f = Len(file) /\ f + n = Len(file)
    BY <1>1, <1>2, <1>13, <2>0 DEF Finished
  <2>2. PICK w : w = AllWritten(file, unwritten)
    OBVIOUS
  <2>3. w = [j \in 1..(f + n) |-> IF j <= f THEN file[j] ELSE Cut(unwritten[j - f], "whole")]
    BY <1>1, <2>2 DEF AllWritten
  <2>4. w = [j \in 1..Len(file) |-> file[j]]
    BY <1>2, <2>1, <2>3
  <2>5. file = [j \in 1..Len(file) |-> file[j]]
    OBVIOUS
  <2> QED  BY <1>12, <1>13, <2>2, <2>4, <2>5
<1>14. CASE n # 0
  <2>1. n \in 1..n
    BY <1>2, <1>14
  <2>2. Form(n) = AllWritten(file, unwritten)
    BY <1>1 DEF AllWritten
  <2> HIDE DEF Form
  <2> QED  BY <1>3, <1>12, <1>14, <2>1, <2>2
<1> QED  BY <1>13, <1>14

LEMMA RememberedStays ==
    ASSUME NEW lines, NEW more, NEW done, NEW covered, NEW top,
           FileFits(lines, top), more \in Seq(Line),
           Remembered(lines, done, covered), Grows(lines, more)
    PROVE  Remembered(more, done, covered)
<1>1. Len(lines) \in Nat /\ Len(more) \in Nat /\ Len(lines) <= Len(more)
  BY DEF FileFits, Grows
<1>2. /\ covered \in 0..Len(lines) /\ \A i \in 1..covered : Whole(lines[i])
  BY DEF Remembered
<1>3. \A i \in 1..Len(lines) : Whole(lines[i]) => more[i] = lines[i]
  BY DEF Grows
<1>4. covered \in 0..Len(more) /\ \A i \in 1..covered : more[i] = lines[i] /\ Whole(more[i])
  BY <1>1, <1>2, <1>3
<1>5. ASSUME fsync, NEW p \in done PROVE \E i \in 1..covered : more[i].push = p
  <2>1. PICK i \in 1..covered : lines[i].push = p
    BY <1>5 DEF Remembered
  <2> QED  BY <1>4, <2>1
<1>6. ASSUME ~outage, NEW p \in done
      PROVE  \E i \in 1..Len(more) : more[i].push = p /\ Whole(more[i])
  <2>1. PICK i \in 1..Len(lines) : lines[i].push = p /\ Whole(lines[i])
    BY <1>6 DEF Remembered
  <2>2. i \in 1..Len(more) /\ more[i] = lines[i]
    BY <1>1, <1>3, <2>1
  <2> QED  BY <2>1, <2>2
<1> QED  BY <1>4, <1>5, <1>6 DEF Remembered

\* A file with all that is pending written to it.
LEMMA AllWrittenFits ==
    ASSUME NEW lines, NEW unwritten, NEW top, NEW r,
           FileFits(lines, top), Pends(lines, unwritten, top),
           r = AllWritten(lines, unwritten), r \in Seq(Line)
    PROVE  /\ FileFits(r, top) /\ Grows(lines, r)
           /\ Len(r) = Finished(lines) + Len(unwritten)
           /\ \A i \in 1..Len(r) : Whole(r[i])
           /\ \A i \in 1..Len(unwritten) : r[Finished(lines) + i].push = unwritten[i].push
<1>1. PICK f, n : f = Finished(lines) /\ n = Len(unwritten)
  OBVIOUS
<1>2. /\ Len(lines) \in Nat /\ f \in 0..Len(lines) /\ n \in Nat
      /\ \A i \in 1..Len(lines) : Whole(lines[i]) <=> i <= f
  BY <1>1, LastLine DEF Pends
<1>3. r = [i \in 1..(f + n) |-> IF i <= f THEN lines[i] ELSE Cut(unwritten[i - f], "whole")]
  BY <1>1 DEF AllWritten
<1>4. Len(r) = f + n /\ f + n \in Nat
  BY <1>2, <1>3
<1>5. \A i \in 1..f : i \in 1..Len(lines) /\ r[i] = lines[i] /\ Whole(r[i])
  BY <1>2, <1>3
<1>6. ASSUME NEW i \in 1..n
      PROVE  /\ f + i \in 1..(f + n) /\ r[f + i].push = unwritten[i].push /\ Whole(r[f + i])
  <2>1. f + i \in 1..(f + n) /\ ~(f + i <= f) /\ (f + i) - f = i
    BY <1>2
  <2>2. r[f + i] = Cut(unwritten[i], "whole")
    BY <1>3, <2>1
  <2> QED  BY <2>1, <2>2 DEF Cut, Whole
<1>7. \A i \in 1..(f + n) : i \in 1..f \/ (i - f \in 1..n /\ f + (i - f) = i)
  BY <1>2
<1>8. \A i \in 1..(f + n) : Whole(r[i])
  <2>1. ASSUME NEW i \in 1..(f + n) PROVE Whole(r[i])
    <3>1. CASE i \in 1..f
      BY <1>5, <3>1
    <3>2. CASE i - f \in 1..n /\ f + (i - f) = i
      BY <1>6, <3>2
    <3> QED  BY <1>7, <3>1, <3>2
  <2> QED  BY <2>1
<1>9. Grows(lines, r)
  <2>1. Len(lines) <= f + n
    <3>1. CASE Unfinished(lines)
      <4>1. unwritten # <<>>
        BY <3>1 DEF Pends
      <4>2. n >= 1 /\ f = Len(lines) - 1
        BY <1>1, <1>2, <3>1, <4>1, EmptySeq DEF Finished, Pends
      <4> QED  BY <1>2, <4>2
    <3>2. CASE ~Unfinished(lines)
      BY <1>1, <1>2, <3>2 DEF Finished
    <3> QED  BY <3>1, <3>2
  <2>2. ASSUME NEW i \in 1..Len(lines), Whole(lines[i]) PROVE r[i] = lines[i]
    BY <1>2, <1>5, <2>2
  <2> QED  BY <1>4, <2>1, <2>2 DEF Grows
<1>10. ASSUME NEW i \in 1..(f + n) PROVE r[i].push <= top
  <2>1. CASE i \in 1..f
    BY <1>5, <2>1 DEF FileFits
  <2>2. CASE i - f \in 1..n /\ f + (i - f) = i
    <3>1. r[f + (i - f)].push = unwritten[i - f].push /\ unwritten[i - f].push <= top
      BY <1>1, <1>6, <2>2 DEF Pends
    <3> QED  BY <2>2, <3>1
  <2> QED  BY <1>7, <2>1, <2>2
<1>11. ASSUME NEW i \in 1..(f + n), NEW j \in 1..(f + n), i < j PROVE r[i].push < r[j].push
  <2>1. CASE j \in 1..f
    <3>1. i \in 1..f
      BY <1>2, <1>11, <2>1
    <3> QED  BY <1>5, <1>11, <2>1, <3>1 DEF FileFits
  <2>2. CASE j - f \in 1..n /\ f + (j - f) = j
    <3>1. r[j].push = unwritten[j - f].push
      <4>1. r[f + (j - f)].push = unwritten[j - f].push
        BY <1>6, <2>2
      <4> QED  BY <2>2, <4>1
    <3>2. CASE i \in 1..f
      <4>1. r[i] = lines[i] /\ lines[i].push < unwritten[j - f].push
        BY <1>1, <1>5, <2>2, <3>2 DEF Pends
      <4> QED  BY <3>1, <4>1
    <3>3. CASE i - f \in 1..n /\ f + (i - f) = i
      <4>1. r[f + (i - f)].push = unwritten[i - f].push
        BY <1>6, <3>3
      <4>2. i - f < j - f
        BY <1>2, <1>11
      <4>3. unwritten[i - f].push < unwritten[j - f].push
        BY <1>1, <2>2, <3>3, <4>2 DEF Pends
      <4> QED  BY <3>1, <3>3, <4>1, <4>3
    <3> QED  BY <1>7, <3>2, <3>3
  <2> QED  BY <1>7, <2>1, <2>2
<1>12. FileFits(r, top)
  <2>1. \A i \in 1..(Len(r) - 1) : i \in 1..(f + n)
    BY <1>4
  <2> QED  BY <1>4, <1>8, <1>10, <1>11, <2>1 DEF FileFits
<1> QED  BY <1>1, <1>4, <1>6, <1>8, <1>9, <1>12

\* A write that is done.
LEMMA WrittenFits ==
    ASSUME NEW unwritten, NEW top, FileFits(file, top), Pends(file, unwritten, top), NEW r,
           r = Flushed(unwritten)
    PROVE  /\ FileFits(r, top) /\ Grows(file, r) /\ r \in Seq(Line)
           /\ \A i \in 1..Len(r) : Whole(r[i])
           /\ ~Unfinished(r) /\ Pends(r, <<>>, top)
           /\ unwritten # <<>> => \E i \in 1..Len(r) : r[i].push = Last(unwritten).push
<1>1. /\ file \in Seq(Line) /\ unwritten \in Seq(Entries)
      /\ Unfinished(file) => unwritten # <<>> /\ unwritten[1].push = file[Len(file)].push
  BY DEF FileFits, Pends
<1>2. r = AllWritten(file, unwritten) /\ r \in Seq(Line)
  BY <1>1, FlushedIs
<1>3. /\ FileFits(r, top) /\ Grows(file, r)
      /\ Len(r) = Finished(file) + Len(unwritten)
      /\ \A i \in 1..Len(r) : Whole(r[i])
      /\ \A i \in 1..Len(unwritten) : r[Finished(file) + i].push = unwritten[i].push
  BY <1>2, AllWrittenFits
<1>4. ~Unfinished(r)
  BY <1>3, LastLine
<1>5. Pends(r, <<>>, top)
  BY <1>4, EmptySeq DEF Pends
<1>6. ASSUME unwritten # <<>> PROVE \E i \in 1..Len(r) : r[i].push = Last(unwritten).push
  <2>1. Len(unwritten) \in Nat \ {0} /\ Finished(file) \in Nat
    BY <1>1, <1>6, EmptySeq, LastLine
  <2>2. Len(unwritten) \in 1..Len(unwritten) /\ Finished(file) + Len(unwritten) \in 1..Len(r)
    BY <1>3, <2>1
  <2> QED  BY <1>3, <2>2 DEF Last
<1> QED  BY <1>2, <1>3, <1>4, <1>5, <1>6

LEMMA NothingFlushed == Flushed(<<>>) = file
<1>1. PICK g : g = [i \in 0..0 |-> file]
  OBVIOUS
<1>2. Len(<<>>) = 0
  OBVIOUS
<1>3. FlushedRec(g, <<>>)
  <2>1. ASSUME NEW i \in 0..0
        PROVE  g[i] = IF i = 0 THEN file ELSE Complete(g[i - 1], <<>>[i])
    BY <1>1
  <2>2. g = [i \in 0..0 |-> g[i]]
    BY <1>1
  <2>3. g = [i \in 0..0 |-> IF i = 0 THEN file ELSE Complete(g[i - 1], <<>>[i])]
    BY <2>1, <2>2
  <2> QED  BY <1>2, <2>3 DEF FlushedRec
<1>4. PICK h : h = CHOOSE way : FlushedRec(way, <<>>)
  OBVIOUS
<1>5. FlushedRec(h, <<>>)
  BY <1>3, <1>4
<1>6. h[0] = file
  BY <1>2, <1>5 DEF FlushedRec
<1>7. Flushed(<<>>) = h[0]
  BY <1>2, <1>4 DEF Flushed, FlushedRec
<1> QED  BY <1>6, <1>7

\* What one write leaves for the next.
LEMMA RestPends ==
    ASSUME NEW unwritten, NEW top, FileFits(file, top), Pends(file, unwritten, top),
           NEW n \in 0..(Len(unwritten) - 1), NEW lines, NEW rest,
           lines = Flushed(SubSeq(unwritten, 1, n)), rest = SubSeq(unwritten, n + 1, Len(unwritten))
    PROVE  /\ FileFits(lines, top) /\ Grows(file, lines) /\ Pends(lines, rest, top)
           /\ rest # <<>> /\ rest[1] = unwritten[n + 1]
<1>1. PICK first, m : first = SubSeq(unwritten, 1, n) /\ m = Len(unwritten)
  OBVIOUS
<1>2. /\ unwritten \in Seq(Entries) /\ m \in Nat /\ n \in Nat /\ n + 1 <= m
      /\ Len(file) \in Nat /\ file \in Seq(Line)
  BY <1>1 DEF Pends, FileFits
<1>3. /\ first \in Seq(Entries) /\ Len(first) = n
      /\ \A i \in 1..n : first[i] = unwritten[i] /\ i \in 1..m
  BY <1>1, <1>2, SubSeqProperties
<1>4. /\ rest \in Seq(Entries) /\ Len(rest) = m - n
      /\ \A i \in 1..(m - n) : rest[i] = unwritten[n + i] /\ n + i \in 1..m
  BY <1>1, <1>2, SubSeqProperties
<1>5. rest # <<>> /\ rest[1] = unwritten[n + 1]
  <2>1. 1 \in 1..(m - n) /\ Len(rest) # 0
    BY <1>2, <1>4
  <2> QED  BY <1>4, <2>1
<1>6. /\ \A i, j \in 1..(m - n) : i < j => rest[i].push < rest[j].push
      /\ \A i \in 1..(m - n) : rest[i].push <= top
  <2>1. ASSUME NEW i \in 1..(m - n), NEW j \in 1..(m - n), i < j
        PROVE  rest[i].push < rest[j].push
    <3>1. n + i < n + j
      BY <1>2, <2>1
    <3> QED  BY <1>1, <1>4, <3>1 DEF Pends
  <2>2. ASSUME NEW i \in 1..(m - n) PROVE rest[i].push <= top
    BY <1>1, <1>4 DEF Pends
  <2> QED  BY <2>1, <2>2
<1>7. CASE n = 0
  <2>1. first = <<>>
    BY <1>3, <1>7, EmptySeq
  <2>2. lines = file
    BY <1>1, <2>1, NothingFlushed
  <2>3. rest = unwritten
    BY <1>1, <1>2, <1>7, SubSeqFull
  <2>4. Grows(file, file)
    BY <1>2 DEF Grows
  <2> QED  BY <1>5, <2>2, <2>3, <2>4
<1>8. CASE n # 0
  <2>1. Pends(file, first, top)
    <3>1. ASSUME NEW i \in 1..n, NEW j \in 1..n, i < j PROVE first[i].push < first[j].push
      BY <1>1, <1>3, <3>1 DEF Pends
    <3>2. ASSUME NEW i \in 1..n PROVE first[i].push <= top
      BY <1>1, <1>3 DEF Pends
    <3>3. ASSUME NEW i \in 1..Finished(file), NEW j \in 1..n
          PROVE  file[i].push < first[j].push
      BY <1>1, <1>3 DEF Pends
    <3>4. first # <<>> /\ first[1] = unwritten[1]
      BY <1>2, <1>3, <1>8
    <3> QED  BY <1>3, <3>1, <3>2, <3>3, <3>4 DEF Pends
  <2>2. /\ FileFits(lines, top) /\ Grows(file, lines) /\ lines \in Seq(Line)
        /\ ~Unfinished(lines)
    BY <1>1, <2>1, WrittenFits
  <2>3. lines = AllWritten(file, first)
    BY <1>1, <1>2, <1>3, <2>1, FlushedIs DEF Pends
  <2>4. /\ Len(lines) = Finished(file) + n
        /\ \A i \in 1..n : lines[Finished(file) + i].push = first[i].push
    BY <1>3, <2>1, <2>2, <2>3, AllWrittenFits
  <2>5. PICK f : f = Finished(file)
    OBVIOUS
  <2>6. f \in Nat /\ f <= Len(file)
    BY <2>5, LastLine
  <2>7. Finished(lines) = f + n
    BY <2>2, <2>4, <2>5 DEF Finished
  <2>8. f + n \in 1..(f + n) /\ lines[f + n].push = unwritten[n].push /\ n \in 1..m
    <3>1. n \in 1..n
      BY <1>2, <1>8
    <3>2. lines[f + n].push = first[n].push
      BY <2>4, <2>5, <3>1
    <3> QED  BY <1>2, <1>3, <2>6, <3>1, <3>2
  <2>9. ASSUME NEW i \in 1..(f + n), NEW j \in 1..(m - n)
        PROVE  lines[i].push < rest[j].push
    <3>1. lines[i].push <= lines[f + n].push
      <4>1. CASE i = f + n
        <5>1. lines[i] \in Line
          BY <2>2, <2>4, <2>5
        <5>2. lines[i].push \in Nat
          BY <5>1 DEF Line
        <5> QED  BY <4>1, <5>2
      <4>2. CASE i # f + n
        <5>1. i < f + n /\ i \in 1..Len(lines) /\ f + n \in 1..Len(lines)
          BY <1>2, <2>4, <2>5, <2>6, <2>8, <4>2
        <5>2. lines[i] \in Line /\ lines[f + n] \in Line
          BY <2>2, <5>1
        <5>3. lines[i].push < lines[f + n].push
          BY <2>2, <5>1 DEF FileFits
        <5> QED  BY <5>2, <5>3 DEF Line
      <4> QED  BY <4>1, <4>2
    <3>2. unwritten[n].push < rest[j].push
      <4>1. n < n + j /\ n + j \in 1..m
        BY <1>2, <1>4
      <4>2. unwritten[n].push < unwritten[n + j].push
        BY <1>1, <2>8, <4>1 DEF Pends
      <4> QED  BY <1>4, <4>2
    <3>3. lines[i].push \in Nat /\ unwritten[n].push \in Nat /\ rest[j].push \in Nat
      <4>1. i \in 1..Len(lines) /\ n \in 1..m /\ j \in 1..Len(rest)
        BY <1>4, <2>4, <2>5, <2>8
      <4>2. lines[i] \in Line /\ unwritten[n] \in Entries /\ rest[j] \in Entries
        BY <1>1, <1>2, <1>4, <2>2, <4>1
      <4> QED  BY <4>2 DEF Line, Entries
    <3>4. PICK x, y, z : x = lines[i].push /\ y = unwritten[n].push /\ z = rest[j].push
      OBVIOUS
    <3>5. x <= y /\ y < z /\ x \in Nat /\ y \in Nat /\ z \in Nat
      BY <2>8, <3>1, <3>2, <3>3, <3>4
    <3>6. x < z
      BY <3>5
    <3> QED  BY <3>4, <3>6
  <2>10. Pends(lines, rest, top)
    BY <1>4, <1>6, <2>2, <2>7, <2>9 DEF Pends
  <2> QED  BY <1>5, <2>2, <2>10
<1> QED  BY <1>2, <1>7, <1>8

\* A record that was only begun.
LEMMA BegunFits ==
    ASSUME NEW lines, NEW rest, NEW top, FileFits(lines, top), Pends(lines, rest, top),
           rest # <<>>, NEW new \in Begun(lines, rest[1])
    PROVE  FileFits(new, top) /\ Grows(lines, new) /\ Pends(new, rest, top)
<1>1. PICK p, f : p = rest[1] /\ f = Finished(lines)
  OBVIOUS
<1>2. /\ Len(rest) \in Nat \ {0} /\ p \in Entries /\ p.push <= top
      /\ rest \in Seq(Entries) /\ lines \in Seq(Line)
      /\ Len(lines) \in Nat /\ f \in 0..Len(lines)
      /\ \A i \in 1..Len(lines) : Whole(lines[i]) <=> i <= f
  <2>1. Len(rest) \in Nat \ {0} /\ 1 \in 1..Len(rest)
    BY EmptySeq DEF Pends
  <2>2. rest \in Seq(Entries) /\ rest[1].push <= top /\ lines \in Seq(Line)
    BY <2>1 DEF Pends, FileFits
  <2>3. rest[1] \in Entries
    BY <2>1, <2>2
  <2> QED  BY <1>1, <2>1, <2>2, <2>3, LastLine
<1>3. CASE new = lines
  BY <1>2, <1>3 DEF Grows
<1>4. CASE new # lines
  <2>1. PICK end, line :
             /\ end \in {"torn", "unterminated"} /\ line = Cut(p, end)
             /\ new \in Seq(Line) /\ Len(new) = f + 1
             /\ new[f + 1] = line /\ \A i \in 1..f : new[i] = lines[i]
             /\ Len(lines) <= f + 1
    <3>1. CASE ~Unfinished(lines)
      <4>1. PICK end \in {"torn", "unterminated"} : new = Append(lines, Cut(p, end))
        BY <1>1, <1>4, <3>1 DEF Begun
      <4>2. Cut(p, end) \in Line /\ f = Len(lines)
        BY <1>1, <1>2, <3>1 DEF Cut, Line, Entries, Finished
      <4> QED  BY <1>2, <4>1, <4>2
    <3>2. CASE Unfinished(lines)
      <4>1. new = Append(Front(lines), Cut(p, "unterminated"))
        BY <1>1, <1>4, <3>2 DEF Begun
      <4>2. /\ Cut(p, "unterminated") \in Line /\ f = Len(lines) - 1
        BY <1>1, <1>2, <3>2 DEF Cut, Line, Entries, Finished
      <4>3. PICK front : front = Front(lines)
        OBVIOUS
      <4>4. front \in Seq(Line) /\ Len(front) = f /\ \A i \in 1..f : front[i] = lines[i]
        BY <1>2, <4>2, <4>3, SubSeqProperties DEF Front
      <4> QED  BY <1>2, <4>1, <4>2, <4>3, <4>4
    <3> QED  BY <3>1, <3>2
  <2>2. line.push = p.push /\ line.end = end /\ ~Whole(line)
    BY <2>1 DEF Cut, Whole
  <2>3. Unfinished(new) /\ Finished(new) = f
    BY <1>2, <2>1, <2>2 DEF Unfinished, Last, Finished
  <2>4. \A i \in 1..f : i \in 1..Len(lines) /\ lines[i].push < p.push
    BY <1>1, <1>2 DEF Pends
  <2>5. FileFits(new, top)
    <3>1. ASSUME NEW i \in 1..(Len(new) - 1) PROVE Whole(new[i])
      <4>1. i \in 1..f
        BY <1>2, <2>1
      <4> QED  BY <1>2, <2>1, <2>4, <4>1
    <3>2. ASSUME NEW i \in 1..Len(new), NEW j \in 1..Len(new), i < j
          PROVE  new[i].push < new[j].push
      <4>1. i \in 1..f /\ (j \in 1..f \/ j = f + 1)
        BY <1>2, <2>1, <3>2
      <4>2. CASE j \in 1..f
        BY <2>1, <2>4, <3>2, <4>1, <4>2 DEF FileFits
      <4>3. CASE j = f + 1
        BY <2>1, <2>2, <2>4, <4>1, <4>3
      <4> QED  BY <4>1, <4>2, <4>3
    <3>3. ASSUME NEW i \in 1..Len(new) PROVE new[i].push <= top
      <4>1. CASE i \in 1..f
        BY <2>1, <2>4, <4>1 DEF FileFits
      <4>2. CASE i = f + 1
        BY <1>2, <2>1, <2>2, <4>2
      <4> QED  BY <1>2, <2>1, <4>1, <4>2
    <3> QED  BY <2>1, <3>1, <3>2, <3>3 DEF FileFits
  <2>6. Grows(lines, new)
    <3>1. ASSUME NEW i \in 1..Len(lines), Whole(lines[i]) PROVE new[i] = lines[i]
      <4>1. i \in 1..f
        BY <1>2, <3>1
      <4> QED  BY <2>1, <4>1
    <3> QED  BY <2>1, <3>1 DEF Grows
  <2>7. Pends(new, rest, top)
    <3>1. ASSUME NEW i \in 1..f, NEW j \in 1..Len(rest) PROVE new[i].push < rest[j].push
      BY <1>1, <2>1 DEF Pends
    <3> QED  BY <1>1, <2>1, <2>2, <2>3, <3>1 DEF Pends
  <2> QED  BY <2>5, <2>6, <2>7
<1> QED  BY <1>3, <1>4

LEMMA GrowsOn ==
    ASSUME NEW a \in Seq(Line), NEW b \in Seq(Line), NEW c \in Seq(Line), Grows(a, b), Grows(b, c)
    PROVE  Grows(a, c)
<1>1. Len(a) <= Len(b) /\ Len(b) <= Len(c) /\ Len(a) \in Nat /\ Len(b) \in Nat /\ Len(c) \in Nat
  BY DEF Grows
<1>2. ASSUME NEW i \in 1..Len(a), Whole(a[i]) PROVE c[i] = a[i]
  <2>1. i \in 1..Len(b) /\ b[i] = a[i]
    BY <1>1, <1>2 DEF Grows
  <2> QED  BY <1>2, <2>1 DEF Grows
<1> QED  BY <1>1, <1>2 DEF Grows

\* A write that fails.
LEMMA FailFits ==
    ASSUME NEW unwritten, NEW top, FileFits(file, top), Pends(file, unwritten, top),
           WriteFails(unwritten)
    PROVE  FileFits(file', top) /\ Grows(file, file') /\ Pends(file', buffer', top)
<1>1. PICK n \in 0..(Len(unwritten) - 1) :
           /\ file' \in Begun(Flushed(SubSeq(unwritten, 1, n)), unwritten[n + 1])
           /\ buffer' = SubSeq(unwritten, n + 1, Len(unwritten))
  BY DEF WriteFails
<1>2. PICK lines, rest, new : /\ lines = Flushed(SubSeq(unwritten, 1, n))
                              /\ rest = buffer' /\ new = file'
  OBVIOUS
<1>3. /\ FileFits(lines, top) /\ Grows(file, lines) /\ Pends(lines, rest, top)
      /\ rest # <<>> /\ rest[1] = unwritten[n + 1]
  BY <1>1, <1>2, RestPends
<1>4. FileFits(new, top) /\ Grows(lines, new) /\ Pends(new, rest, top)
  BY <1>1, <1>2, <1>3, BegunFits
<1>5. Grows(file, new)
  BY <1>3, <1>4, GrowsOn DEF FileFits
<1> QED  BY <1>2, <1>4, <1>5

\* A write that returns is remembered.
LEMMA WriteRemembered ==
    ASSUME NEW unwritten, NEW top, FileFits(file, top), Pends(file, unwritten, top),
           unwritten # <<>>,
           NEW r, r = Flushed(unwritten), Remembered(file, acked, synced), synced \in Nat,
           NEW covered, covered = IF fsync THEN Len(r) ELSE synced
    PROVE  Remembered(r, acked \cup {Last(unwritten).push}, covered)
<1>1. /\ Grows(file, r) /\ r \in Seq(Line) /\ \A i \in 1..Len(r) : Whole(r[i])
  BY WrittenFits
<1>2. PICK k \in 1..Len(r) : r[k].push = Last(unwritten).push
  BY WrittenFits
<1>3. Remembered(r, acked, synced)
  BY <1>1, RememberedStays
<1>4. covered \in 0..Len(r) /\ (fsync => covered = Len(r)) /\ (~fsync => covered = synced)
  BY <1>1, <1>3 DEF Remembered
<1>5. \A i \in 1..covered : Whole(r[i])
  <2>1. Len(r) \in Nat
    BY <1>1
  <2> QED  BY <1>1, <1>4, <2>1
<1>6. ASSUME fsync, NEW p \in acked \cup {Last(unwritten).push}
      PROVE  \E i \in 1..covered : r[i].push = p
  <2>1. CASE p \in acked
    <3>1. PICK i \in 1..synced : r[i].push = p
      BY <1>3, <1>6, <2>1 DEF Remembered
    <3>2. synced \in 0..Len(r) /\ Len(r) \in Nat
      BY <1>1, <1>3 DEF Remembered
    <3> QED  BY <1>4, <1>6, <3>1, <3>2
  <2>2. CASE p = Last(unwritten).push
    BY <1>2, <1>4, <1>6, <2>2
  <2> QED  BY <1>6, <2>1, <2>2
<1>7. ASSUME ~outage, NEW p \in acked \cup {Last(unwritten).push}
      PROVE  \E i \in 1..Len(r) : r[i].push = p /\ Whole(r[i])
  <2>1. CASE p \in acked
    BY <1>3, <1>7, <2>1 DEF Remembered
  <2>2. CASE p = Last(unwritten).push
    BY <1>1, <1>2, <2>2
  <2> QED  BY <1>7, <2>1, <2>2
<1> QED  BY <1>4, <1>5, <1>6, <1>7 DEF Remembered

\* A selection adds a record to those that are pending.
LEMMA SelectPends ==
    ASSUME LogInv, sink = "open", NEW rec \in Record, NEW top, top = pushes + 1,
           NEW unwritten, unwritten = Append(buffer, [push |-> top, record |-> rec])
    PROVE  /\ FileFits(file, top) /\ Pends(file, unwritten, top) /\ unwritten # <<>>
<1>1. PICK p, n : p = [push |-> top, record |-> rec] /\ n = Len(buffer)
  OBVIOUS
<1>2. /\ pushes \in Nat /\ FileFits(file, pushes) /\ Pends(file, buffer, pushes)
  BY DEF LogInv
<1>3. /\ p \in Entries /\ p.push = top /\ top \in Nat /\ buffer \in Seq(Entries) /\ n \in Nat
  BY <1>1, <1>2 DEF Entries, Pends
<1>4. /\ unwritten \in Seq(Entries) /\ Len(unwritten) = n + 1 /\ unwritten[n + 1] = p
      /\ \A i \in 1..n : unwritten[i] = buffer[i] /\ buffer[i] \in Entries
  BY <1>1, <1>3
<1>5. /\ \A i \in 1..n : unwritten[i].push < top /\ unwritten[i].push \in Nat
      /\ unwritten[n + 1].push = top
  <2>1. ASSUME NEW i \in 1..n PROVE unwritten[i].push < top /\ unwritten[i].push \in Nat
    <3>1. buffer[i].push <= pushes /\ buffer[i].push \in Nat
      BY <1>1, <1>2, <1>4 DEF Pends, Entries
    <3>2. PICK x : x = buffer[i].push
      OBVIOUS
    <3>3. x < top /\ x \in Nat
      BY <1>2, <3>1, <3>2
    <3>4. unwritten[i].push = x
      BY <1>4, <3>2
    <3> QED  BY <3>3, <3>4
  <2>2. unwritten[n + 1].push = top
    BY <1>3, <1>4
  <2> QED  BY <2>1, <2>2
<1>6. \A i \in 1..Len(file) : file[i].push < top /\ file[i].push <= top
  <2>1. ASSUME NEW i \in 1..Len(file) PROVE file[i].push < top /\ file[i].push <= top
    <3>1. file[i].push <= pushes /\ file[i] \in Line
      BY <1>2 DEF FileFits
    <3>2. file[i].push \in Nat
      BY <3>1 DEF Line
    <3> QED  BY <1>2, <3>1, <3>2
  <2> QED  BY <2>1
<1>7. FileFits(file, top)
  BY <1>2, <1>6 DEF FileFits
<1>9. \A i \in 1..(n + 1) : i \in 1..n \/ i = n + 1
  BY <1>3
<1>10. \A i, j \in 1..(n + 1) : i < j => i \in 1..n
  BY <1>3
<1>8. Pends(file, unwritten, top)
  <2>1. ASSUME NEW i \in 1..(n + 1), NEW j \in 1..(n + 1), i < j
        PROVE  unwritten[i].push < unwritten[j].push
    <3>1. i \in 1..n
      BY <1>10, <2>1
    <3>2. CASE j \in 1..n
      BY <1>1, <1>2, <1>4, <2>1, <3>1, <3>2 DEF Pends
    <3>3. CASE j = n + 1
      <4>1. unwritten[j].push = top
        BY <1>5, <3>3
      <4>2. unwritten[i].push < top
        BY <1>5, <3>1
      <4> QED  BY <4>1, <4>2
    <3> QED  BY <1>9, <3>2, <3>3
  <2>2. ASSUME NEW i \in 1..(n + 1) PROVE unwritten[i].push <= top
    <3>1. CASE i \in 1..n
      BY <1>3, <1>5, <3>1
    <3>2. CASE i = n + 1
      <4>1. unwritten[i].push = top
        BY <1>5, <3>2
      <4>2. top <= top
        BY <1>3
      <4> QED  BY <4>1, <4>2
    <3> QED  BY <1>9, <3>1, <3>2
  <2>3. ASSUME NEW i \in 1..Finished(file), NEW j \in 1..(n + 1)
        PROVE  file[i].push < unwritten[j].push
    <3>1. i \in 1..Len(file)
      <4>1. Finished(file) \in 0..Len(file) /\ Len(file) \in Nat
        BY <1>2, LastLine
      <4> QED  BY <4>1
    <3>2. CASE j \in 1..n
      BY <1>1, <1>2, <1>4, <3>2 DEF Pends
    <3>3. CASE j = n + 1
      <4>1. unwritten[j].push = top
        BY <1>5, <3>3
      <4>2. file[i].push < top
        BY <1>6, <3>1
      <4> QED  BY <4>1, <4>2
    <3> QED  BY <1>9, <3>2, <3>3
  <2>4. ASSUME Unfinished(file)
        PROVE  unwritten # <<>> /\ unwritten[1].push = file[Len(file)].push
    <3>1. buffer # <<>> /\ buffer[1].push = file[Len(file)].push
      BY <1>2, <2>4 DEF Pends
    <3>2. n # 0
      BY <1>1, <1>3, <3>1, EmptySeq
    <3> QED  BY <1>3, <1>4, <3>1, <3>2
  <2> QED  BY <1>4, <2>1, <2>2, <2>3, <2>4, ZenonT(40) DEF Pends
<1> QED  BY <1>3, <1>4, <1>7, <1>8

LEMMA SelectKeepsLog ==
    ASSUME LogInv, NEW rec \in Record, Select(rec)
    PROVE  LogInv'
<1>1. PICK top, unwritten :
            /\ top = pushes + 1 /\ pushes' = top
            /\ unwritten = Append(buffer, [push |-> top, record |-> rec])
            /\ Write(unwritten)
  BY DEF Select
<1>2. /\ sink = "open" /\ UNCHANGED <<sink, fsync, outage>>
      /\ pushes \in Nat /\ fsync \in BOOLEAN /\ outage \in BOOLEAN
      /\ Remembered(file, acked, synced) /\ file \in Seq(Line)
  BY DEF Select, LogInv, FileFits
<1>3. FileFits(file, top) /\ Pends(file, unwritten, top) /\ unwritten # <<>> /\ top \in Nat
  <2>1. FileFits(file, top) /\ Pends(file, unwritten, top) /\ unwritten # <<>>
    BY <1>1, <1>2, SelectPends
  <2> QED  BY <1>1, <1>2, <2>1
<1>4. PICK r : r = Flushed(unwritten)
  OBVIOUS
<1>5. /\ FileFits(r, top) /\ Grows(file, r) /\ r \in Seq(Line) /\ Pends(r, <<>>, top)
  BY <1>3, <1>4, WrittenFits
<1>6. CASE /\ Written(unwritten)
           /\ synced' = IF fsync THEN Len(file') ELSE synced
           /\ acked' = acked \cup {Last(unwritten).push}
  <2>1. file' = r /\ buffer' = <<>>
    BY <1>4, <1>6 DEF Written
  <2>2. synced \in Nat
    BY <1>2 DEF Remembered
  <2>3. Remembered(r, acked', synced')
    BY <1>2, <1>3, <1>4, <1>6, <2>1, <2>2, WriteRemembered
  <2>4. Remembered(file, acked, synced)'
    BY <1>2, <2>1, <2>3 DEF Remembered
  <2>5. FileFits(file, pushes)' /\ Pends(file, buffer, pushes)'
    BY <1>1, <1>5, <2>1
  <2> QED  BY <1>1, <1>2, <1>3, <2>4, <2>5 DEF LogInv
<1>7. CASE Written(unwritten) /\ UNCHANGED <<synced, acked>>
  <2>1. file' = r /\ buffer' = <<>>
    BY <1>4, <1>7 DEF Written
  <2>2. Remembered(r, acked, synced)
    BY <1>2, <1>3, <1>5, RememberedStays
  <2>3. Remembered(file, acked, synced)'
    BY <1>2, <1>7, <2>1, <2>2 DEF Remembered
  <2>4. FileFits(file, pushes)' /\ Pends(file, buffer, pushes)'
    BY <1>1, <1>5, <2>1
  <2> QED  BY <1>1, <1>2, <1>3, <2>3, <2>4 DEF LogInv
<1>8. CASE WriteFails(unwritten) /\ UNCHANGED <<synced, acked>>
  <2>1. FileFits(file', top) /\ Grows(file, file') /\ Pends(file', buffer', top)
    BY <1>3, <1>8, FailFits
  <2>2. PICK new : new = file'
    OBVIOUS
  <2>3. Remembered(new, acked, synced)
    BY <1>2, <1>3, <2>1, <2>2, RememberedStays DEF FileFits
  <2>4. Remembered(file, acked, synced)'
    BY <1>2, <1>8, <2>2, <2>3 DEF Remembered
  <2>5. FileFits(file, pushes)' /\ Pends(file, buffer, pushes)'
    BY <1>1, <2>1
  <2> QED  BY <1>1, <1>2, <1>3, <2>4, <2>5 DEF LogInv
<1> QED  BY <1>1, <1>6, <1>7, <1>8 DEF Write

\* The start of a file.
LEMMA StartFits ==
    ASSUME NEW lines, NEW top, FileFits(lines, top), NEW n \in 0..Len(lines), NEW r,
           r = SubSeq(lines, 1, n)
    PROVE  /\ FileFits(r, top) /\ Len(r) = n
           /\ \A i \in 1..n : r[i] = lines[i]
<1>1. lines \in Seq(Line) /\ Len(lines) \in Nat /\ n \in Nat /\ n <= Len(lines)
  BY DEF FileFits
<1>2. /\ r \in Seq(Line) /\ Len(r) = n
      /\ \A i \in 1..n : r[i] = lines[i] /\ i \in 1..Len(lines)
  BY <1>1, SubSeqProperties
<1>3. \A i \in 1..(n - 1) : i \in 1..n /\ i \in 1..(Len(lines) - 1)
  BY <1>1
<1> QED  BY <1>1, <1>2, <1>3 DEF FileFits

LEMMA SmallerOfTwo ==
    ASSUME NEW a \in Int, NEW b \in Int, a <= b
    PROVE  Min({a, b}) = a
<1>1. a \in {a, b} /\ \A y \in {a, b} : a <= y
  OBVIOUS
<1>2. \A x \in {a, b} : (\A y \in {a, b} : x <= y) => x = a
  OBVIOUS
<1>3. PICK m : m = CHOOSE x \in {a, b} : \A y \in {a, b} : x <= y
  OBVIOUS
<1>4. m \in {a, b} /\ \A y \in {a, b} : m <= y
  BY <1>1, <1>3
<1>5. m = a
  BY <1>2, <1>4
<1> QED  BY <1>3, <1>5 DEF Min

\* Power fails: what fsync covered stays, and of the rest what happens to.
LEMMA OutageKeepsLog ==
    ASSUME LogInv, Outage
    PROVE  LogInv'
<1>1. PICK n \in Min({synced, Len(file)})..Len(file) :
           \/ file' = SubSeq(file, 1, n)
           \/ /\ n < Len(file)
              /\ file' = Append(SubSeq(file, 1, n), Cut(file[n + 1], "torn"))
  BY DEF Outage
<1>2. /\ sink' = "down" /\ buffer' = <<>> /\ outage' = TRUE
      /\ UNCHANGED <<pushes, acked, synced, fsync>>
      /\ pushes \in Nat /\ fsync \in BOOLEAN /\ FileFits(file, pushes)
      /\ file \in Seq(Line) /\ Len(file) \in Nat /\ Remembered(file, acked, synced)
  BY DEF Outage, LogInv, FileFits
<1>3. synced \in 0..Len(file) /\ \A i \in 1..synced : Whole(file[i])
  BY <1>2 DEF Remembered
<1>4. Min({synced, Len(file)}) = synced
  BY <1>2, <1>3, SmallerOfTwo
<1>5. n \in 0..Len(file) /\ synced <= n /\ n \in Nat
  BY <1>1, <1>2, <1>3, <1>4
<1>6. PICK r : r = SubSeq(file, 1, n)
  OBVIOUS
<1>7. /\ FileFits(r, pushes) /\ Len(r) = n /\ r \in Seq(Line)
      /\ \A i \in 1..n : r[i] = file[i]
  BY <1>2, <1>5, <1>6, StartFits DEF FileFits
<1>8. PICK new : new = file'
  OBVIOUS
<1>9. /\ FileFits(new, pushes) /\ n <= Len(new) /\ Len(new) \in Nat
      /\ \A i \in 1..n : new[i] = file[i]
  <2>1. CASE new = r
    BY <1>5, <1>7, <2>1
  <2>2. CASE n < Len(file) /\ new = Append(r, Cut(file[n + 1], "torn"))
    <3>1. n + 1 \in 1..Len(file) /\ file[n + 1] \in Line
      BY <1>2, <1>5, <2>2
    <3>2. PICK line : line = Cut(file[n + 1], "torn")
      OBVIOUS
    <3>3. line \in Line /\ line.push = file[n + 1].push
      BY <3>1, <3>2 DEF Cut, Line
    <3>4. /\ new \in Seq(Line) /\ Len(new) = n + 1 /\ new[n + 1] = line
          /\ \A i \in 1..n : new[i] = file[i] /\ i \in 1..Len(file)
      BY <1>5, <1>7, <2>2, <3>2, <3>3
    <3>5. \A i \in 1..n : Whole(new[i])
      <4>1. ASSUME NEW i \in 1..n PROVE Whole(new[i])
        <5>1. i \in 1..(Len(file) - 1)
          BY <1>2, <1>5, <2>2
        <5> QED  BY <1>2, <3>4, <5>1 DEF FileFits
      <4> QED  BY <4>1
    <3>6. \A i \in 1..(n + 1) : new[i].push = file[i].push /\ i \in 1..Len(file)
      <4>1. \A i \in 1..(n + 1) : i \in 1..n \/ i = n + 1
        BY <1>5
      <4> QED  BY <3>1, <3>3, <3>4, <4>1
    <3>7. \A i \in 1..(Len(new) - 1) : i \in 1..n
      BY <1>5, <3>4
    <3>8. FileFits(new, pushes)
      <4>1. \A i, j \in 1..Len(new) : i < j => new[i].push < new[j].push
        BY <1>2, <3>4, <3>6 DEF FileFits
      <4>2. \A i \in 1..Len(new) : new[i].push <= pushes
        BY <1>2, <3>4, <3>6 DEF FileFits
      <4> QED  BY <3>4, <3>5, <3>7, <4>1, <4>2 DEF FileFits
    <3> QED  BY <1>5, <3>4, <3>8
  <2> QED  BY <1>1, <1>6, <1>8, <2>1, <2>2
<1>10. Remembered(file, acked, synced)'
  <2>1. synced \in 0..Len(new)
    BY <1>3, <1>5, <1>9
  <2>2. \A i \in 1..synced : i \in 1..n /\ new[i] = file[i] /\ Whole(new[i])
    BY <1>3, <1>5, <1>9
  <2>3. ASSUME fsync, NEW p \in acked PROVE \E i \in 1..synced : new[i].push = p
    <3>1. PICK i \in 1..synced : file[i].push = p
      BY <1>2, <2>3 DEF Remembered
    <3> QED  BY <2>2, <3>1
  <2> QED  BY <1>2, <1>8, <2>1, <2>2, <2>3 DEF Remembered
<1>11. FileFits(file, pushes)'
  BY <1>2, <1>8, <1>9
<1> QED  BY <1>2, <1>10, <1>11 DEF LogInv

\* Recovery takes off an unfinished last line, and nothing else.
LEMMA RecoveredIs ==
    ASSUME NEW lines, NEW top, FileFits(lines, top)
    PROVE  Recovered(lines) = SubSeq(lines, 1, Finished(lines))
<1>1. /\ Len(lines) \in Nat /\ Finished(lines) \in 0..Len(lines) /\ lines \in Seq(Line)
      /\ \A i \in 1..Len(lines) : Whole(lines[i]) <=> i <= Finished(lines)
  BY LastLine DEF FileFits
<1>2. PICK bad : bad = {i \in 1..Len(lines) : ~Whole(lines[i])}
  OBVIOUS
<1>3. CASE Unfinished(lines)
  <2>1. Finished(lines) = Len(lines) - 1
    BY <1>3 DEF Finished
  <2>2. bad = {Len(lines)}
    BY <1>1, <1>2, <2>1
  <2>3. PICK m : m = CHOOSE x \in bad : \A y \in bad : x <= y
    OBVIOUS
  <2>4. m = Len(lines)
    <3>1. Len(lines) \in bad /\ \A y \in bad : Len(lines) <= y
      BY <1>1, <2>2
    <3>2. m \in bad
      BY <2>3, <3>1
    <3> QED  BY <2>2, <3>2
  <2>5. Min(bad) = Len(lines)
    BY <2>3, <2>4 DEF Min
  <2> QED  BY <1>2, <2>1, <2>2, <2>5, Zenon DEF Recovered
<1>4. CASE ~Unfinished(lines)
  <2>1. Finished(lines) = Len(lines)
    BY <1>4 DEF Finished
  <2>2. bad = {}
    BY <1>1, <1>2, <2>1
  <2> QED  BY <1>1, <1>2, <2>1, <2>2, SubSeqFull DEF Recovered
<1> QED  BY <1>3, <1>4

LEMMA ReopenKeepsLog ==
    ASSUME LogInv, Reopen
    PROVE  LogInv'
<1>1. /\ sink # "open" /\ sink' = "open" /\ file' = Recovered(file)
      /\ synced' = Min({synced, Len(file')})
      /\ UNCHANGED <<pushes, acked, buffer, fsync, outage>>
      /\ pushes \in Nat /\ fsync \in BOOLEAN /\ outage \in BOOLEAN /\ FileFits(file, pushes)
      /\ buffer = <<>> /\ Remembered(file, acked, synced)
  BY DEF Reopen, LogInv
<1>2. PICK f, r : f = Finished(file) /\ r = file'
  OBVIOUS
<1>3. /\ Len(file) \in Nat /\ f \in 0..Len(file)
      /\ \A i \in 1..Len(file) : Whole(file[i]) <=> i <= f
  BY <1>1, <1>2, LastLine
<1>4. r = SubSeq(file, 1, f)
  BY <1>1, <1>2, RecoveredIs
<1>5. FileFits(r, pushes) /\ Len(r) = f /\ \A i \in 1..f : r[i] = file[i]
  BY <1>1, <1>3, <1>4, StartFits
<1>6. \A i \in 1..f : i \in 1..Len(file) /\ Whole(r[i])
  BY <1>3, <1>5
<1>7. synced \in 0..Len(file) /\ \A i \in 1..synced : Whole(file[i])
  BY <1>1 DEF Remembered
<1>8. synced <= f
  <2>1. CASE synced = 0
    BY <1>3, <2>1
  <2>2. CASE synced # 0
    <3>1. synced \in 1..synced /\ synced \in 1..Len(file)
      BY <1>3, <1>7, <2>2
    <3> QED  BY <1>3, <1>7, <3>1
  <2> QED  BY <2>1, <2>2
<1>9. synced' = synced
  BY <1>1, <1>2, <1>3, <1>5, <1>7, <1>8, SmallerOfTwo
<1>10. ~Unfinished(r)
  <2>1. ASSUME Unfinished(r) PROVE FALSE
    <3>1. Len(r) > 0 /\ ~Whole(r[Len(r)])
      BY <1>5, <2>1, LastLine
    <3>2. Len(r) \in 1..f
      BY <1>3, <1>5, <3>1
    <3> QED  BY <1>6, <3>1, <3>2
  <2> QED  BY <2>1
<1>11. Pends(r, <<>>, pushes)
  BY <1>10, EmptySeq DEF Pends
<1>12. Remembered(file, acked, synced)'
  <2>1. synced \in 0..f /\ \A i \in 1..synced : i \in 1..f
    BY <1>3, <1>7, <1>8
  <2>2. ASSUME fsync, NEW p \in acked PROVE \E i \in 1..synced : r[i].push = p
    <3>1. PICK i \in 1..synced : file[i].push = p
      BY <1>1, <2>2 DEF Remembered
    <3> QED  BY <1>5, <2>1, <3>1
  <2>3. ASSUME ~outage, NEW p \in acked
        PROVE  \E i \in 1..f : r[i].push = p /\ Whole(r[i])
    <3>1. PICK i \in 1..Len(file) : file[i].push = p /\ Whole(file[i])
      BY <1>1, <2>3 DEF Remembered
    <3>2. i \in 1..f
      BY <1>3, <3>1
    <3> QED  BY <1>5, <1>6, <3>1, <3>2
  <2> QED  BY <1>1, <1>2, <1>5, <1>6, <1>9, <2>1, <2>2, <2>3 DEF Remembered
<1>13. FileFits(file, pushes)' /\ Pends(file, buffer, pushes)'
  BY <1>1, <1>2, <1>5, <1>11
<1> QED  BY <1>1, <1>12, <1>13 DEF LogInv

\* Close and read_all write what is pending, or fail in it.
LEMMA FlushKeepsLog ==
    ASSUME LogInv, Close \/ FlushFails \/ ReadAll
    PROVE  LogInv'
<1>1. /\ pushes \in Nat /\ fsync \in BOOLEAN /\ outage \in BOOLEAN
      /\ FileFits(file, pushes) /\ Remembered(file, acked, synced)
      /\ UNCHANGED <<pushes, acked, synced, fsync, outage>>
      /\ sink \in {"open", "closed", "down"}
  BY DEF LogInv, Close, FlushFails, ReadAll
<1>2. sink # "down" /\ Pends(file, buffer, pushes)
  <2>1. sink # "down"
    BY DEF Close, FlushFails, ReadAll
  <2>2. CASE sink = "open"
    BY <2>1, <2>2 DEF LogInv
  <2>3. CASE sink = "closed"
    <3>1. buffer = <<>> /\ ~Unfinished(file)
      BY <2>3 DEF LogInv
    <3> QED  BY <2>1, <3>1, EmptySeq DEF Pends
  <2> QED  BY <1>1, <2>1, <2>2, <2>3
<1>3. CASE Written(buffer) /\ sink' \in {sink, "closed"}
  <2>1. PICK r : r = Flushed(buffer)
    OBVIOUS
  <2>2. file' = r /\ buffer' = <<>>
    BY <1>3, <2>1 DEF Written
  <2>3. /\ FileFits(r, pushes) /\ Grows(file, r) /\ r \in Seq(Line)
        /\ ~Unfinished(r) /\ Pends(r, <<>>, pushes)
    BY <1>1, <1>2, <2>1, WrittenFits
  <2>4. Remembered(r, acked, synced)
    BY <1>1, <2>3, RememberedStays
  <2>5. Remembered(file, acked, synced)'
    BY <1>1, <2>2, <2>4 DEF Remembered
  <2>6. FileFits(file, pushes)' /\ Pends(file, buffer, pushes)' /\ ~Unfinished(file)'
    BY <1>1, <2>2, <2>3
  <2> QED  BY <1>1, <1>2, <1>3, <2>2, <2>5, <2>6 DEF LogInv
<1>4. CASE FlushFails
  <2>1. FileFits(file', pushes) /\ Grows(file, file') /\ Pends(file', buffer', pushes)
    BY <1>1, <1>2, <1>4, FailFits DEF FlushFails
  <2>2. sink = "open" /\ sink' = sink
    BY <1>4 DEF FlushFails
  <2>3. PICK new : new = file'
    OBVIOUS
  <2>4. Remembered(new, acked, synced)
    BY <1>1, <2>1, <2>3, RememberedStays DEF FileFits
  <2>5. Remembered(file, acked, synced)'
    BY <1>1, <2>3, <2>4 DEF Remembered
  <2>6. FileFits(file, pushes)' /\ Pends(file, buffer, pushes)'
    BY <1>1, <2>1
  <2> QED  BY <1>1, <2>2, <2>5, <2>6 DEF LogInv
<1> QED  BY <1>3, <1>4 DEF Close, ReadAll

LEMMA StepKeepsLog == ASSUME LogInv, [Next]_vars PROVE LogInv'
<1>1. CASE LogNext
  <2>1. CASE \E r \in Requests, a \in 0..MaxAttempts, d \in Decisions :
                 Select([request |-> r, attempt |-> a, decision |-> d])
    <3>1. PICK rec \in Record : Select(rec)
      BY <2>1 DEF Record
    <3> QED  BY <3>1, SelectKeepsLog
  <2>2. CASE ProcessDies
    <3>1. /\ sink' = "down" /\ buffer' = <<>>
          /\ UNCHANGED <<pushes, acked, file, synced, fsync, outage>>
      BY <2>2 DEF ProcessDies
    <3>2. FileFits(file, pushes)' /\ Remembered(file, acked, synced)'
      BY <3>1 DEF LogInv, FileFits, Remembered
    <3> QED  BY <3>1, <3>2 DEF LogInv
  <2> QED  BY <1>1, <2>1, <2>2, FlushKeepsLog, OutageKeepsLog, ReopenKeepsLog DEF LogNext
<1>2. CASE UNCHANGED logVars
  BY <1>2 DEF logVars, LogInv, FileFits, Pends, Remembered
<1>3. LogNext \/ UNCHANGED logVars
  BY DEF Next, RecordDecisions, JoinReplay, RunCampaign, Judged, vars
<1> QED  BY <1>1, <1>2, <1>3

LEMMA InitLog == ASSUME Init PROVE LogInv
<1>1. /\ pushes = 0 /\ acked = {} /\ file = <<>> /\ buffer = <<>> /\ synced = 0
      /\ sink = "open" /\ fsync \in BOOLEAN /\ outage = FALSE
  BY DEF Init, LogInit
<1>2. <<>> \in Seq(Line) /\ <<>> \in Seq(Entries) /\ Len(<<>>) = 0
  OBVIOUS
<1>3. FileFits(<<>>, 0)
  BY <1>2 DEF FileFits
<1>4. ~Unfinished(<<>>)
  BY DEF Unfinished
<1>5. Pends(<<>>, <<>>, 0)
  BY <1>2, <1>4 DEF Pends
<1>6. Remembered(<<>>, {}, 0)
  BY <1>2 DEF Remembered
<1> QED  BY <1>1, <1>3, <1>5, <1>6 DEF LogInv

LEMMA LogKept == LogInv => LogIsKept
<1> SUFFICES ASSUME LogInv PROVE LogIsKept
  OBVIOUS
<1>1. /\ FileFits(file, pushes) /\ Remembered(file, acked, synced)
      /\ fsync \in BOOLEAN /\ outage \in BOOLEAN /\ Len(file) \in Nat
  BY LastLine DEF LogInv
<1>2. LogIsHistory
  <2>1. \A i, j \in 1..Len(file) : i < j => file[i].push < file[j].push
    BY <1>1 DEF FileFits
  <2>2. ASSUME fsync \/ ~outage, NEW p \in acked
        PROVE  \E i \in 1..Len(file) : file[i].push = p /\ Whole(file[i])
    <3>1. CASE fsync
      <4>1. PICK i \in 1..synced : file[i].push = p
        BY <1>1, <3>1 DEF Remembered
      <4>2. synced \in 0..Len(file) /\ \A k \in 1..synced : Whole(file[k])
        BY <1>1 DEF Remembered
      <4>3. i \in 1..Len(file)
        BY <1>1, <4>1, <4>2
      <4> QED  BY <4>1, <4>2, <4>3
    <3>2. CASE ~outage
      BY <1>1, <3>2 DEF Remembered
    <3> QED  BY <2>2, <3>1, <3>2
  <2> QED  BY <2>1, <2>2 DEF LogIsHistory
<1>3. LogStaysReadable
  <2> SUFFICES ASSUME sink = "open" PROVE LET lines == Flushed(buffer)
                                          IN  \A i \in 1..Len(lines) : Whole(lines[i])
    BY DEF LogStaysReadable
  <2>1. Pends(file, buffer, pushes)
    BY DEF LogInv
  <2>2. PICK r : r = Flushed(buffer)
    OBVIOUS
  <2>3. \A i \in 1..Len(r) : Whole(r[i])
    BY <1>1, <2>1, <2>2, WrittenFits
  <2> QED  BY <2>2, <2>3
<1> QED  BY <1>2, <1>3 DEF LogIsKept

\* Whatever writes fail, processes die, power goes and logs are reopened: the
\* log holds pushed records in order, none twice, every one whose write returned
\* unless fsync was off in an outage, and an open sink reads back.
THEOREM LogStaysKept == Spec => []LogIsKept
<1>1. Init => LogInv
  BY InitLog
<1>2. LogInv /\ [Next]_vars => LogInv'
  BY StepKeepsLog
<1> QED  BY <1>1, <1>2, LogKept, PTL DEF Spec
-----------------------------------------------------------------------------
(* The report.  Each record has one status, and it depends on the records    *)
(* before it alone.                                                          *)

Twice(records, i) == \E j \in 1..(i - 1) : Key(records[j]) = Key(records[i])

StatusAt(records, i) ==
    IF Twice(records, i) THEN "DUPLICATE"
    ELSE IF Advances(records, i) THEN PairStatus(records[i].decision) ELSE "OUT_OF_ORDER"

AttemptKeys == Requests \X (0..MaxAttempts)
Tally == [seen : SUBSET AttemptKeys, high : [Requests -> Int], counts : [Status -> Nat]]

\* What is known after the first k records.
Tallied(records, acc, k) ==
    /\ acc.seen = {Key(records[j]) : j \in 1..k}
    /\ \A j \in 1..k : records[j].attempt <= acc.high[records[j].request]
    /\ \A r \in Requests : acc.high[r] = -1 \/ <<r, acc.high[r]>> \in acc.seen
    /\ \A s \in Status : acc.counts[s] = Cardinality({i \in 1..k : StatusAt(records, i) = s})
    /\ SumFunctionOnSet(acc.counts, Status) = k

LEMMA StatusIsFinite == IsFiniteSet(Status)
<1>1. PICK a : a = {"AGREED"} \cup {"DISAGREED"} \cup {"SHADOW_MISSING"} \cup {"R0_OFF_FALLBACK"}
  OBVIOUS
<1>2. PICK b : b = {"EXPLAINED_FAIL_OPEN"} \cup {"DUPLICATE"} \cup {"OUT_OF_ORDER"}
                     \cup {"UNRESOLVED_OWNER_SIGNOFF"}
  OBVIOUS
<1>3. IsFiniteSet(a)
  BY <1>1, FS_Singleton, FS_Union
<1>4. IsFiniteSet(b)
  BY <1>2, FS_Singleton, FS_Union
<1>5. Status = a \cup b
  BY <1>1, <1>2 DEF Status
<1> QED  BY <1>3, <1>4, <1>5, FS_Union

LEMMA SumOfZeros ==
    ASSUME NEW S, IsFiniteSet(S), NEW f, \A x \in S : f[x] = 0
    PROVE  SumFunctionOnSet(f, S) = 0
<1> DEFINE T == {u \in SUBSET S : SumFunctionOnSet(f, u) = 0}
<1>1. {} \in T
  BY SumOfNone
<1>2. ASSUME NEW u \in T, NEW x \in S, x \notin u PROVE u \cup {x} \in T
  <2>1. IsFiniteSet(u) /\ \A y \in u \cup {x} : f[y] \in Int
    BY <1>2, FS_Subset
  <2>2. SumFunctionOnSet(f, u \cup {x}) = f[x] + SumFunctionOnSet(f, u)
    BY <1>2, <2>1, SumPutsIn
  <2>3. f[x] = 0 /\ SumFunctionOnSet(f, u) = 0 /\ 0 + 0 = 0
    OBVIOUS
  <2> QED  BY <2>2, <2>3
<1>3. T \in SUBSET SUBSET S
  OBVIOUS
<1>4. T = SUBSET S
  <2>1. \A u, x : u \in T /\ x \in S /\ x \notin u => u \cup {x} \in T
    BY <1>2
  <2> HIDE DEF T
  <2> QED  BY <1>1, <1>3, <2>1, ElementInduction
<1> QED  BY <1>4

\* One more in one place is one more in all.
LEMMA SumCountsOn ==
    ASSUME NEW S, IsFiniteSet(S), NEW f \in [S -> Nat], NEW x \in S, NEW g,
           g = [f EXCEPT ![x] = @ + 1]
    PROVE  SumFunctionOnSet(g, S) = SumFunctionOnSet(f, S) + 1
<1>1. g \in [S -> Nat] /\ g[x] = f[x] + 1 /\ \A y \in S \ {x} : g[y] = f[y]
  OBVIOUS
<1>2. IsFiniteSet(S \ {x})
  BY FS_Subset
<1>3. PICK rest : rest = SumFunctionOnSet(f, S \ {x})
  OBVIOUS
<1>4. SumFunctionOnSet(g, S \ {x}) = rest
  <2>1. \A y \in S \ {x} : f[y] \in Int /\ g[y] = f[y]
    BY <1>1
  <2> QED  BY <1>2, <1>3, <2>1, SumsAgree
<1>5. SumFunctionOnSet(f, S) = f[x] + rest /\ rest \in Int
  BY <1>2, <1>3, SumTakesOut
<1>6. SumFunctionOnSet(g, S) = g[x] + rest
  <2>1. \A y \in S : g[y] \in Int
    BY <1>1
  <2> QED  BY <1>4, <2>1, SumTakesOut
<1>7. f[x] \in Int
  OBVIOUS
<1> QED  BY <1>1, <1>5, <1>6, <1>7

\* A pair has a status of its own.
LEMMA PairHasStatus ==
    ASSUME NEW d \in AllDecisions
    PROVE  /\ PairStatus(d) \in Status \ {"DUPLICATE", "OUT_OF_ORDER"}
           /\ PairStatus(d) \notin {"SHADOW_MISSING"} \cup Unready
                 <=> d.owner = "master" /\ d.shadow # "none"
<1>1. /\ d.owner \in {"master", "turbo"} /\ d.mode \in {"off", "shadow", "enforce", "required"}
      /\ d.shadow \in {"none", "same", "other"} /\ d.fallback \in BOOLEAN
  BY DEF AllDecisions
<1>2. CASE d.owner = "turbo"
  <2>1. PairStatus(d) = "UNRESOLVED_OWNER_SIGNOFF"
    BY <1>2 DEF PairStatus
  <2> QED  BY <1>2, <2>1 DEF Status, Unready
<1>3. CASE d.owner = "master" /\ d.shadow = "same"
  <2>1. PairStatus(d) = "AGREED"
    BY <1>3 DEF PairStatus
  <2> QED  BY <1>3, <2>1 DEF Status, Unready
<1>4. CASE d.owner = "master" /\ d.shadow = "other"
  <2>1. PairStatus(d) = "DISAGREED"
    BY <1>4 DEF PairStatus
  <2> QED  BY <1>4, <2>1 DEF Status, Unready
<1>5. CASE d.owner = "master" /\ d.shadow = "none"
  <2>1. PairStatus(d) = IF d.mode = "off" THEN "R0_OFF_FALLBACK"
                        ELSE IF d.fallback THEN "EXPLAINED_FAIL_OPEN" ELSE "SHADOW_MISSING"
    BY <1>5 DEF PairStatus
  <2>2. PairStatus(d) \in {"R0_OFF_FALLBACK", "EXPLAINED_FAIL_OPEN", "SHADOW_MISSING"}
    BY <2>1
  <2> QED  BY <1>5, <2>2 DEF Status, Unready
<1> QED  BY <1>1, <1>2, <1>3, <1>4, <1>5

\* Each record in turn gets its status.
LEMMA JudgedOn ==
    ASSUME NEW records \in Seq(Record), NEW k \in 1..Len(records),
           NEW acc \in Tally, Tallied(records, acc, k - 1), NEW new,
           new = Judge(acc, records[k])
    PROVE  new \in Tally /\ Tallied(records, new, k)
<1>1. PICK rec, key, old, st, high :
         /\ rec = records[k] /\ key = Key(rec) /\ old = acc.high
         /\ st = IF key \in acc.seen THEN "DUPLICATE"
                 ELSE IF rec.attempt < old[rec.request]
                      THEN "OUT_OF_ORDER" ELSE PairStatus(rec.decision)
         /\ high = IF st \in {"DUPLICATE", "OUT_OF_ORDER"} THEN old
                   ELSE [old EXCEPT ![rec.request] = rec.attempt]
  OBVIOUS
<1>2. new = [seen |-> acc.seen \cup {key}, high |-> high,
             counts |-> [acc.counts EXCEPT ![st] = @ + 1]]
  BY <1>1 DEF Judge
<1>3. /\ k \in Nat /\ \A j \in 1..k : records[j] \in Record
      /\ \A j \in 1..k : j \in 1..(k - 1) \/ j = k
      /\ \A j \in 1..(k - 1) : j \in 1..k
  OBVIOUS
<1>4. /\ rec \in Record /\ rec.request \in Requests /\ rec.attempt \in 0..MaxAttempts
      /\ rec.decision \in AllDecisions /\ key \in AttemptKeys
      /\ key = <<rec.request, rec.attempt>>
  <2>1. rec \in Record
    BY <1>1, <1>3
  <2> QED  BY <1>1, <2>1, DecisionAssumption DEF Record, Key, AttemptKeys
<1>5. /\ acc.seen \in SUBSET AttemptKeys /\ old \in [Requests -> Int]
      /\ acc.counts \in [Status -> Nat]
  BY <1>1 DEF Tally
<1>6. /\ acc.seen = {Key(records[j]) : j \in 1..(k - 1)}
      /\ \A j \in 1..(k - 1) : records[j].attempt <= old[records[j].request]
      /\ \A r \in Requests : old[r] = -1 \/ <<r, old[r]>> \in acc.seen
  BY <1>1 DEF Tallied
<1>7. key \in acc.seen <=> Twice(records, k)
  BY <1>1, <1>6 DEF Twice
<1>8. PairStatus(rec.decision) \in Status \ {"DUPLICATE", "OUT_OF_ORDER"}
  BY <1>4, PairHasStatus
<1>9. rec.attempt \in Int /\ 0 <= rec.attempt /\ old[rec.request] \in Int
  <2>1. MaxAttempts \in Nat
    BY DecisionAssumption
  <2> QED  BY <1>4, <1>5, <2>1
<1>10. ASSUME NEW j \in 1..(k - 1)
       PROVE  records[j].request \in Requests /\ records[j].attempt \in Int
  BY <1>3, DecisionAssumption DEF Record
<1>11. ASSUME ~Twice(records, k)
       PROVE  rec.attempt < old[rec.request] <=> ~Advances(records, k)
  <2>1. ASSUME rec.attempt < old[rec.request] PROVE ~Advances(records, k)
    <3>1. PICK h : h = old[rec.request]
      OBVIOUS
    <3>2. <<rec.request, h>> \in acc.seen
      BY <1>4, <1>6, <1>9, <2>1, <3>1
    <3>3. PICK j \in 1..(k - 1) : Key(records[j]) = <<rec.request, h>>
      BY <1>6, <3>2
    <3>4. records[j].request = rec.request /\ records[j].attempt = h
      BY <3>3 DEF Key
    <3>5. ~(records[j].attempt < rec.attempt)
      BY <1>9, <2>1, <3>1, <3>4
    <3> QED  BY <1>1, <3>4, <3>5 DEF Advances
  <2>2. ASSUME ~Advances(records, k) PROVE rec.attempt < old[rec.request]
    <3>1. PICK j \in 1..(k - 1) : /\ records[j].request = rec.request
                                  /\ ~(records[j].attempt < rec.attempt)
      BY <1>1, <2>2 DEF Advances
    <3>2. PICK a : a = records[j].attempt
      OBVIOUS
    <3>3. a # rec.attempt
      BY <1>1, <1>11, <3>1, <3>2 DEF Twice, Key
    <3>4. a \in Int /\ a <= old[rec.request]
      BY <1>6, <1>10, <3>1, <3>2
    <3> QED  BY <1>9, <3>1, <3>2, <3>3, <3>4
  <2> QED  BY <2>1, <2>2
<1>12. st = StatusAt(records, k)
  <2>1. CASE Twice(records, k)
    BY <1>1, <1>7, <2>1 DEF StatusAt
  <2>2. CASE ~Twice(records, k)
    BY <1>1, <1>7, <1>11, <2>2 DEF StatusAt
  <2> QED  BY <2>1, <2>2
<1>13. st \in Status
  BY <1>1, <1>8 DEF Status
<1>14. new.seen = {Key(records[j]) : j \in 1..k} /\ new.seen \in SUBSET AttemptKeys
  <2>1. new.seen = acc.seen \cup {key}
    BY <1>2
  <2>2. {Key(records[j]) : j \in 1..k} = {Key(records[j]) : j \in 1..(k - 1)} \cup {key}
    BY <1>1, <1>3
  <2> QED  BY <1>4, <1>5, <1>6, <2>1, <2>2
<1>15. new.high = high /\ high \in [Requests -> Int]
  BY <1>1, <1>2, <1>4, <1>5, <1>9
<1>16. \A j \in 1..k : records[j].attempt <= high[records[j].request]
  <2>1. CASE st = "DUPLICATE"
    <3>1. high = old
      BY <1>1, <2>1
    <3>2. key \in acc.seen
      BY <1>1, <1>8, <2>1
    <3>3. PICK i \in 1..(k - 1) : Key(records[i]) = key
      BY <1>6, <3>2
    <3>4. records[i].request = rec.request /\ records[i].attempt = rec.attempt
      BY <1>4, <3>3 DEF Key
    <3>5. rec.attempt <= old[rec.request]
      BY <1>6, <3>4
    <3> QED  BY <1>1, <1>3, <1>6, <3>1, <3>5
  <2>2. CASE st = "OUT_OF_ORDER"
    <3>1. high = old
      BY <1>1, <2>2
    <3>2. rec.attempt < old[rec.request]
      BY <1>1, <1>8, <2>2
    <3> QED  BY <1>1, <1>3, <1>6, <1>9, <3>1, <3>2
  <2>3. CASE st \notin {"DUPLICATE", "OUT_OF_ORDER"}
    <3>1. high = [old EXCEPT ![rec.request] = rec.attempt]
      BY <1>1, <2>3
    <3>2. old[rec.request] <= rec.attempt
      BY <1>1, <1>9, <2>3
    <3>3. high[rec.request] = rec.attempt
      BY <1>4, <1>5, <3>1
    <3>4. ASSUME NEW j \in 1..(k - 1) PROVE records[j].attempt <= high[records[j].request]
      <4>1. PICK a, r : a = records[j].attempt /\ r = records[j].request
        OBVIOUS
      <4>2. a \in Int /\ r \in Requests /\ a <= old[r] /\ old[r] \in Int
        BY <1>5, <1>6, <1>10, <4>1
      <4>3. CASE r = rec.request
        <5>1. a <= rec.attempt
          BY <1>9, <3>2, <4>2, <4>3
        <5> QED  BY <3>3, <4>1, <4>3, <5>1
      <4>4. CASE r # rec.request
        <5>1. high[r] = old[r]
          BY <1>4, <1>5, <3>1, <4>2, <4>4
        <5> QED  BY <4>1, <4>2, <5>1
      <4> QED  BY <4>3, <4>4
    <3>5. rec.attempt <= high[rec.request]
      BY <1>9, <3>3
    <3> QED  BY <1>1, <1>3, <3>4, <3>5
  <2> QED  BY <2>1, <2>2, <2>3
<1>17. \A r \in Requests : high[r] = -1 \/ <<r, high[r]>> \in new.seen
  <2>1. new.seen = acc.seen \cup {key}
    BY <1>2
  <2>2. ASSUME NEW r \in Requests
        PROVE  high[r] = old[r] \/ (r = rec.request /\ high[r] = rec.attempt)
    BY <1>1, <1>4, <1>5
  <2> QED  BY <1>4, <1>6, <2>1, <2>2
<1>18. /\ new.counts = [acc.counts EXCEPT ![st] = @ + 1]
       /\ new.counts \in [Status -> Nat]
  BY <1>2, <1>5, <1>13
<1>19. ASSUME NEW s \in Status
       PROVE  new.counts[s] = Cardinality({i \in 1..k : StatusAt(records, i) = s})
  <2>1. PICK m, p : /\ m = {i \in 1..(k - 1) : StatusAt(records, i) = s}
                    /\ p = {i \in 1..k : StatusAt(records, i) = s}
    OBVIOUS
  <2>2. acc.counts[s] = Cardinality(m)
    BY <2>1 DEF Tallied
  <2>3. IsFiniteSet(m)
    <3>1. IsFiniteSet(1..(k - 1))
      BY <1>3, FS_Interval
    <3>2. m \subseteq 1..(k - 1)
      BY <2>1
    <3> QED  BY <3>1, <3>2, FS_Subset
  <2>4. k \notin m
    BY <1>3, <2>1
  <2>5. CASE s = st
    <3>1. p = m \cup {k}
      BY <1>3, <1>12, <2>1, <2>5
    <3>2. Cardinality(p) = Cardinality(m) + 1
      BY <2>3, <2>4, <3>1, FS_AddElement
    <3>3. new.counts[s] = acc.counts[s] + 1
      BY <1>5, <1>18, <2>5
    <3> QED  BY <2>1, <2>2, <3>2, <3>3
  <2>6. CASE s # st
    <3>1. p = m
      BY <1>3, <1>12, <2>1, <2>6
    <3>2. new.counts[s] = acc.counts[s]
      BY <1>5, <1>18, <2>6
    <3> QED  BY <2>1, <2>2, <3>1, <3>2
  <2> QED  BY <2>5, <2>6
<1>20. SumFunctionOnSet(new.counts, Status) = k
  <2>1. SumFunctionOnSet(acc.counts, Status) = k - 1
    BY DEF Tallied
  <2>2. SumFunctionOnSet(new.counts, Status) = SumFunctionOnSet(acc.counts, Status) + 1
    BY <1>5, <1>13, <1>18, StatusIsFinite, SumCountsOn
  <2> QED  BY <1>3, <2>1, <2>2
<1>21. new \in Tally
  <2>1. new = [seen |-> new.seen, high |-> new.high, counts |-> new.counts]
    BY <1>2
  <2> QED  BY <1>14, <1>15, <1>18, <2>1 DEF Tally
<1> QED  BY <1>14, <1>15, <1>16, <1>17, <1>19, <1>20, <1>21 DEF Tallied

NoTally == [seen |-> {}, high |-> [r \in Requests |-> -1], counts |-> [s \in Status |-> 0]]

LEMMA NothingTallied ==
    ASSUME NEW records
    PROVE  NoTally \in Tally /\ Tallied(records, NoTally, 0)
<1>1. NoTally \in Tally
  <2>1. [r \in Requests |-> -1] \in [Requests -> Int] /\ [s \in Status |-> 0] \in [Status -> Nat]
    OBVIOUS
  <2> QED  BY <2>1 DEF NoTally, Tally
<1>2. 1..0 = {}
  OBVIOUS
<1>3. NoTally.seen = {Key(records[j]) : j \in 1..0}
  BY <1>2 DEF NoTally
<1>4. ASSUME NEW s \in Status
      PROVE  NoTally.counts[s] = Cardinality({i \in 1..0 : StatusAt(records, i) = s})
  <2>1. {i \in 1..0 : StatusAt(records, i) = s} = {} /\ NoTally.counts[s] = 0
    BY <1>2 DEF NoTally
  <2> QED  BY <2>1, FS_EmptySet
<1>5. SumFunctionOnSet(NoTally.counts, Status) = 0
  <2>1. \A s \in Status : NoTally.counts[s] = 0
    BY DEF NoTally
  <2> QED  BY <2>1, StatusIsFinite, SumOfZeros
<1>6. \A r \in Requests : NoTally.high[r] = -1
  BY DEF NoTally
<1> QED  BY <1>1, <1>2, <1>3, <1>4, <1>5, <1>6 DEF Tallied

LEMMA JudgedAlong ==
    ASSUME NEW records \in Seq(Record), NEW f, f[0] = NoTally,
           \A i \in 1..Len(records) :
              f[i - 1] \in Tally => f[i] = Judge(f[i - 1], records[i])
    PROVE  \A i \in 0..Len(records) : f[i] \in Tally /\ Tallied(records, f[i], i)
<1>1. PICK n : n = Len(records) /\ n \in Nat
  OBVIOUS
<1> DEFINE Good(i) == f[i] \in Tally /\ Tallied(records, f[i], i)
           T == {i \in 1..n : Good(i)}
<1>2. Good(0)
  BY NothingTallied
<1>3. ASSUME NEW i \in 1..n, Good(i - 1) PROVE Good(i)
  <2>1. f[i] = Judge(f[i - 1], records[i])
    BY <1>1, <1>3
  <2>2. PICK acc, new : acc = f[i - 1] /\ new = f[i]
    OBVIOUS
  <2>3. acc \in Tally /\ Tallied(records, acc, i - 1) /\ new = Judge(acc, records[i])
    BY <1>3, <2>1, <2>2
  <2>4. new \in Tally /\ Tallied(records, new, i)
    BY <1>1, <2>3, JudgedOn
  <2> QED  BY <2>2, <2>4
<1>4. ASSUME NEW i \in 1..n, \A j \in 1..(i - 1) : j \in T PROVE i \in T
  <2>1. CASE i = 1
    <3>1. Good(i - 1)
      BY <1>2, <2>1
    <3> HIDE DEF Good
    <3> QED  BY <1>3, <3>1
  <2>2. CASE i # 1
    <3>1. i - 1 \in T
      BY <1>1, <1>4, <2>2
    <3> HIDE DEF Good
    <3> QED  BY <1>3, <3>1
  <2> QED  BY <2>1, <2>2
<1>5. 1..n \subseteq T
  <2> HIDE DEF T
  <2> QED  BY <1>1, <1>4, IntervalInduction
<1>6. ASSUME NEW i \in 0..n PROVE Good(i)
  <2>1. i = 0 \/ i \in 1..n
    BY <1>1
  <2> HIDE DEF Good
  <2> QED  BY <1>2, <1>5, <2>1
<1> QED  BY <1>1, <1>6

JudgedRec(g, records) ==
    g = [i \in 0..Len(records) |->
            IF i = 0 THEN [seen   |-> {}, high |-> [r \in Requests |-> -1],
                           counts |-> [s \in Status |-> 0]]
            ELSE Judge(g[i - 1], records[i])]

\* The report is on the whole tally.
LEMMA ReportIs ==
    ASSUME NEW records \in Seq(Record)
    PROVE  \E end \in Tally :
              /\ Tallied(records, end, Len(records))
              /\ ReportOf(records).counts = end.counts
              /\ ReportOf(records).accepted <=> \A s \in Defects : end.counts[s] = 0
              /\ ReportOf(records).rollout
                    <=> /\ \A s \in Defects : end.counts[s] = 0
                        /\ \A s \in Unready : end.counts[s] = 0
<1>1. PICK n : n = Len(records) /\ n \in Nat
  OBVIOUS
<1>2. PICK judge : judge = [x \in (1..n) \X Tally |-> Judge(x[2], records[x[1]])]
  OBVIOUS
<1>3. PICK f : Stepwise(f, n, NoTally, judge)
  BY <1>1, StepsAreDefined
<1>4. /\ f = [i \in 0..n |-> f[i]] /\ f[0] = NoTally
      /\ \A i \in 1..n : f[i] = judge[<<i, f[i - 1]>>]
  BY <1>1, <1>3 DEF Stepwise
<1>5. ASSUME NEW i \in 1..n, f[i - 1] \in Tally PROVE f[i] = Judge(f[i - 1], records[i])
  BY <1>2, <1>4, <1>5
<1>6. \A i \in 0..n : f[i] \in Tally
  BY <1>1, <1>4, <1>5, JudgedAlong
<1>7. JudgedRec(f, records)
  <2>1. ASSUME NEW i \in 0..n
        PROVE  f[i] = IF i = 0 THEN NoTally ELSE Judge(f[i - 1], records[i])
    <3>1. CASE i = 0
      BY <1>4, <3>1
    <3>2. CASE i # 0
      <4>1. i \in 1..n /\ i - 1 \in 0..n
        BY <1>1, <3>2
      <4>2. f[i] = Judge(f[i - 1], records[i])
        BY <1>5, <1>6, <4>1
      <4> QED  BY <3>2, <4>2
    <3> QED  BY <3>1, <3>2
  <2>2. f = [i \in 0..n |-> IF i = 0 THEN NoTally ELSE Judge(f[i - 1], records[i])]
    BY <1>4, <2>1
  <2> QED  BY <1>1, <2>2 DEF JudgedRec, NoTally
<1>8. PICK h : h = CHOOSE way : JudgedRec(way, records)
  OBVIOUS
<1>9. JudgedRec(h, records)
  BY <1>7, <1>8
<1>10. h[0] = NoTally /\ \A i \in 1..n : h[i] = Judge(h[i - 1], records[i])
  <2>1. h = [i \in 0..n |-> IF i = 0 THEN NoTally ELSE Judge(h[i - 1], records[i])]
    BY <1>1, <1>9 DEF JudgedRec, NoTally
  <2>2. ASSUME NEW i \in 0..n
        PROVE  h[i] = IF i = 0 THEN NoTally ELSE Judge(h[i - 1], records[i])
    BY <2>1
  <2> QED  BY <1>1, <2>2
<1>11. h[n] \in Tally /\ Tallied(records, h[n], n)
  <2>1. n \in 0..n
    BY <1>1
  <2> QED  BY <1>1, <1>10, <2>1, JudgedAlong
<1>12. PICK end, accepted :
          end = h[n] /\ accepted = \A s \in Defects : end.counts[s] = 0
  OBVIOUS
<1>13. ReportOf(records) = [counts   |-> end.counts, accepted |-> accepted,
                            rollout  |-> accepted /\ \A s \in Unready : end.counts[s] = 0]
  BY <1>1, <1>8, <1>12 DEF ReportOf, JudgedRec
<1>14. /\ ReportOf(records).counts = end.counts
       /\ ReportOf(records).accepted = accepted
       /\ ReportOf(records).rollout = (accepted /\ \A s \in Unready : end.counts[s] = 0)
  BY <1>13
<1>15. end \in Tally /\ Tallied(records, end, Len(records))
  BY <1>1, <1>11, <1>12
<1>16. accepted <=> \A s \in Defects : end.counts[s] = 0
  BY <1>12
<1> QED  BY <1>14, <1>15, <1>16

LEMMA StatusTells ==
    ASSUME NEW records \in Seq(Record), NEW i \in 1..Len(records)
    PROVE  /\ records[i].decision \in AllDecisions
           /\ StatusAt(records, i) = "DUPLICATE" <=> Twice(records, i)
           /\ StatusAt(records, i) \in {"DUPLICATE", "OUT_OF_ORDER"} <=> ~Advances(records, i)
           /\ Advances(records, i) => StatusAt(records, i) = PairStatus(records[i].decision)
<1>1. ASSUME NEW j \in 1..Len(records)
      PROVE  records[j].attempt \in Int /\ records[j].decision \in AllDecisions
  <2>1. records[j] \in Record
    OBVIOUS
  <2>2. records[j].attempt \in 0..MaxAttempts /\ records[j].decision \in Decisions
    BY <2>1 DEF Record
  <2> QED  BY <2>2, DecisionAssumption
<1>2. ASSUME Twice(records, i) PROVE ~Advances(records, i)
  <2>1. PICK j \in 1..(i - 1) : Key(records[j]) = Key(records[i])
    BY <1>2 DEF Twice
  <2>2. /\ records[j].request = records[i].request
        /\ records[j].attempt = records[i].attempt
    BY <2>1 DEF Key
  <2>3. ~(records[j].attempt < records[i].attempt)
    BY <1>1, <2>2
  <2> QED  BY <2>2, <2>3 DEF Advances
<1>3. PairStatus(records[i].decision) \notin {"DUPLICATE", "OUT_OF_ORDER"}
  BY <1>1, PairHasStatus
<1>4. PICK st : st = StatusAt(records, i)
  OBVIOUS
<1>5. st = IF Twice(records, i) THEN "DUPLICATE"
           ELSE IF Advances(records, i) THEN PairStatus(records[i].decision)
           ELSE "OUT_OF_ORDER"
  BY <1>4 DEF StatusAt
<1>6. /\ st = "DUPLICATE" <=> Twice(records, i)
      /\ st \in {"DUPLICATE", "OUT_OF_ORDER"} <=> ~Advances(records, i)
      /\ Advances(records, i) => st = PairStatus(records[i].decision)
  BY <1>2, <1>3, <1>5
<1> QED  BY <1>1, <1>4, <1>6

\* No record has a status exactly when its count is zero.
LEMMA CountIsZero ==
    ASSUME NEW records \in Seq(Record), NEW acc, Tallied(records, acc, Len(records)),
           NEW s \in Status
    PROVE  acc.counts[s] = 0 <=> \A i \in 1..Len(records) : StatusAt(records, i) # s
<1>1. PICK m : m = {i \in 1..Len(records) : StatusAt(records, i) = s}
  OBVIOUS
<1>2. acc.counts[s] = Cardinality(m)
  BY <1>1 DEF Tallied
<1>3. IsFiniteSet(m)
  <2>1. IsFiniteSet(1..Len(records)) /\ m \subseteq 1..Len(records)
    BY <1>1, FS_Interval
  <2> QED  BY <2>1, FS_Subset
<1>4. Cardinality(m) = 0 <=> m = {}
  BY <1>3, FS_EmptySet
<1>5. m = {} <=> \A i \in 1..Len(records) : StatusAt(records, i) # s
  BY <1>1
<1> QED  BY <1>2, <1>4, <1>5

\* The report on whatever records there are.
LEMMA ReportIsTrue ==
    ASSUME NEW records \in Seq(Record), NEW verdict, verdict = ReportOf(records)
    PROVE  /\ \A s \in Status \ {"DUPLICATE", "OUT_OF_ORDER"} :
                 verdict.counts[s] = Counted(records, s)
           /\ verdict.counts["DUPLICATE"] = Repeated(records)
           /\ SumFunctionOnSet(verdict.counts, Status) = Len(records)
           /\ verdict.accepted <=>
                 \A i \in 1..Len(records) : /\ Advances(records, i)
                                            /\ PairStatus(records[i].decision) # "SHADOW_MISSING"
           /\ verdict.rollout <=>
                 \A i \in 1..Len(records) : /\ Advances(records, i)
                                            /\ records[i].decision.owner = "master"
                                            /\ records[i].decision.shadow # "none"
<1>1. PICK end \in Tally :
         /\ Tallied(records, end, Len(records))
         /\ verdict.counts = end.counts
         /\ verdict.accepted <=> \A s \in Defects : end.counts[s] = 0
         /\ verdict.rollout <=> /\ \A s \in Defects : end.counts[s] = 0
                                /\ \A s \in Unready : end.counts[s] = 0
  BY ReportIs
<1>2. /\ \A s \in Status :
            end.counts[s] = Cardinality({i \in 1..Len(records) : StatusAt(records, i) = s})
      /\ SumFunctionOnSet(end.counts, Status) = Len(records)
  BY <1>1 DEF Tallied
<1>3. ASSUME NEW s \in Status \ {"DUPLICATE", "OUT_OF_ORDER"}
      PROVE  verdict.counts[s] = Counted(records, s)
  <2>1. \A i \in 1..Len(records) :
           StatusAt(records, i) = s
              <=> Advances(records, i) /\ PairStatus(records[i].decision) = s
    BY StatusTells
  <2>2. {i \in 1..Len(records) : StatusAt(records, i) = s}
           = {i \in 1..Len(records) :
                 Advances(records, i) /\ PairStatus(records[i].decision) = s}
    BY <2>1
  <2> QED  BY <1>1, <1>2, <2>2 DEF Counted
<1>4. verdict.counts["DUPLICATE"] = Repeated(records)
  <2>1. \A i \in 1..Len(records) :
           StatusAt(records, i) = "DUPLICATE"
              <=> \E j \in 1..(i - 1) : Key(records[j]) = Key(records[i])
    BY StatusTells DEF Twice
  <2>2. {i \in 1..Len(records) : StatusAt(records, i) = "DUPLICATE"}
           = {i \in 1..Len(records) :
                 \E j \in 1..(i - 1) : Key(records[j]) = Key(records[i])}
    BY <2>1
  <2>3. "DUPLICATE" \in Status
    BY DEF Status
  <2> QED  BY <1>1, <1>2, <2>2, <2>3 DEF Repeated
<1>5. Defects \subseteq Status /\ Unready \subseteq Status
  BY DEF Defects, Unready, Status
<1>6. (\A s \in Defects : end.counts[s] = 0)
         <=> \A i \in 1..Len(records) : StatusAt(records, i) \notin Defects
  BY <1>1, <1>5, CountIsZero
<1>7. (\A s \in Unready : end.counts[s] = 0)
         <=> \A i \in 1..Len(records) : StatusAt(records, i) \notin Unready
  BY <1>1, <1>5, CountIsZero
<1>8. ASSUME NEW i \in 1..Len(records)
      PROVE  /\ StatusAt(records, i) \notin Defects
                   <=> /\ Advances(records, i)
                       /\ PairStatus(records[i].decision) # "SHADOW_MISSING"
             /\ StatusAt(records, i) \notin Defects /\ StatusAt(records, i) \notin Unready
                   <=> /\ Advances(records, i)
                       /\ records[i].decision.owner = "master"
                       /\ records[i].decision.shadow # "none"
  <2>1. PICK d, st : d = records[i].decision /\ st = StatusAt(records, i)
    OBVIOUS
  <2>2. /\ d \in AllDecisions
        /\ st \in {"DUPLICATE", "OUT_OF_ORDER"} <=> ~Advances(records, i)
        /\ Advances(records, i) => st = PairStatus(d)
    BY <2>1, StatusTells
  <2>3. PairStatus(d) \notin {"SHADOW_MISSING"} \cup Unready
           <=> d.owner = "master" /\ d.shadow # "none"
    BY <2>2, PairHasStatus
  <2>4. PairStatus(d) \notin {"DUPLICATE", "OUT_OF_ORDER"}
    BY <2>2, PairHasStatus
  <2>5. Defects = {"DUPLICATE", "OUT_OF_ORDER", "SHADOW_MISSING"}
    BY DEF Defects
  <2> QED  BY <2>1, <2>2, <2>3, <2>4, <2>5
<1>9. verdict.accepted <=>
         \A i \in 1..Len(records) : /\ Advances(records, i)
                                    /\ PairStatus(records[i].decision) # "SHADOW_MISSING"
  BY <1>1, <1>6, <1>8
<1>10. verdict.rollout <=>
          \A i \in 1..Len(records) : /\ Advances(records, i)
                                     /\ records[i].decision.owner = "master"
                                     /\ records[i].decision.shadow # "none"
  BY <1>1, <1>6, <1>7, <1>8
<1> QED  BY <1>1, <1>2, <1>3, <1>4, <1>9, <1>10

LEMMA LogReported == LogInv => ReportTellsTheTruth
<1> SUFFICES ASSUME LogInv PROVE ReportTellsTheTruth
  OBVIOUS
<1>1. PICK lines : lines = Flushed(buffer)
  OBVIOUS
<1>2. lines \in Seq(Line)
  <2>1. CASE sink = "open"
    <3>1. FileFits(file, pushes) /\ Pends(file, buffer, pushes)
      BY <2>1 DEF LogInv
    <3> QED  BY <1>1, <3>1, WrittenFits
  <2>2. CASE sink # "open"
    <3>1. lines = file /\ file \in Seq(Line)
      BY <1>1, <2>2, NothingFlushed DEF LogInv, FileFits
    <3> QED  BY <3>1
  <2> QED  BY <2>1, <2>2
<1>3. PICK records : records = Records(lines)
  OBVIOUS
<1>4. records \in Seq(Record)
  <2>1. PICK n : n = Len(lines) /\ n \in Nat
    BY <1>2
  <2>2. ASSUME NEW i \in 1..n PROVE lines[i].record \in Record
    <3>1. lines[i] \in Line
      BY <1>2, <2>1
    <3> QED  BY <3>1 DEF Line
  <2>3. records = [i \in 1..n |-> lines[i].record]
    BY <1>3, <2>1 DEF Records
  <2>4. records \in [1..n -> Record]
    BY <2>2, <2>3
  <2> QED  BY <2>1, <2>4
<1>5. PICK verdict : verdict = ReportOf(records)
  OBVIOUS
<1>6. /\ \A s \in Status \ {"DUPLICATE", "OUT_OF_ORDER"} :
            verdict.counts[s] = Counted(records, s)
      /\ verdict.counts["DUPLICATE"] = Repeated(records)
      /\ SumFunctionOnSet(verdict.counts, Status) = Len(records)
      /\ verdict.accepted <=>
            \A i \in 1..Len(records) : /\ Advances(records, i)
                                       /\ PairStatus(records[i].decision) # "SHADOW_MISSING"
      /\ verdict.rollout <=>
            \A i \in 1..Len(records) : /\ Advances(records, i)
                                       /\ records[i].decision.owner = "master"
                                       /\ records[i].decision.shadow # "none"
  BY <1>4, <1>5, ReportIsTrue
<1> QED  BY <1>1, <1>3, <1>5, <1>6 DEF ReportTellsTheTruth

\* At any moment the report made of the log counts each record once, under the
\* status the records before it give it; it accepts exactly when the attempts of
\* every request only advance and none lacks a verdict, and it is ready for
\* rollout exactly when moreover each compares two hosts of a push owner.
THEOREM ReportStaysTrue == Spec => []ReportTellsTheTruth
<1>1. Init => LogInv
  BY InitLog
<1>2. LogInv /\ [Next]_vars => LogInv'
  BY StepKeepsLog
<1> QED  BY <1>1, <1>2, LogReported, PTL DEF Spec
-----------------------------------------------------------------------------
(* The rankings.                                                             *)

Rankings == [Arms -> Scores]

LEMMA OrderIs ==
    ASSUME NEW s \in Rankings, NEW p \in Pairs
    PROVE  /\ Order(s, p) \in {-1, 0, 1}
           /\ Order(s, p) = 0 <=> s[p[1]] = s[p[2]]
<1>1. s[p[1]] \in Int /\ s[p[2]] \in Int
  BY ReconciliationAssumption DEF Rankings, Pairs
<1> QED  BY <1>1 DEF Order, Sign

\* Two arms that are not one are a pair, one way or the other.
LEMMA ArmsPair ==
    ASSUME NEW a \in Arms, NEW b \in Arms, a # b
    PROVE  \E p \in Pairs : (p[1] = a /\ p[2] = b) \/ (p[1] = b /\ p[2] = a)
<1>1. a \in Nat /\ b \in Nat
  BY ReconciliationAssumption
<1>2. CASE a < b
  <2>1. <<a, b>> \in Pairs
    BY <1>2 DEF Pairs
  <2> QED  BY <2>1
<1>3. CASE b < a
  <2>1. <<b, a>> \in Pairs
    BY <1>3 DEF Pairs
  <2> QED  BY <2>1
<1> QED  BY <1>1, <1>2, <1>3

\* If each ranking orders some pair, some pair is ordered by both: ties are an
\* equivalence, and the union of two is everything only if one of them is.
LEMMA BothOrderOne ==
    ASSUME NEW l \in Rankings, NEW r \in Rankings,
           \E p \in Pairs : Order(l, p) # 0, \E p \in Pairs : Order(r, p) # 0
    PROVE  \E p \in Pairs : Order(l, p) # 0 /\ Order(r, p) # 0
<1>1. PICK a, b : a \in Arms /\ b \in Arms /\ l[a] # l[b]
  <2>1. PICK p \in Pairs : Order(l, p) # 0
    OBVIOUS
  <2>2. p[1] \in Arms /\ p[2] \in Arms /\ l[p[1]] # l[p[2]]
    BY <2>1, OrderIs DEF Pairs
  <2> QED  BY <2>2
<1>2. PICK c, d : c \in Arms /\ d \in Arms /\ r[c] # r[d]
  <2>1. PICK p \in Pairs : Order(r, p) # 0
    OBVIOUS
  <2>2. p[1] \in Arms /\ p[2] \in Arms /\ r[p[1]] # r[p[2]]
    BY <2>1, OrderIs DEF Pairs
  <2> QED  BY <2>2
<1>3. PICK x, y : x \in Arms /\ y \in Arms /\ l[x] # l[y] /\ r[x] # r[y]
  <2>1. CASE r[a] # r[b]
    BY <1>1, <2>1
  <2>2. CASE r[a] = r[b]
    <3>1. PICK e : e \in Arms /\ r[e] # r[a]
      BY <1>1, <1>2
    <3>2. l[e] # l[a] \/ l[e] # l[b]
      BY <1>1
    <3> QED  BY <1>1, <2>2, <3>1, <3>2
  <2> QED  BY <2>1, <2>2
<1>4. PICK p \in Pairs : (p[1] = x /\ p[2] = y) \/ (p[1] = y /\ p[2] = x)
  BY <1>3, ArmsPair
<1>5. l[p[1]] # l[p[2]] /\ r[p[1]] # r[p[2]]
  BY <1>3, <1>4
<1> QED  BY <1>5, OrderIs

LEMMA PairsAreFinite == IsFiniteSet(Pairs)
<1>1. IsFiniteSet(Arms)
  BY ReconciliationAssumption
<1>2. IsFiniteSet(Arms \X Arms)
  BY <1>1, FS_Product
<1>3. Pairs \subseteq Arms \X Arms
  BY DEF Pairs
<1> QED  BY <1>2, <1>3, FS_Subset

\* A number no wider than two others has a square no greater than their product.
LEMMA SquareInProduct ==
    ASSUME NEW m \in Nat, NEW a \in Nat, NEW b \in Nat, NEW e \in Int,
           m <= a, m <= b, e <= m, 0 - e <= m
    PROVE  e * e <= a * b
<1>1. e * e <= m * m
  <2>1. CASE 0 <= e
    <3>1. e * e <= e * m
      BY <2>1
    <3>2. e * m <= m * m
      BY <2>1
    <3>3. e * e \in Int /\ e * m \in Int /\ m * m \in Int
      OBVIOUS
    <3> QED  BY <3>1, <3>2, <3>3
  <2>2. CASE e < 0
    <3>1. PICK k : k = 0 - e
      OBVIOUS
    <3>2. k \in Nat /\ k <= m /\ e * e = k * k
      BY <2>2, <3>1
    <3>3. k * k <= k * m
      BY <3>2
    <3>4. k * m <= m * m
      BY <3>2
    <3>5. k * k \in Int /\ k * m \in Int /\ m * m \in Int
      BY <3>2
    <3> QED  BY <3>2, <3>3, <3>4, <3>5
  <2> QED  BY <2>1, <2>2
<1>2. m * m <= a * m
  OBVIOUS
<1>3. a * m <= a * b
  OBVIOUS
<1>4. e * e \in Int /\ m * m \in Int /\ a * m \in Int /\ a * b \in Int
  OBVIOUS
<1> QED  BY <1>1, <1>2, <1>3, <1>4

\* What the two counts of a comparison are, and what they divide.
LEMMA ComparisonIs ==
    ASSUME NEW l \in Rankings, NEW r \in Rankings, NEW c, c = Concordance(l, r),
           NEW n, n = Cardinality(Pairs)
    PROVE  /\ c.concordant \in Nat /\ c.discordant \in Nat
           /\ n - c.left_ties \in Nat /\ n - c.right_ties \in Nat
           /\ c.concordant + c.discordant <= n - c.left_ties
           /\ c.concordant + c.discordant <= n - c.right_ties
           /\ n - c.left_ties # 0 /\ n - c.right_ties # 0
                 => c.concordant + c.discordant > 0
<1>1. PICK lt, rt, strict, agree :
         /\ lt = {p \in Pairs : Order(l, p) = 0}
         /\ rt = {p \in Pairs : Order(r, p) = 0}
         /\ strict = {p \in Pairs : Order(l, p) # 0 /\ Order(r, p) # 0}
         /\ agree = {p \in strict : Order(l, p) = Order(r, p)}
  OBVIOUS
<1>2. c = [concordant |-> Cardinality(agree), discordant |-> Cardinality(strict \ agree),
           left_ties |-> Cardinality(lt), right_ties |-> Cardinality(rt)]
  BY <1>1 DEF Concordance
<1>3. /\ IsFiniteSet(Pairs) /\ lt \subseteq Pairs /\ rt \subseteq Pairs
      /\ strict \subseteq Pairs /\ agree \subseteq strict
      /\ strict \subseteq Pairs \ lt /\ strict \subseteq Pairs \ rt
  BY <1>1, PairsAreFinite
<1>4. /\ IsFiniteSet(strict) /\ IsFiniteSet(lt) /\ IsFiniteSet(rt)
      /\ IsFiniteSet(Pairs \ lt) /\ IsFiniteSet(Pairs \ rt)
  <2>1. Pairs \ lt \subseteq Pairs /\ Pairs \ rt \subseteq Pairs
    OBVIOUS
  <2> QED  BY <1>3, <2>1, FS_Subset
<1>5. IsFiniteSet(agree) /\ IsFiniteSet(strict \ agree)
  BY <1>3, <1>4, FS_Subset
<1>6. /\ Cardinality(agree) \in Nat /\ Cardinality(strict \ agree) \in Nat
      /\ Cardinality(strict) = Cardinality(agree) + Cardinality(strict \ agree)
  <2>1. Cardinality(strict \ agree) = Cardinality(strict) - Cardinality(strict \cap agree)
    BY <1>4, FS_Difference
  <2>2. strict \cap agree = agree
    BY <1>3
  <2>3. Cardinality(agree) \in Nat /\ Cardinality(strict \ agree) \in Nat
        /\ Cardinality(strict) \in Nat
    BY <1>4, <1>5, FS_CardinalityType
  <2> QED  BY <2>1, <2>2, <2>3
<1>7. /\ n - Cardinality(lt) = Cardinality(Pairs \ lt)
      /\ n - Cardinality(rt) = Cardinality(Pairs \ rt)
  <2>1. Pairs \cap lt = lt /\ Pairs \cap rt = rt
    BY <1>3
  <2> QED  BY <1>3, <2>1, FS_Difference
<1>8. /\ Cardinality(strict) <= Cardinality(Pairs \ lt)
      /\ Cardinality(strict) <= Cardinality(Pairs \ rt)
      /\ Cardinality(Pairs \ lt) \in Nat /\ Cardinality(Pairs \ rt) \in Nat
  BY <1>3, <1>4, FS_Subset, FS_CardinalityType
<1>9. ASSUME Cardinality(Pairs \ lt) # 0, Cardinality(Pairs \ rt) # 0
      PROVE  Cardinality(strict) # 0
  <2>1. Pairs \ lt # {} /\ Pairs \ rt # {}
    BY <1>9, FS_EmptySet
  <2>2. (\E p \in Pairs : Order(l, p) # 0) /\ \E p \in Pairs : Order(r, p) # 0
    BY <1>1, <2>1
  <2>3. \E p \in Pairs : Order(l, p) # 0 /\ Order(r, p) # 0
    BY <2>2, BothOrderOne
  <2>4. strict # {}
    BY <1>1, <2>3
  <2> QED  BY <1>4, <2>4, FS_EmptySet
<1> QED  BY <1>2, <1>6, <1>7, <1>8, <1>9

LEMMA ComparisonHolds ==
    ASSUME NEW l \in Rankings, NEW r \in Rankings, NEW c, c = Concordance(l, r),
           NEW tau, tau = TauB(l, r), tau.denominator # 0
    PROVE  /\ c.concordant + c.discordant > 0
           /\ tau.excess * tau.excess <= tau.denominator
<1>1. PICK n, x, y, a, b :
         /\ n = Cardinality(Pairs) /\ x = c.concordant /\ y = c.discordant
         /\ a = n - c.left_ties /\ b = n - c.right_ties
  OBVIOUS
<1>2. tau = [excess |-> x - y, denominator |-> a * b]
  BY <1>1 DEF TauB
<1>3. /\ x \in Nat /\ y \in Nat /\ a \in Nat /\ b \in Nat /\ x + y <= a /\ x + y <= b
      /\ a # 0 /\ b # 0 => x + y > 0
  BY <1>1, ComparisonIs
<1>4. a # 0 /\ b # 0
  <2>1. a * b # 0
    BY <1>2
  <2> QED  BY <1>3, <2>1
<1>5. PICK e, m : e = x - y /\ m = x + y
  OBVIOUS
<1>6. m \in Nat /\ e \in Int /\ e <= m /\ 0 - e <= m /\ m <= a /\ m <= b
  BY <1>3, <1>5
<1>7. e * e <= a * b
  BY <1>3, <1>6, SquareInProduct
<1> QED  BY <1>1, <1>2, <1>3, <1>4, <1>5, <1>7
-----------------------------------------------------------------------------
(* The verdict.                                                              *)

Judgeable == {c \in [attempts : Nat, settled : Nat, disagreement : Nat] :
            c.attempts = 0 => c.disagreement = 0}

\* What is no more when it is taken often, is no more.
LEMMA TimesMonotone ==
    ASSUME NEW x \in Nat, NEW y \in Nat, NEW s \in Nat
    PROVE  /\ x <= y => x * s <= y * s
           /\ s # 0 /\ x * s <= y * s => x <= y
<1>1. ASSUME x <= y PROVE x * s <= y * s
  BY <1>1
<1>2. ASSUME s # 0, x * s <= y * s PROVE x <= y
  <2>1. CASE x <= y
    BY <2>1
  <2>2. CASE y + 1 <= x
    <3>1. (y + 1) * s <= x * s
      BY <2>2
    <3>2. (y + 1) * s = y * s + s
      OBVIOUS
    <3>3. x * s \in Int /\ y * s \in Int
      OBVIOUS
    <3> QED  BY <1>2, <3>1, <3>2, <3>3
  <2> QED  BY <2>1, <2>2
<1> QED  BY <1>1, <1>2

\* p/q <= r/s <= t/u.
LEMMA FractionsInOrder ==
    ASSUME NEW p \in Nat, NEW q \in Nat, NEW r \in Nat, NEW s \in Nat, s # 0,
           NEW t \in Nat, NEW u \in Nat, p * s <= r * q, r * u <= t * s
    PROVE  p * u <= t * q
<1>1. (p * s) * u <= (r * q) * u
  <2>1. p * s \in Nat /\ r * q \in Nat
    OBVIOUS
  <2> QED  BY <2>1, TimesMonotone
<1>2. (r * u) * q <= (t * s) * q
  <2>1. r * u \in Nat /\ t * s \in Nat
    OBVIOUS
  <2> QED  BY <2>1, TimesMonotone
<1>3. (p * s) * u = (p * u) * s /\ (r * q) * u = (r * u) * q /\ (t * s) * q = (t * q) * s
  OBVIOUS
<1>4. p * u \in Nat /\ t * q \in Nat /\ (p * u) * s \in Nat /\ (r * u) * q \in Nat
      /\ (t * q) * s \in Nat
  OBVIOUS
<1>5. (p * u) * s <= (t * q) * s
  BY <1>1, <1>2, <1>3, <1>4
<1> QED  BY <1>4, <1>5, TimesMonotone

NoBetter(c, d) ==
    IF c.attempts = 0 THEN TRUE
    ELSE d.attempts # 0 /\ c.settled * d.attempts <= d.settled * c.attempts

\* Among some cells one is the worst.
LEMMA WorstExists ==
    ASSUME NEW S \in SUBSET Judgeable, IsFiniteSet(S), S # {}
    PROVE  \E c \in S : \A d \in S : NoBetter(c, d)
<1> DEFINE T == {u \in SUBSET S : u # {} => \E c \in u : \A d \in u : NoBetter(c, d)}
<1>1. {} \in T
  OBVIOUS
<1>2. ASSUME NEW u \in T, NEW x \in S, x \notin u PROVE u \cup {x} \in T
  <2>0. /\ \A d \in S : d.attempts \in Nat /\ d.settled \in Nat
        /\ u \in SUBSET S
    BY DEF Judgeable
  <2>1. CASE x.attempts = 0
    <3>1. \A d \in u \cup {x} : NoBetter(x, d)
      BY <2>1 DEF NoBetter
    <3> QED  BY <2>0, <3>1
  <2>2. CASE x.attempts # 0
    <3>0. NoBetter(x, x)
      BY <2>0, <2>2 DEF NoBetter
    <3>1. CASE u = {}
      <4>1. \A d \in u \cup {x} : NoBetter(x, d)
        BY <3>0, <3>1
      <4> QED  BY <2>0, <4>1
    <3>2. CASE u # {}
      <4>1. PICK m \in u : \A d \in u : NoBetter(m, d)
        BY <1>2, <3>2
      <4>2. CASE NoBetter(m, x)
        <5>1. \A d \in u \cup {x} : NoBetter(m, d)
          BY <4>1, <4>2
        <5> QED  BY <2>0, <5>1
      <4>3. CASE ~NoBetter(m, x)
        <5>1. /\ m.attempts # 0
              /\ ~(m.settled * x.attempts <= x.settled * m.attempts)
          BY <2>2, <4>3 DEF NoBetter
        <5>2. /\ m.attempts \in Nat /\ m.settled \in Nat
              /\ x.attempts \in Nat /\ x.settled \in Nat
          BY <2>0
        <5>3. x.settled * m.attempts <= m.settled * x.attempts
          <6>1. m.settled * x.attempts \in Int /\ x.settled * m.attempts \in Int
            BY <5>2
          <6> QED  BY <5>1, <6>1
        <5>4. ASSUME NEW d \in u PROVE NoBetter(x, d)
          <6>1. /\ d.attempts \in Nat /\ d.settled \in Nat /\ d.attempts # 0
                /\ m.settled * d.attempts <= d.settled * m.attempts
            BY <2>0, <4>1, <5>1 DEF NoBetter
          <6>2. x.settled * d.attempts <= d.settled * x.attempts
            BY <5>1, <5>2, <5>3, <6>1, FractionsInOrder
          <6> QED  BY <6>1, <6>2 DEF NoBetter
        <5>5. \A d \in u \cup {x} : NoBetter(x, d)
          BY <3>0, <5>4
        <5> QED  BY <2>0, <5>5
      <4> QED  BY <4>2, <4>3
    <3> QED  BY <3>1, <3>2
  <2> QED  BY <2>1, <2>2
<1>3. T \in SUBSET SUBSET S
  OBVIOUS
<1>4. T = SUBSET S
  <2>1. \A u, x : u \in T /\ x \in S /\ x \notin u => u \cup {x} \in T
    BY <1>2
  <2> HIDE DEF T
  <2> QED  BY <1>1, <1>3, <2>1, ElementInduction
<1> QED  BY <1>4

LEMMA WorstIs ==
    ASSUME NEW S \in SUBSET Judgeable, IsFiniteSet(S), S # {}, NEW c, c = Least(S, "settled")
    PROVE  c \in S /\ \A d \in S : NoBetter(c, d)
<1>1. \E e \in S : \A d \in S : NoBetter(e, d)
  BY WorstExists
<1>2. c = CHOOSE e \in S : \A d \in S : NoBetter(e, d)
  BY DEF Least, NoBetter
<1> QED  BY <1>1, <1>2

\* A candidate nothing withholds has no bad cell.
LEMMA NoReasonNoBadCell ==
    ASSUME NEW l \in Rankings, NEW r \in Rankings, NEW candidate,
           cells \in Seq(Judgeable), cells # <<>>, GateReasons(l, r, candidate) = {},
           NEW i \in DOMAIN cells
    PROVE  /\ cells[i].settled * MinReconciled[2] >= cells[i].attempts * MinReconciled[1]
           /\ cells[i].disagreement * MaxDisagreement[2]
                 <= cells[i].attempts * MaxDisagreement[1]
           /\ MinReconciled[1] > 0 => cells[i].attempts > 0
<1>1. PICK S, c : S = {cells[j] : j \in DOMAIN cells} /\ c = Least(S, "settled")
  OBVIOUS
<1>2. /\ DOMAIN cells = 1..Len(cells) /\ Len(cells) \in Nat
      /\ S \in SUBSET Judgeable /\ cells[i] \in S
  BY <1>1
<1>3. IsFiniteSet(S) /\ S # {}
  <2>1. IsFiniteSet(DOMAIN cells)
    BY <1>2, FS_Interval
  <2> QED  BY <1>1, <1>2, <2>1, ImageIsFinite
<1>4. c \in S /\ \A d \in S : NoBetter(c, d)
  BY <1>1, <1>2, <1>3, WorstIs
<1>5. PICK m1, m2, t1, t2 : /\ m1 = MinReconciled[1] /\ m2 = MinReconciled[2]
                            /\ t1 = MaxDisagreement[1] /\ t2 = MaxDisagreement[2]
  OBVIOUS
<1>6. m1 \in Nat /\ m2 \in Nat \ {0} /\ t1 \in Nat /\ t2 \in Nat \ {0}
  BY <1>5, ReconciliationAssumption
<1>7. /\ ~Below(c.settled, c.attempts, MinReconciled)
      /\ \A d \in S : ~Above(d.disagreement, d.attempts, MaxDisagreement)
  BY <1>1 DEF GateReasons
<1>8. PICK d, a, s, g : /\ d = cells[i] /\ a = d.attempts /\ s = d.settled
                        /\ g = d.disagreement
  OBVIOUS
<1>9. d \in S /\ a \in Nat /\ s \in Nat /\ g \in Nat /\ (a = 0 => g = 0)
  BY <1>2, <1>8 DEF Judgeable
<1>10. c.attempts \in Nat /\ c.settled \in Nat
  BY <1>2, <1>4 DEF Judgeable
<1>11. g * t2 <= a * t1
  <2>1. CASE a = 0
    BY <1>6, <1>9, <2>1
  <2>2. CASE a # 0
    <3>1. ~(g * t2 > t1 * a)
      BY <1>5, <1>7, <1>8, <1>9, <2>2 DEF Above
    <3>2. g * t2 \in Int /\ t1 * a \in Int /\ t1 * a = a * t1
      BY <1>6, <1>9
    <3> QED  BY <3>1, <3>2
  <2> QED  BY <2>1, <2>2
<1>12. s * m2 >= a * m1 /\ (m1 > 0 => a > 0)
  <2>1. CASE c.attempts = 0
    <3>1. m1 = 0
      <4>1. ~Below(c.settled, 0, MinReconciled)
        BY <1>7, <2>1
      <4>2. ~(MinReconciled[1] > 0)
        BY <4>1 DEF Below
      <4> QED  BY <1>5, <1>6, <4>2
    <3>2. s * m2 \in Nat
      BY <1>6, <1>9
    <3>3. a * m1 = 0
      BY <1>9, <3>1
    <3> QED  BY <3>1, <3>2, <3>3
  <2>2. CASE c.attempts # 0
    <3>1. a # 0 /\ c.settled * a <= s * c.attempts
      BY <1>4, <1>8, <1>9, <2>2 DEF NoBetter
    <3>2. ~(c.settled * m2 < m1 * c.attempts)
      BY <1>5, <1>7, <2>2 DEF Below
    <3>3. m1 * c.attempts <= c.settled * m2
      <4>1. m1 * c.attempts \in Int /\ c.settled * m2 \in Int
        BY <1>6, <1>10
      <4> QED  BY <3>2, <4>1
    <3>4. m1 * a <= s * m2
      <4>1. PICK x, y : x = c.settled /\ y = c.attempts
        OBVIOUS
      <4>2. x \in Nat /\ y \in Nat /\ y # 0 /\ m1 * y <= x * m2 /\ x * a <= s * y
        BY <1>10, <2>2, <3>1, <3>3, <4>1
      <4> QED  BY <1>6, <1>9, <4>2, FractionsInOrder
    <3>5. m1 * a = a * m1 /\ m1 * a \in Int /\ s * m2 \in Int
      BY <1>6, <1>9
    <3> QED  BY <1>9, <3>1, <3>4, <3>5
  <2> QED  BY <2>1, <2>2
<1> QED  BY <1>5, <1>8, <1>11, <1>12
-----------------------------------------------------------------------------
(* The join.                                                                 *)

\* A plan damages a record once.
PlanFits ==
    /\ \A d \in plan : \E s \in Sources, k \in Keys : d \in Faults(s, k)
    /\ \A d, e \in plan : d.target = e.target => d = e

Told(s, f, k) ==
    IF \E fault \in PerturbationOf(s, k) : fault.field = f
    THEN (CHOOSE fault \in PerturbationOf(s, k) : TRUE).value ELSE CleanValue

\* What the plan leaves of the one record of an attempt.
Left(s, k) ==
    IF <<s, k>> \in Hit("drop") THEN <<>>
    ELSE IF <<s, k>> \in Hit("duplicate") THEN <<CleanRecord(s), CleanRecord(s)>>
    ELSE <<[f \in FieldsOf(s) |-> Told(s, f, k)]>>

BundleFits == \A s \in Sources, k \in Keys : bundle[s][k] = Left(s, k)

LEMMA DamagedIsLeft ==
    ASSUME bundle = Clean, NEW s \in Sources, NEW k \in Keys
    PROVE  Damaged(s, k) = Left(s, k)
<1>1. PICK x : x = CleanRecord(s)
  OBVIOUS
<1>2. bundle[s][k] = <<x>> /\ x = [f \in FieldsOf(s) |-> CleanValue]
  BY <1>1 DEF Clean, CleanRecord
<1>3. <<x>> \o <<x>> = <<x, x>>
  <2>1. PICK one, two : one = <<x>> /\ two = one \o one
    OBVIOUS
  <2>2. one \in Seq({x}) /\ Len(one) = 1 /\ one[1] = x
    BY <2>1
  <2>3. two \in Seq({x}) /\ Len(two) = 2 /\ two[1] = x /\ two[2] = x
    BY <2>1, <2>2, ConcatProperties
  <2>4. two = <<x, x>>
    BY <2>3
  <2> QED  BY <2>1, <2>4
<1>4. PICK y : y = [f \in FieldsOf(s) |-> Told(s, f, k)]
  OBVIOUS
<1>5. [i \in DOMAIN <<x>> |->
          [f \in FieldsOf(s) |->
             IF \E fault \in PerturbationOf(s, k) : fault.field = f
             THEN (CHOOSE fault \in PerturbationOf(s, k) : TRUE).value
             ELSE <<x>>[i][f]]] = <<y>>
  <2>1. DOMAIN <<x>> = 1..1 /\ \A i \in 1..1 : <<x>>[i] = x
    OBVIOUS
  <2>2. ASSUME NEW i \in DOMAIN <<x>>
        PROVE  [f \in FieldsOf(s) |->
                  IF \E fault \in PerturbationOf(s, k) : fault.field = f
                  THEN (CHOOSE fault \in PerturbationOf(s, k) : TRUE).value
                  ELSE <<x>>[i][f]] = y
    <3>1. \A f \in FieldsOf(s) : <<x>>[i][f] = CleanValue
      BY <1>2, <2>1
    <3> QED  BY <1>4, <3>1 DEF Told
  <2>3. [i \in DOMAIN <<x>> |->
          [f \in FieldsOf(s) |->
             IF \E fault \in PerturbationOf(s, k) : fault.field = f
             THEN (CHOOSE fault \in PerturbationOf(s, k) : TRUE).value
             ELSE <<x>>[i][f]]] = [i \in DOMAIN <<x>> |-> y]
    BY <2>2
  <2>4. [i \in DOMAIN <<x>> |-> y] = <<y>>
    <3>1. PICK g : g = [i \in 1..1 |-> y]
      OBVIOUS
    <3>2. g \in Seq({y}) /\ Len(g) = 1 /\ g[1] = y
      BY <3>1
    <3>3. g = <<y>>
      BY <3>2
    <3> QED  BY <2>1, <3>1, <3>3
  <2> QED  BY <2>3, <2>4
<1>6. CASE <<s, k>> \in Hit("drop")
  BY <1>6 DEF Damaged, Left
<1>7. CASE <<s, k>> \notin Hit("drop") /\ <<s, k>> \in Hit("duplicate")
  BY <1>1, <1>2, <1>3, <1>7 DEF Damaged, Left
<1>8. CASE <<s, k>> \notin Hit("drop") /\ <<s, k>> \notin Hit("duplicate")
  <2>1. Damaged(s, k) = <<y>>
    BY <1>2, <1>5, <1>8 DEF Damaged
  <2> QED  BY <1>4, <1>8, <2>1 DEF Left
<1> QED  BY <1>6, <1>7, <1>8

\* The kinds of defect in the order of their precedence.
LEMMA ExpectedIs ==
    ASSUME NEW k, NEW c, c = DefectsOf(k)
    PROVE  ExpectedEntries(k) =
              IF c.DUPLICATE # {} THEN c.DUPLICATE
              ELSE IF c.MISSING # {} THEN c.MISSING ELSE c.DISAGREEMENT
<1>1. /\ DOMAIN Precedence = {1, 2, 3} /\ Precedence[1] = "DUPLICATE"
      /\ Precedence[2] = "MISSING" /\ Precedence[3] = "DISAGREEMENT"
  BY DEF Precedence
<1>2. 1..0 = {} /\ 1..1 = {1} /\ 1..2 = {1, 2} /\ 1 - 1 = 0 /\ 2 - 1 = 1 /\ 3 - 1 = 2
  OBVIOUS
<1>3. PICK tier : tier = [i \in {1, 2, 3} |->
                            IF \A j \in 1..(i - 1) : c[Precedence[j]] = {}
                            THEN c[Precedence[i]] ELSE {}]
  OBVIOUS
<1>4. ExpectedEntries(k) = UNION {tier[i] : i \in {1, 2, 3}}
  <2>1. ExpectedEntries(k) = UNION {IF \A j \in 1..(i - 1) : c[Precedence[j]] = {}
                                    THEN c[Precedence[i]] ELSE {} : i \in {1, 2, 3}}
    BY <1>1 DEF ExpectedEntries
  <2>2. {IF \A j \in 1..(i - 1) : c[Precedence[j]] = {}
            THEN c[Precedence[i]] ELSE {} : i \in {1, 2, 3}} = {tier[i] : i \in {1, 2, 3}}
    <3>1. \A i \in {1, 2, 3} :
             tier[i] = IF \A j \in 1..(i - 1) : c[Precedence[j]] = {}
                       THEN c[Precedence[i]] ELSE {}
      BY <1>3
    <3> QED  BY <3>1
  <2> QED  BY <2>1, <2>2
<1>5. /\ tier[1] = c.DUPLICATE
      /\ tier[2] = IF c.DUPLICATE = {} THEN c.MISSING ELSE {}
      /\ tier[3] = IF c.DUPLICATE = {} /\ c.MISSING = {} THEN c.DISAGREEMENT ELSE {}
  <2>1. tier[1] = c.DUPLICATE
    BY <1>1, <1>2, <1>3
  <2>2. tier[2] = IF c.DUPLICATE = {} THEN c.MISSING ELSE {}
    BY <1>1, <1>2, <1>3
  <2>3. tier[3] = IF c.DUPLICATE = {} /\ c.MISSING = {} THEN c.DISAGREEMENT ELSE {}
    BY <1>1, <1>2, <1>3
  <2> QED  BY <2>1, <2>2, <2>3
<1>6. UNION {tier[i] : i \in {1, 2, 3}} = tier[1] \cup tier[2] \cup tier[3]
  OBVIOUS
<1>7. ExpectedEntries(k) = tier[1] \cup tier[2] \cup tier[3]
  BY <1>4, <1>6
<1>8. CASE c.DUPLICATE # {}
  BY <1>5, <1>7, <1>8
<1>9. CASE c.DUPLICATE = {} /\ c.MISSING # {}
  BY <1>5, <1>7, <1>9
<1>10. CASE c.DUPLICATE = {} /\ c.MISSING = {}
  BY <1>5, <1>7, <1>10
<1> QED  BY <1>8, <1>9, <1>10

\* The field values the sources would disagree about.
Disputes(k) ==
    {Entry("DISAGREEMENT", k, f, [s \in Observers[f] |-> Told(s, f, k)]) :
        f \in {g \in SharedFields : Cardinality({Told(s, g, k) : s \in Observers[g]}) > 1}}

At(how, k) == {s \in Sources : <<s, k>> \in Hit(how)}

LEMMA DefectsAre ==
    ASSUME NEW k
    PROVE  ExpectedEntries(k) =
              IF At("duplicate", k) # {}
              THEN {Entry("DUPLICATE", k, "", [s \in At("duplicate", k) |-> 2])}
              ELSE IF At("drop", k) # {}
              THEN {Entry("MISSING", k, "", [s \in At("drop", k) |-> ABSENT])}
              ELSE Disputes(k)
<1>1. PICK c : c = DefectsOf(k)
  OBVIOUS
<1>2. /\ c.DUPLICATE = IF At("duplicate", k) = {} THEN {}
                       ELSE {Entry("DUPLICATE", k, "", [s \in At("duplicate", k) |-> 2])}
      /\ c.MISSING = IF At("drop", k) = {} THEN {}
                     ELSE {Entry("MISSING", k, "", [s \in At("drop", k) |-> ABSENT])}
      /\ c.DISAGREEMENT = Disputes(k)
  BY <1>1, Zenon DEF DefectsOf, At, Disputes, Told
<1>3. ExpectedEntries(k) = IF c.DUPLICATE # {} THEN c.DUPLICATE
                           ELSE IF c.MISSING # {} THEN c.MISSING ELSE c.DISAGREEMENT
  BY <1>1, ExpectedIs
<1> QED  BY <1>2, <1>3, Zenon

\* A record is hit once.
LEMMA HitOnce ==
    ASSUME PlanFits, NEW x
    PROVE  ~(x \in Hit("drop") /\ x \in Hit("duplicate"))
<1> SUFFICES ASSUME x \in Hit("drop"), x \in Hit("duplicate") PROVE FALSE
  OBVIOUS
<1>1. PICK d \in plan : d.kind = "drop" /\ d.target = x
  BY DEF Hit
<1>2. PICK e \in plan : e.kind = "duplicate" /\ e.target = x
  BY DEF Hit
<1>3. d = e
  BY <1>1, <1>2 DEF PlanFits
<1> QED  BY <1>1, <1>2, <1>3

LEMMA LeftIs ==
    ASSUME PlanFits, NEW s, NEW k, NEW x, x = Left(s, k)
    PROVE  /\ Len(x) > 1 <=> <<s, k>> \in Hit("duplicate")
           /\ x = <<>> <=> <<s, k>> \in Hit("drop")
           /\ <<s, k>> \in Hit("duplicate") => Len(x) = 2
           /\ <<s, k>> \notin Hit("duplicate") /\ <<s, k>> \notin Hit("drop")
                 => \A f \in FieldsOf(s) : x[1][f] = Told(s, f, k)
<1>1. CASE <<s, k>> \in Hit("drop")
  <2>1. <<s, k>> \notin Hit("duplicate")
    BY <1>1, HitOnce
  <2>2. x = <<>> /\ Len(<<>>) = 0
    BY <1>1 DEF Left
  <2> QED  BY <1>1, <2>1, <2>2
<1>2. CASE <<s, k>> \in Hit("duplicate")
  <2>1. <<s, k>> \notin Hit("drop")
    BY <1>2, HitOnce
  <2>2. PICK c : c = CleanRecord(s)
    OBVIOUS
  <2>3. x = <<c, c>>
    BY <1>2, <2>1, <2>2 DEF Left
  <2>4. Len(x) = 2 /\ x # <<>>
    BY <2>3
  <2> QED  BY <1>2, <2>1, <2>4
<1>3. CASE <<s, k>> \notin Hit("duplicate") /\ <<s, k>> \notin Hit("drop")
  <2>1. PICK y : y = [f \in FieldsOf(s) |-> Told(s, f, k)]
    OBVIOUS
  <2>2. x = <<y>>
    BY <1>3, <2>1 DEF Left
  <2>3. Len(x) = 1 /\ x # <<>> /\ x[1] = y
    BY <2>2
  <2> QED  BY <1>3, <2>1, <2>3
<1> QED  BY <1>1, <1>2, <1>3

\* The join charges an attempt with what the oracle expects of it.
LEMMA ChargesAre ==
    ASSUME PlanFits, BundleFits, NEW k \in Keys
    PROVE  Charges(k) = ExpectedEntries(k)
<1> DEFINE twice == {s \in Sources : Len(bundle[s][k]) > 1}
           absent == {s \in Sources : bundle[s][k] = <<>>}
           disputes == {Entry("DISAGREEMENT", k, f, [s \in Observers[f] |-> bundle[s][k][1][f]]) :
                           f \in {g \in SharedFields :
                                    Cardinality({bundle[s][k][1][g] : s \in Observers[g]}) > 1}}
<1>1. Charges(k) = IF twice # {}
                   THEN {Entry("DUPLICATE", k, "", [s \in twice |-> Len(bundle[s][k])])}
                   ELSE IF absent # {}
                   THEN {Entry("MISSING", k, "", [s \in absent |-> ABSENT])}
                   ELSE disputes
  BY DEF Charges
<1>2. ASSUME NEW s \in Sources
      PROVE  /\ Len(bundle[s][k]) > 1 <=> <<s, k>> \in Hit("duplicate")
             /\ bundle[s][k] = <<>> <=> <<s, k>> \in Hit("drop")
             /\ <<s, k>> \in Hit("duplicate") => Len(bundle[s][k]) = 2
             /\ <<s, k>> \notin Hit("duplicate") /\ <<s, k>> \notin Hit("drop")
                   => \A f \in FieldsOf(s) : bundle[s][k][1][f] = Told(s, f, k)
  <2>1. bundle[s][k] = Left(s, k)
    BY DEF BundleFits
  <2> QED  BY <2>1, LeftIs
<1>3. twice = At("duplicate", k) /\ absent = At("drop", k)
  BY <1>2 DEF At
<1>4. [s \in twice |-> Len(bundle[s][k])] = [s \in At("duplicate", k) |-> 2]
  <2>1. \A s \in At("duplicate", k) : Len(bundle[s][k]) = 2
    BY <1>2 DEF At
  <2> HIDE DEF twice
  <2> QED  BY <1>3, <2>1
<1>5. ASSUME twice = {}, absent = {} PROVE disputes = Disputes(k)
  <2>1. ASSUME NEW f \in SharedFields, NEW s \in Observers[f]
        PROVE  bundle[s][k][1][f] = Told(s, f, k)
    <3>1. s \in Sources
      BY DEF SharedFields, Observers, Sources
    <3>2. f \in FieldsOf(s)
      BY <3>1 DEF FieldsOf
    <3>3. <<s, k>> \notin Hit("duplicate") /\ <<s, k>> \notin Hit("drop")
      BY <1>2, <1>5, <3>1
    <3> QED  BY <1>2, <3>1, <3>2, <3>3
  <2>2. ASSUME NEW f \in SharedFields
        PROVE  /\ {bundle[s][k][1][f] : s \in Observers[f]} = {Told(s, f, k) : s \in Observers[f]}
               /\ [s \in Observers[f] |-> bundle[s][k][1][f]]
                     = [s \in Observers[f] |-> Told(s, f, k)]
    BY <2>1
  <2>3. {g \in SharedFields : Cardinality({bundle[s][k][1][g] : s \in Observers[g]}) > 1}
           = {g \in SharedFields : Cardinality({Told(s, g, k) : s \in Observers[g]}) > 1}
    BY <2>2
  <2>4. PICK G : G = {g \in SharedFields :
                         Cardinality({Told(s, g, k) : s \in Observers[g]}) > 1}
    OBVIOUS
  <2>5. disputes = {Entry("DISAGREEMENT", k, f,
                          [s \in Observers[f] |-> bundle[s][k][1][f]]) : f \in G}
    BY <2>3, <2>4
  <2>6. Disputes(k) = {Entry("DISAGREEMENT", k, f,
                             [s \in Observers[f] |-> Told(s, f, k)]) : f \in G}
    BY <2>4 DEF Disputes
  <2>7. \A f \in G : [s \in Observers[f] |-> bundle[s][k][1][f]]
                        = [s \in Observers[f] |-> Told(s, f, k)]
    BY <2>2, <2>4
  <2>8. {Entry("DISAGREEMENT", k, f, [s \in Observers[f] |-> bundle[s][k][1][f]]) : f \in G}
           = {Entry("DISAGREEMENT", k, f, [s \in Observers[f] |-> Told(s, f, k)]) : f \in G}
    <3>1. \A f \in G : Entry("DISAGREEMENT", k, f, [s \in Observers[f] |-> bundle[s][k][1][f]])
                        = Entry("DISAGREEMENT", k, f, [s \in Observers[f] |-> Told(s, f, k)])
      BY <2>7
    <3> QED  BY <3>1
  <2> HIDE DEF disputes
  <2> QED  BY <2>5, <2>6, <2>8
<1> HIDE DEF twice, absent, disputes
<1> QED  BY <1>1, <1>3, <1>4, <1>5, DefectsAre, Zenon

\* An attempt the plan leaves alone has no defect.
LEMMA UntouchedIsFree ==
    ASSUME NEW k, \A d \in plan : d.target[2] # k
    PROVE  ExpectedEntries(k) = {}
<1>1. At("duplicate", k) = {} /\ At("drop", k) = {}
  BY DEF At, Hit
<1>2. \A s, f : Told(s, f, k) = CleanValue
  <2>1. ASSUME NEW s PROVE PerturbationOf(s, k) = {}
    BY DEF PerturbationOf
  <2> QED  BY <2>1 DEF Told
<1>3. ASSUME NEW f \in SharedFields
      PROVE  ~(Cardinality({Told(s, f, k) : s \in Observers[f]}) > 1)
  <2>1. PICK t : t = {Told(s, f, k) : s \in Observers[f]}
    OBVIOUS
  <2>2. t = {} \/ t = {CleanValue}
    BY <1>2, <2>1
  <2>3. Cardinality(t) = 0 \/ Cardinality(t) = 1
    BY <2>2, FS_EmptySet, FS_Singleton
  <2> QED  BY <2>1, <2>3
<1>4. Disputes(k) = {}
  BY <1>3 DEF Disputes
<1> QED  BY <1>1, <1>4, DefectsAre, Zenon

\* An entry is about its attempt, and an attempt has one kind of them.
LEMMA ChargesAreIts ==
    ASSUME NEW k, NEW d \in Charges(k), NEW e \in Charges(k)
    PROVE  d.key = k /\ d.kind = e.kind
<1> DEFINE twice == {s \in Sources : Len(bundle[s][k]) > 1}
           absent == {s \in Sources : bundle[s][k] = <<>>}
           disputes == {Entry("DISAGREEMENT", k, f, [s \in Observers[f] |-> bundle[s][k][1][f]]) :
                           f \in {g \in SharedFields :
                                    Cardinality({bundle[s][k][1][g] : s \in Observers[g]}) > 1}}
<1>1. Charges(k) = IF twice # {}
                   THEN {Entry("DUPLICATE", k, "", [s \in twice |-> Len(bundle[s][k])])}
                   ELSE IF absent # {}
                   THEN {Entry("MISSING", k, "", [s \in absent |-> ABSENT])}
                   ELSE disputes
  BY Zenon DEF Charges
<1>2. ASSUME NEW x \in disputes PROVE x.key = k /\ x.kind = "DISAGREEMENT"
  <2>1. PICK f, v : x = Entry("DISAGREEMENT", k, f, v)
    OBVIOUS
  <2> HIDE DEF disputes
  <2> QED  BY <2>1 DEF Entry
<1> HIDE DEF twice, absent, disputes
<1>3. PICK x, y : /\ x = Entry("DUPLICATE", k, "", [s \in twice |-> Len(bundle[s][k])])
                  /\ y = Entry("MISSING", k, "", [s \in absent |-> ABSENT])
  BY Zenon
<1>4. x.key = k /\ y.key = k
  BY <1>3, Zenon DEF Entry
<1>5. Charges(k) = IF twice # {} THEN {x} ELSE IF absent # {} THEN {y} ELSE disputes
  BY <1>1, <1>3, Zenon DEF Entry
<1>6. Charges(k) = {x} \/ Charges(k) = {y} \/ Charges(k) = disputes
  BY <1>5
<1> QED  BY <1>2, <1>4, <1>6

LEMMA JoinedIsExact ==
    ASSUME PlanFits, BundleFits, report = Reconcile
    PROVE  JoinIsExact
<1>1. /\ report.attempts = Seen /\ Seen \subseteq Keys
      /\ report.ledger = UNION {Charges(k) : k \in Seen}
      /\ report.settled = {k \in Seen : Charges(k) = {}}
  BY DEF Reconcile, Seen
<1>2. \A e \in report.ledger : e.key \in Seen /\ e \in Charges(e.key)
  BY <1>1, ChargesAreIts
<1>3. \A k \in Seen : \A e \in Charges(k) : e \in report.ledger /\ e.key = k
  BY <1>1, ChargesAreIts
<1>4. PICK touched : touched = {d.target[2] : d \in plan}
  OBVIOUS
<1>5. ExpectedLedger = UNION {ExpectedEntries(k) : k \in touched}
  BY <1>4 DEF ExpectedLedger
<1>6. touched \subseteq Keys
  <2>1. ASSUME NEW d \in plan PROVE d.target[2] \in Keys
    <3>1. PICK s, k : s \in Sources /\ k \in Keys /\ d \in Faults(s, k)
      BY DEF PlanFits
    <3>2. d.target = <<s, k>>
      BY <3>1 DEF Faults
    <3> QED  BY <3>1, <3>2
  <2> QED  BY <1>4, <2>1
<1>7. \A k \in Keys : Charges(k) = ExpectedEntries(k)
  BY ChargesAre
<1>8. \A k : k \notin touched => ExpectedEntries(k) = {}
  BY <1>4, UntouchedIsFree
<1>9. report.ledger \subseteq {e \in ExpectedLedger : e.key \in report.attempts}
  <2>1. ASSUME NEW e \in report.ledger PROVE e \in ExpectedLedger /\ e.key \in report.attempts
    <3>1. PICK k : k = e.key
      OBVIOUS
    <3>2. k \in Seen /\ k \in Keys /\ e \in ExpectedEntries(k)
      BY <1>1, <1>2, <1>7, <3>1
    <3>3. k \in touched
      BY <1>8, <3>2
    <3> QED  BY <1>1, <1>5, <3>1, <3>2, <3>3
  <2> QED  BY <2>1
<1>10. {e \in ExpectedLedger : e.key \in report.attempts} \subseteq report.ledger
  <2>1. ASSUME NEW e \in ExpectedLedger, e.key \in report.attempts PROVE e \in report.ledger
    <3>1. PICK k \in touched : e \in ExpectedEntries(k)
      BY <1>5
    <3>2. k \in Keys /\ e \in Charges(k)
      BY <1>6, <1>7, <3>1
    <3>3. e.key = k
      BY <3>2, ChargesAreIts
    <3> QED  BY <1>1, <1>3, <2>1, <3>2, <3>3
  <2> QED  BY <2>1
<1>11. OracleAgrees
  BY <1>9, <1>10 DEF OracleAgrees
<1>12. PICK charged : charged = {e.key : e \in report.ledger}
  OBVIOUS
<1>13. report.settled \cap charged = {}
  BY <1>1, <1>2, <1>12
<1>14. report.settled \cup charged = report.attempts
  <2>1. report.settled \cup charged \subseteq Seen
    BY <1>1, <1>2, <1>12
  <2>2. ASSUME NEW k \in Seen, Charges(k) # {} PROVE k \in charged
    <3>1. PICK e : e \in Charges(k)
      BY <2>2
    <3>2. e \in report.ledger /\ e.key = k
      BY <1>3, <3>1
    <3> QED  BY <1>12, <3>2
  <2> QED  BY <1>1, <2>1, <2>2
<1>15. \A d, e \in report.ledger : d.key = e.key => d.kind = e.kind
  BY <1>2, ChargesAreIts
<1>16. EveryAttemptAccounted
  BY <1>12, <1>13, <1>14, <1>15 DEF EveryAttemptAccounted
<1> QED  BY <1>11, <1>16 DEF JoinIsExact

\* The fractions of a cell that was joined can be judged.
LEMMA FractionsAre ==
    ASSUME report = Reconcile
    PROVE  Fractions(report) \in Judgeable
<1>1. PICK charged : charged = ChargedWith(report, "DISAGREEMENT")
  OBVIOUS
<1>2. /\ report.attempts = Seen /\ Seen \subseteq Keys /\ report.settled \subseteq Seen
      /\ report.ledger = UNION {Charges(k) : k \in Seen}
  BY DEF Reconcile, Seen
<1>3. charged \subseteq Seen
  BY <1>1, <1>2, ChargesAreIts DEF ChargedWith
<1>4. IsFiniteSet(Seen)
  BY <1>2, ReconciliationAssumption, FS_Subset
<1>5. IsFiniteSet(report.settled) /\ IsFiniteSet(charged)
  BY <1>2, <1>3, <1>4, FS_Subset
<1>6. /\ Cardinality(Seen) \in Nat /\ Cardinality(report.settled) \in Nat
      /\ Cardinality(charged) \in Nat
  BY <1>4, <1>5, FS_CardinalityType
<1>7. ASSUME Cardinality(Seen) = 0 PROVE Cardinality(charged) = 0
  <2>1. Seen = {}
    BY <1>4, <1>7, FS_EmptySet
  <2> QED  BY <1>3, <2>1, FS_EmptySet
<1> QED  BY <1>1, <1>2, <1>6, <1>7 DEF Fractions, Judgeable

DecisionFits ==
    \/ decision = NoDecision
    \/ /\ stage = "decided"
       /\ \E l \in Rankings, r \in Rankings, c \in Arms :
             decision = [made |-> TRUE, left |-> l, right |-> r, candidate |-> c,
                         reasons |-> GateReasons(l, r, c)]

ReplayInv ==
    /\ PlanFits
    /\ stage = "planning" => bundle = Clean
    /\ stage \in {"injected", "joined"} => BundleFits
    /\ stage = "joined" => report = Reconcile
    /\ cells \in Seq(Judgeable)
    /\ stage \in {"deciding", "decided"} => cells # <<>>
    /\ DecisionFits

LEMMA ReplayHolds == ReplayInv => JoinIsExact /\ VerdictStands
<1> SUFFICES ASSUME ReplayInv PROVE JoinIsExact /\ VerdictStands
  OBVIOUS
<1>1. JoinIsExact
  <2>1. CASE stage = "joined"
    BY <2>1, JoinedIsExact DEF ReplayInv
  <2>2. CASE stage # "joined"
    BY <2>2 DEF JoinIsExact, OracleAgrees, EveryAttemptAccounted
  <2> QED  BY <2>1, <2>2
<1>2. VerdictStands
  <2>1. CASE decision = NoDecision
    <3>1. ~decision.made
      BY <2>1 DEF NoDecision
    <3> QED  BY <3>1 DEF VerdictStands, RecommendationIsUnanimous, RankingNeverRefused, Recommended
  <2>2. CASE decision # NoDecision
    <3>1. PICK l, r, c :
             /\ l \in Rankings /\ r \in Rankings /\ c \in Arms /\ stage = "decided"
             /\ decision = [made |-> TRUE, left |-> l, right |-> r, candidate |-> c,
                            reasons |-> GateReasons(l, r, c)]
      BY <2>2 DEF ReplayInv, DecisionFits
    <3>2. /\ decision.left = l /\ decision.right = r
          /\ decision.reasons = GateReasons(l, r, c)
      BY <3>1
    <3>3. cells \in Seq(Judgeable) /\ cells # <<>>
      BY <3>1 DEF ReplayInv
    <3>4. RecommendationIsUnanimous
      <4>1. ASSUME Recommended, NEW i \in DOMAIN cells
            PROVE  /\ cells[i].settled * MinReconciled[2]
                         >= cells[i].attempts * MinReconciled[1]
                   /\ cells[i].disagreement * MaxDisagreement[2]
                         <= cells[i].attempts * MaxDisagreement[1]
                   /\ MinReconciled[1] > 0 => cells[i].attempts > 0
        <5>1. GateReasons(l, r, c) = {}
          BY <3>2, <4>1 DEF Recommended
        <5> QED  BY <3>1, <3>3, <5>1, NoReasonNoBadCell
      <4> QED  BY <4>1 DEF RecommendationIsUnanimous
    <3>5. RankingNeverRefused
      <4>1. PICK con, tau : con = Concordance(l, r) /\ tau = TauB(l, r)
        OBVIOUS
      <4>2. tau.denominator # 0 =>
               /\ con.concordant + con.discordant > 0
               /\ tau.excess * tau.excess <= tau.denominator
        BY <3>1, <4>1, ComparisonHolds
      <4> QED  BY <3>2, <4>1, <4>2 DEF RankingNeverRefused
    <3> QED  BY <3>4, <3>5 DEF VerdictStands
  <2> QED  BY <2>1, <2>2
<1> QED  BY <1>1, <1>2

LEMMA InitReplay == ASSUME Init PROVE ReplayInv
<1>1. /\ stage = "planning" /\ plan = {} /\ bundle = Clean /\ cells = <<>>
      /\ decision = NoDecision
  BY DEF Init, JoinInit
<1>2. cells \in Seq(Judgeable)
  BY <1>1
<1>3. PlanFits
  BY <1>1 DEF PlanFits
<1> QED  BY <1>1, <1>2, <1>3 DEF ReplayInv, DecisionFits

\* While nothing is decided, a step need only mind the rest.
LEMMA StillUndecided ==
    ASSUME ReplayInv, stage # "decided", decision' = decision
    PROVE  DecisionFits'
<1>1. decision = NoDecision
  BY DEF ReplayInv, DecisionFits
<1>2. NoDecision' = NoDecision
  BY DEF NoDecision
<1> QED  BY <1>1, <1>2 DEF DecisionFits

LEMMA LeftStays ==
    ASSUME plan' = plan, NEW s, NEW k
    PROVE  Left(s, k)' = Left(s, k)
BY DEF Left, Told, PerturbationOf, Hit

LEMMA ReconcileStays ==
    ASSUME bundle' = bundle
    PROVE  Reconcile' = Reconcile
<1>1. ASSUME NEW k PROVE Charges(k)' = Charges(k)
  BY DEF Charges
<1>2. Seen' = Seen
  BY DEF Seen
<1>3. Reconcile' = [attempts |-> Seen', ledger |-> UNION {Charges(k)' : k \in Seen'},
                    settled |-> {k \in Seen' : Charges(k)' = {}}]
  BY DEF Reconcile
<1>4. UNION {Charges(k)' : k \in Seen'} = UNION {Charges(k) : k \in Seen}
  BY <1>1, <1>2
<1>5. {k \in Seen' : Charges(k)' = {}} = {k \in Seen : Charges(k) = {}}
  BY <1>1, <1>2
<1> QED  BY <1>2, <1>3, <1>4, <1>5 DEF Reconcile

LEMMA StepKeepsReplay == ASSUME ReplayInv, [Next]_vars PROVE ReplayInv'
<1>1. CASE UNCHANGED joinVars
  <2>1. /\ stage' = stage /\ plan' = plan /\ bundle' = bundle /\ report' = report
        /\ cells' = cells /\ decision' = decision
    BY <1>1 DEF joinVars
  <2>2. PlanFits'
    BY <2>1 DEF ReplayInv, PlanFits
  <2>3. BundleFits => BundleFits'
    BY <2>1, LeftStays DEF BundleFits
  <2>4. report = Reconcile => report' = Reconcile'
    BY <2>1, ReconcileStays
  <2>5. DecisionFits'
    <3>1. \A l, r, c : GateReasons(l, r, c)' = GateReasons(l, r, c)
      BY <2>1 DEF GateReasons
    <3>2. NoDecision' = NoDecision
      BY DEF NoDecision
    <3> QED  BY <2>1, <3>1, <3>2 DEF ReplayInv, DecisionFits
  <2> QED  BY <2>1, <2>2, <2>3, <2>4, <2>5 DEF ReplayInv
<1>2. CASE \E s \in Sources, k \in Keys : \E fault \in Faults(s, k) : Damage(fault)
  <2>1. PICK s, k, fault : /\ s \in Sources /\ k \in Keys /\ fault \in Faults(s, k)
                           /\ Damage(fault)
    BY <1>2
  <2>2. /\ stage = "planning" /\ stage' = stage /\ plan' = plan \cup {fault}
        /\ \A d \in plan : d.target # fault.target
        /\ bundle' = bundle /\ cells' = cells /\ decision' = decision
    BY <2>1 DEF Damage
  <2>3. PlanFits'
    <3>1. \A d \in plan \cup {fault} : \E t \in Sources, j \in Keys : d \in Faults(t, j)
      BY <2>1 DEF ReplayInv, PlanFits
    <3>2. \A d, e \in plan \cup {fault} : d.target = e.target => d = e
      BY <2>2 DEF ReplayInv, PlanFits
    <3> QED  BY <2>2, <3>1, <3>2 DEF PlanFits
  <2>4. DecisionFits'
    BY <2>2, StillUndecided
  <2> QED  BY <2>2, <2>3, <2>4 DEF ReplayInv
<1>3. CASE Inject
  <2>1. /\ stage = "planning" /\ stage' = "injected" /\ plan' = plan /\ cells' = cells
        /\ bundle' = [s \in Sources |-> [k \in Keys |-> Damaged(s, k)]]
        /\ decision' = decision
    BY <1>3 DEF Inject
  <2>2. PlanFits'
    BY <2>1 DEF ReplayInv, PlanFits
  <2>3. BundleFits'
    <3>1. ASSUME NEW s \in Sources, NEW k \in Keys PROVE bundle'[s][k] = Left(s, k)'
      <4>1. bundle'[s][k] = Left(s, k)
        BY <2>1, DamagedIsLeft DEF ReplayInv
      <4>2. Left(s, k)' = Left(s, k)
        BY <2>1, LeftStays
      <4> QED  BY <4>1, <4>2
    <3> QED  BY <3>1 DEF BundleFits
  <2>4. DecisionFits'
    BY <2>1, StillUndecided
  <2> QED  BY <2>1, <2>2, <2>3, <2>4 DEF ReplayInv
<1>4. CASE Join
  <2>1. /\ stage = "injected" /\ stage' = "joined" /\ plan' = plan /\ cells' = cells
        /\ bundle' = bundle /\ report' = Reconcile /\ decision' = decision
    BY <1>4 DEF Join
  <2>2. PlanFits'
    BY <2>1 DEF ReplayInv, PlanFits
  <2>3. BundleFits'
    BY <2>1, LeftStays DEF ReplayInv, BundleFits
  <2>4. Reconcile' = Reconcile
    BY <2>1, ReconcileStays
  <2>5. DecisionFits'
    BY <2>1, StillUndecided
  <2> QED  BY <2>1, <2>2, <2>3, <2>4, <2>5 DEF ReplayInv
<1>5. CASE KeepCell
  <2>1. /\ stage = "joined" /\ cells' = Append(cells, Fractions(report))
        /\ stage' \in {"deciding", "planning"} /\ plan' = {} /\ bundle' = Clean
        /\ decision' = decision
    BY <1>5 DEF KeepCell
  <2>2. PlanFits'
    BY <2>1 DEF PlanFits
  <2>3. PICK f : f = Fractions(report) /\ f \in Judgeable
    BY <2>1, FractionsAre DEF ReplayInv
  <2>4. cells' \in Seq(Judgeable) /\ cells' # <<>>
    <3>1. cells \in Seq(Judgeable)
      BY DEF ReplayInv
    <3> QED  BY <2>1, <2>3, <3>1
  <2>5. DecisionFits'
    BY <2>1, StillUndecided
  <2>6. Clean' = Clean
    BY DEF Clean, CleanRecord
  <2> QED  BY <2>1, <2>2, <2>4, <2>5, <2>6 DEF ReplayInv
<1>6. CASE \E left, right \in [Arms -> Scores], candidate \in Arms \ {1} :
              Decide(left, right, candidate)
  <2>1. PICK l, r, c : l \in Rankings /\ r \in Rankings /\ c \in Arms /\ Decide(l, r, c)
    BY <1>6 DEF Rankings
  <2>2. /\ stage = "deciding" /\ stage' = "decided" /\ plan' = plan /\ cells' = cells
        /\ decision' = [made |-> TRUE, left |-> l, right |-> r, candidate |-> c,
                        reasons |-> GateReasons(l, r, c)]
    BY <2>1 DEF Decide
  <2>3. PlanFits'
    BY <2>2 DEF ReplayInv, PlanFits
  <2>4. GateReasons(l, r, c)' = GateReasons(l, r, c)
    BY <2>2 DEF GateReasons
  <2>5. DecisionFits'
    BY <2>1, <2>2, <2>4 DEF DecisionFits
  <2> QED  BY <2>2, <2>3, <2>5 DEF ReplayInv
<1>7. UNCHANGED joinVars \/ JoinNext
  BY DEF Next, RecordDecisions, JoinReplay, RunCampaign, Judged, vars
<1> QED  BY <1>1, <1>2, <1>3, <1>4, <1>5, <1>6, <1>7 DEF JoinNext

\* Whatever three sources lost, repeated or changed of any attempts: the join
\* charges exactly what the oracle derives from the plan, and settles the rest.
THEOREM JoinStaysExact == Spec => []JoinIsExact
<1>1. Init => ReplayInv
  BY InitReplay
<1>2. ReplayInv /\ [Next]_vars => ReplayInv'
  BY StepKeepsReplay
<1>3. ReplayInv => JoinIsExact
  BY ReplayHolds
<1> QED  BY <1>1, <1>2, <1>3, PTL DEF Spec

\* For any arms, scores and gate: no candidate is recommended over a cell that
\* speaks against it, and no comparison that has a tau-b is refused.
THEOREM VerdictsStand == Spec => []VerdictStands
<1>1. Init => ReplayInv
  BY InitReplay
<1>2. ReplayInv /\ [Next]_vars => ReplayInv'
  BY StepKeepsReplay
<1>3. ReplayInv => VerdictStands
  BY ReplayHolds
<1> QED  BY <1>1, <1>2, <1>3, PTL DEF Spec
-----------------------------------------------------------------------------
(* The planned cells: three crossings of the pairs with strategies, none of *)
(* them named twice.                                                        *)
GridPairs == ToSet(Regimes) \X ToSet(Scales)
Strategies == {"BASELINE", "PRICED_SPILL", "DECODE_CAUSAL", "EVICTION_LRU", "CENSUS_EVICTION",
               "DECODE_NO_GATE", "DECODE_ORACLE", "DECODE_ORACLE_NOISED"}
PlanCells == [regime : ToSet(Regimes), scale : ToSet(Scales), strategy : Strategies]

\* The members of a sequence, by their places.
LEMMA MembersOf ==
    ASSUME NEW V, NEW s \in Seq(V)
    PROVE  /\ DOMAIN s = 1..Len(s) /\ Len(s) \in Nat /\ ToSet(s) \subseteq V
           /\ \A i \in 1..Len(s) : s[i] \in ToSet(s)
           /\ \A x \in ToSet(s) : \E i \in 1..Len(s) : x = s[i]
BY DEF ToSet

LEMMA CellsAreApart ==
    ASSUME NEW p \in GridPairs, NEW q \in GridPairs, NEW s \in Strategies, NEW t \in Strategies
    PROVE  /\ Cell(p, s) \in PlanCells
           /\ Pair(Cell(p, s)) = p /\ Cell(p, s).strategy = s
           /\ Cell(p, s) = Cell(q, t) => p = q /\ s = t
<1>1. /\ p = <<p[1], p[2]>> /\ p[1] \in ToSet(Regimes) /\ p[2] \in ToSet(Scales)
      /\ q = <<q[1], q[2]>>
  BY DEF GridPairs
<1>2. /\ Cell(p, s) = [regime |-> p[1], scale |-> p[2], strategy |-> s]
      /\ Cell(q, t) = [regime |-> q[1], scale |-> q[2], strategy |-> t]
  BY DEF Cell
<1>3. Cell(p, s) \in PlanCells /\ Pair(Cell(p, s)) = p /\ Cell(p, s).strategy = s
  BY <1>1, <1>2 DEF PlanCells, Pair
<1>4. ASSUME Cell(p, s) = Cell(q, t) PROVE p = q /\ s = t
  <2>1. Cell(p, s).regime = q[1] /\ Cell(p, s).scale = q[2] /\ Cell(p, s).strategy = t
    BY <1>2, <1>4
  <2>2. Cell(p, s).regime = p[1] /\ Cell(p, s).scale = p[2] /\ Cell(p, s).strategy = s
    BY <1>2
  <2> QED  BY <1>1, <2>1, <2>2
<1> QED  BY <1>3, <1>4

LEMMA CellsHavePairs ==
    ASSUME NEW c \in PlanCells
    PROVE  Pair(c) \in GridPairs /\ c.strategy \in Strategies /\ c = Cell(Pair(c), c.strategy)
BY DEF PlanCells, GridPairs, Pair, Cell

\* Each pair of a regime and a scale, once.
LEMMA AllPairsAre ==
    /\ AllPairs \in Seq(GridPairs) /\ IsInjective(AllPairs)
    /\ ToSet(AllPairs) = GridPairs
<1>1. PICK rows : rows = [i \in DOMAIN Regimes |->
                              [j \in DOMAIN Scales |-> <<Regimes[i], Scales[j]>>]]
  OBVIOUS
<1>2. /\ DOMAIN Regimes = 1..Len(Regimes) /\ Len(Regimes) \in Nat
      /\ DOMAIN Scales = 1..Len(Scales) /\ Len(Scales) \in Nat
      /\ \A i \in 1..Len(Regimes) : Regimes[i] \in ToSet(Regimes)
      /\ \A i \in 1..Len(Scales) : Scales[i] \in ToSet(Scales)
      /\ \A x \in ToSet(Regimes) : \E i \in 1..Len(Regimes) : x = Regimes[i]
      /\ \A x \in ToSet(Scales) : \E i \in 1..Len(Scales) : x = Scales[i]
  BY GridAssumption, MembersOf
<1>3. /\ \A i, j \in 1..Len(Regimes) : Regimes[i] = Regimes[j] => i = j
      /\ \A i, j \in 1..Len(Scales) : Scales[i] = Scales[j] => i = j
  BY <1>2, GridAssumption DEF IsInjective
<1>4. ASSUME NEW i \in 1..Len(Regimes)
      PROVE  /\ rows[i] \in Seq(GridPairs)
             /\ \A x : x \in ToSet(rows[i]) <=> \E j \in 1..Len(Scales) : x = <<Regimes[i], Scales[j]>>
             /\ IsInjective(rows[i])
  <2>1. rows[i] = [j \in 1..Len(Scales) |-> <<Regimes[i], Scales[j]>>]
    BY <1>1, <1>2
  <2>2. \A j \in 1..Len(Scales) : <<Regimes[i], Scales[j]>> \in GridPairs
    BY <1>2 DEF GridPairs
  <2>3. rows[i] \in Seq(GridPairs)
    BY <1>2, <2>1, <2>2
  <2>4. \A x : x \in ToSet(rows[i]) <=> \E j \in 1..Len(Scales) : x = <<Regimes[i], Scales[j]>>
    BY <2>1 DEF ToSet
  <2>5. IsInjective(rows[i])
    BY <1>3, <2>1 DEF IsInjective
  <2> QED  BY <2>3, <2>4, <2>5
<1>5. /\ rows \in Seq(Seq(GridPairs)) /\ Len(rows) = Len(Regimes)
  <2>1. rows \in [1..Len(Regimes) -> Seq(GridPairs)]
    BY <1>1, <1>2, <1>4
  <2> QED  BY <1>2, <2>1
<1>6. \A i, j \in 1..Len(rows) : i # j => ToSet(rows[i]) \cap ToSet(rows[j]) = {}
  <2> SUFFICES ASSUME NEW i \in 1..Len(Regimes), NEW k \in 1..Len(Regimes), i # k,
                      NEW x, x \in ToSet(rows[i]), x \in ToSet(rows[k])
               PROVE  FALSE
    BY <1>5
  <2>1. PICK j \in 1..Len(Scales) : x = <<Regimes[i], Scales[j]>>
    BY <1>4
  <2>2. PICK l \in 1..Len(Scales) : x = <<Regimes[k], Scales[l]>>
    BY <1>4
  <2> QED  BY <1>3, <2>1, <2>2
<1>7. AllPairs = FlattenSeq(rows)
  BY <1>1 DEF AllPairs
<1>8. /\ AllPairs \in Seq(GridPairs)
      /\ \A x : x \in ToSet(AllPairs) <=> \E i \in 1..Len(rows) : x \in ToSet(rows[i])
      /\ IsInjective(AllPairs)
  BY <1>4, <1>5, <1>6, <1>7, Flattened, ZenonT(40)
<1>9. ASSUME NEW x \in GridPairs PROVE x \in ToSet(AllPairs)
  <2>1. PICK i \in 1..Len(Regimes), j \in 1..Len(Scales) : x = <<Regimes[i], Scales[j]>>
    BY <1>2 DEF GridPairs
  <2> QED  BY <1>4, <1>5, <1>8, <2>1
<1>10. ToSet(AllPairs) \subseteq GridPairs
  BY <1>8, MembersOf
<1> QED  BY <1>8, <1>9, <1>10

\* Each regime at the overload scale, once.
LEMMA OverloadPairsAre ==
    /\ OverloadPairs \in Seq(GridPairs) /\ IsInjective(OverloadPairs)
    /\ ToSet(OverloadPairs) = {p \in GridPairs : p[2] = Overload}
<1>1. /\ DOMAIN Regimes = 1..Len(Regimes) /\ Len(Regimes) \in Nat
      /\ \A i \in 1..Len(Regimes) : Regimes[i] \in ToSet(Regimes)
      /\ \A x \in ToSet(Regimes) : \E i \in 1..Len(Regimes) : x = Regimes[i]
      /\ Overload \in ToSet(Scales)
  BY GridAssumption, MembersOf
<1>2. \A i, j \in 1..Len(Regimes) : Regimes[i] = Regimes[j] => i = j
  BY <1>1, GridAssumption DEF IsInjective
<1>3. OverloadPairs = [i \in 1..Len(Regimes) |-> <<Regimes[i], Overload>>]
  BY <1>1 DEF OverloadPairs
<1>4. \A i \in 1..Len(Regimes) : <<Regimes[i], Overload>> \in GridPairs
  BY <1>1 DEF GridPairs
<1>5. OverloadPairs \in Seq(GridPairs)
  BY <1>1, <1>3, <1>4
<1>6. IsInjective(OverloadPairs)
  BY <1>2, <1>3 DEF IsInjective
<1>7. \A x : x \in ToSet(OverloadPairs) <=> \E i \in 1..Len(Regimes) : x = <<Regimes[i], Overload>>
  BY <1>3 DEF ToSet
<1>8. ASSUME NEW x \in GridPairs, x[2] = Overload PROVE x \in ToSet(OverloadPairs)
  <2>1. x = <<x[1], Overload>> /\ x[1] \in ToSet(Regimes)
    BY <1>8 DEF GridPairs
  <2> QED  BY <1>1, <1>7, <2>1
<1>9. ASSUME NEW x \in ToSet(OverloadPairs) PROVE x \in GridPairs /\ x[2] = Overload
  <2>1. PICK i \in 1..Len(Regimes) : x = <<Regimes[i], Overload>>
    BY <1>7
  <2> QED  BY <1>4, <2>1
<1> QED  BY <1>5, <1>6, <1>8, <1>9

\* A crossing names a cell for each chosen pair and strategy, once.
LEMMA CrossIs ==
    ASSUME NEW pairs \in Seq(GridPairs), IsInjective(pairs), NEW chosen,
           NEW strategies \in Seq(Strategies), IsInjective(strategies)
    PROVE  /\ Cross(pairs, chosen, strategies) \in Seq(PlanCells)
           /\ IsInjective(Cross(pairs, chosen, strategies))
           /\ \A c : c \in ToSet(Cross(pairs, chosen, strategies)) <=>
                        /\ c \in PlanCells /\ c.strategy \in ToSet(strategies)
                        /\ Pair(c) \in ToSet(pairs) /\ Pair(c) \in chosen
<1>1. PICK rows : rows = [i \in DOMAIN pairs |->
                             IF pairs[i] \in chosen THEN Row(pairs[i], strategies) ELSE <<>>]
  OBVIOUS
<1>2. /\ DOMAIN pairs = 1..Len(pairs) /\ Len(pairs) \in Nat
      /\ \A i \in 1..Len(pairs) : pairs[i] \in GridPairs /\ pairs[i] \in ToSet(pairs)
      /\ \A x \in ToSet(pairs) : \E i \in 1..Len(pairs) : x = pairs[i]
      /\ \A i, j \in 1..Len(pairs) : pairs[i] = pairs[j] => i = j
  BY MembersOf DEF IsInjective
<1>3. /\ DOMAIN strategies = 1..Len(strategies) /\ Len(strategies) \in Nat
      /\ \A j \in 1..Len(strategies) : strategies[j] \in Strategies
      /\ \A i, j \in 1..Len(strategies) : strategies[i] = strategies[j] => i = j
      /\ \A x : x \in ToSet(strategies) <=> \E j \in 1..Len(strategies) : x = strategies[j]
  BY MembersOf DEF IsInjective, ToSet
<1>4. ASSUME NEW i \in 1..Len(pairs)
      PROVE  /\ rows[i] \in Seq(PlanCells) /\ IsInjective(rows[i])
             /\ \A c : c \in ToSet(rows[i]) <=>
                          /\ pairs[i] \in chosen
                          /\ \E j \in 1..Len(strategies) : c = Cell(pairs[i], strategies[j])
  <2>1. CASE pairs[i] \in chosen
    <3>1. rows[i] = [j \in 1..Len(strategies) |-> Cell(pairs[i], strategies[j])]
      BY <1>1, <1>2, <1>3, <2>1 DEF Row
    <3>2. \A j \in 1..Len(strategies) : Cell(pairs[i], strategies[j]) \in PlanCells
      BY <1>2, <1>3, CellsAreApart
    <3>3. \A j, k \in 1..Len(strategies) :
              Cell(pairs[i], strategies[j]) = Cell(pairs[i], strategies[k]) => j = k
      <4> SUFFICES ASSUME NEW j \in 1..Len(strategies), NEW k \in 1..Len(strategies),
                          Cell(pairs[i], strategies[j]) = Cell(pairs[i], strategies[k])
                   PROVE  j = k
        OBVIOUS
      <4>1. pairs[i] \in GridPairs /\ strategies[j] \in Strategies /\ strategies[k] \in Strategies
        BY <1>2, <1>3
      <4>2. strategies[j] = strategies[k]
        BY <4>1, CellsAreApart
      <4> QED  BY <1>3, <4>2
    <3>4. rows[i] \in Seq(PlanCells)
      BY <1>3, <3>1, <3>2
    <3>5. IsInjective(rows[i])
      BY <3>1, <3>3 DEF IsInjective
    <3>6. \A c : c \in ToSet(rows[i]) <=>
                    \E j \in 1..Len(strategies) : c = Cell(pairs[i], strategies[j])
      BY <3>1 DEF ToSet
    <3> QED  BY <2>1, <3>4, <3>5, <3>6
  <2>2. CASE pairs[i] \notin chosen
    <3>1. rows[i] = <<>>
      BY <1>1, <1>2, <2>2
    <3> QED  BY <2>2, <3>1 DEF ToSet, IsInjective
  <2> QED  BY <2>1, <2>2
<1>5. rows \in Seq(Seq(PlanCells)) /\ Len(rows) = Len(pairs)
  <2>1. rows \in [1..Len(pairs) -> Seq(PlanCells)]
    BY <1>1, <1>2, <1>4
  <2> QED  BY <1>2, <2>1, SMTT(30)
<1>6. \A i, k \in 1..Len(rows) : i # k => ToSet(rows[i]) \cap ToSet(rows[k]) = {}
  <2> SUFFICES ASSUME NEW i \in 1..Len(pairs), NEW k \in 1..Len(pairs), i # k,
                      NEW c, c \in ToSet(rows[i]), c \in ToSet(rows[k])
               PROVE  FALSE
    BY <1>5
  <2>1. PICK j \in 1..Len(strategies) : c = Cell(pairs[i], strategies[j])
    BY <1>4
  <2>2. PICK l \in 1..Len(strategies) : c = Cell(pairs[k], strategies[l])
    BY <1>4
  <2>3. pairs[i] = pairs[k]
    <3>1. PICK p, q, s, t : p = pairs[i] /\ q = pairs[k] /\ s = strategies[j] /\ t = strategies[l]
      OBVIOUS
    <3>2. p \in GridPairs /\ q \in GridPairs /\ s \in Strategies /\ t \in Strategies
      BY <1>2, <1>3, <3>1
    <3>3. Cell(p, s) = Cell(q, t)
      BY <2>1, <2>2, <3>1
    <3>4. p = q
      BY <3>2, <3>3, CellsAreApart
    <3> QED  BY <3>1, <3>4
  <2> QED  BY <1>2, <2>3
<1>7. Cross(pairs, chosen, strategies) = FlattenSeq(rows)
  BY <1>1 DEF Cross
<1>8. /\ Cross(pairs, chosen, strategies) \in Seq(PlanCells)
      /\ IsInjective(Cross(pairs, chosen, strategies))
      /\ \A c : c \in ToSet(Cross(pairs, chosen, strategies)) <=>
                   \E i \in 1..Len(rows) : c \in ToSet(rows[i])
  <2>1. \A i \in 1..Len(rows) : IsInjective(rows[i])
    BY <1>4, <1>5
  <2>2. /\ FlattenSeq(rows) \in Seq(PlanCells)
        /\ \A c : c \in ToSet(FlattenSeq(rows)) <=> \E i \in 1..Len(rows) : c \in ToSet(rows[i])
        /\ IsInjective(FlattenSeq(rows))
    BY <1>5, <1>6, <2>1, Flattened
  <2> QED  BY <1>7, <2>2
<1>9. ASSUME NEW c \in PlanCells, c.strategy \in ToSet(strategies), Pair(c) \in ToSet(pairs),
             Pair(c) \in chosen
      PROVE  c \in ToSet(Cross(pairs, chosen, strategies))
  <2>1. PICK i \in 1..Len(pairs) : Pair(c) = pairs[i]
    BY <1>2, <1>9
  <2>2. PICK j \in 1..Len(strategies) : c.strategy = strategies[j]
    BY <1>3, <1>9
  <2>3. c = Cell(pairs[i], strategies[j])
    BY <2>1, <2>2, CellsHavePairs
  <2>4. c \in ToSet(rows[i])
    BY <1>4, <1>9, <2>1, <2>3
  <2> QED  BY <1>5, <1>8, <2>4
<1>10. ASSUME NEW c, c \in ToSet(Cross(pairs, chosen, strategies))
       PROVE  /\ c \in PlanCells /\ c.strategy \in ToSet(strategies)
              /\ Pair(c) \in ToSet(pairs) /\ Pair(c) \in chosen
  <2>1. PICK i \in 1..Len(pairs) : c \in ToSet(rows[i])
    BY <1>5, <1>8, <1>10
  <2>2. PICK j \in 1..Len(strategies) : c = Cell(pairs[i], strategies[j])
    BY <1>4, <2>1
  <2>3. c \in PlanCells /\ Pair(c) = pairs[i] /\ c.strategy = strategies[j]
    BY <1>2, <1>3, <2>2, CellsAreApart
  <2> QED  BY <1>2, <1>3, <1>4, <2>1, <2>3
<1> QED  BY <1>8, <1>9, <1>10
\* The tables of strategies, as sets; none names a strategy twice.
LEMMA StrategiesAre ==
    /\ PRIMARY_STRATEGIES \in Seq(Strategies) /\ IsInjective(PRIMARY_STRATEGIES)
    /\ EVICTION_STRATEGIES \in Seq(Strategies) /\ IsInjective(EVICTION_STRATEGIES)
    /\ SENSITIVITY_STRATEGIES \in Seq(Strategies) /\ IsInjective(SENSITIVITY_STRATEGIES)
    /\ <<"EVICTION_LRU">> \in Seq(Strategies) /\ IsInjective(<<"EVICTION_LRU">>)
    /\ ToSet(PRIMARY_STRATEGIES) = {"BASELINE", "PRICED_SPILL", "DECODE_CAUSAL"}
    /\ ToSet(EVICTION_STRATEGIES) = {"EVICTION_LRU", "CENSUS_EVICTION"}
    /\ ToSet(SENSITIVITY_STRATEGIES) =
           {"DECODE_NO_GATE", "DECODE_ORACLE", "DECODE_ORACLE_NOISED"}
    /\ ToSet(<<"EVICTION_LRU">>) = {"EVICTION_LRU"}
<1>1. ASSUME NEW x \in Strategies, NEW y \in Strategies, NEW z \in Strategies, x # y, y # z, x # z
      PROVE  /\ <<x, y, z>> \in Seq(Strategies) /\ IsInjective(<<x, y, z>>)
             /\ ToSet(<<x, y, z>>) = {x, y, z}
  <2>1. PICK s : s = <<x, y, z>>
    OBVIOUS
  <2>2. s \in Seq(Strategies) /\ DOMAIN s = {1, 2, 3} /\ s[1] = x /\ s[2] = y /\ s[3] = z
    <3>1. s[1] = x /\ s[2] = y /\ s[3] = z /\ Len(s) = 3
      BY <2>1
    <3>2. s \in Seq(Strategies)
      BY <2>1 DEF Strategies
    <3>3. DOMAIN s = 1..3
      BY <3>1, <3>2
    <3>4. 1..3 = {1, 2, 3}
      OBVIOUS
    <3> QED  BY <3>1, <3>2, <3>3, <3>4
  <2>3. IsInjective(s)
    BY <1>1, <2>2 DEF IsInjective
  <2>4. ToSet(s) = {x, y, z}
    BY <2>2 DEF ToSet
  <2> QED  BY <2>1, <2>2, <2>3, <2>4
<1>2. ASSUME NEW x \in Strategies, NEW y \in Strategies, x # y
      PROVE  /\ <<x, y>> \in Seq(Strategies) /\ IsInjective(<<x, y>>)
             /\ ToSet(<<x, y>>) = {x, y}
  <2>1. PICK s : s = <<x, y>>
    OBVIOUS
  <2>2. s \in Seq(Strategies) /\ DOMAIN s = {1, 2} /\ s[1] = x /\ s[2] = y
    <3>1. s[1] = x /\ s[2] = y /\ Len(s) = 2
      BY <2>1
    <3>2. s \in Seq(Strategies)
      BY <2>1 DEF Strategies
    <3>3. DOMAIN s = 1..2
      BY <3>1, <3>2
    <3>4. 1..2 = {1, 2}
      OBVIOUS
    <3> QED  BY <3>1, <3>2, <3>3, <3>4
  <2>3. IsInjective(s)
    BY <1>2, <2>2 DEF IsInjective
  <2>4. ToSet(s) = {x, y}
    BY <2>2 DEF ToSet
  <2> QED  BY <2>1, <2>2, <2>3, <2>4
<1>3. /\ <<"EVICTION_LRU">> \in Seq(Strategies) /\ IsInjective(<<"EVICTION_LRU">>)
      /\ ToSet(<<"EVICTION_LRU">>) = {"EVICTION_LRU"}
  <2>1. PICK s : s = <<"EVICTION_LRU">>
    OBVIOUS
  <2>2. s \in Seq(Strategies) /\ DOMAIN s = {1} /\ s[1] = "EVICTION_LRU"
    <3>1. s[1] = "EVICTION_LRU" /\ Len(s) = 1
      BY <2>1
    <3>2. s \in Seq(Strategies)
      BY <2>1 DEF Strategies
    <3>3. DOMAIN s = 1..1
      BY <3>1, <3>2
    <3>4. 1..1 = {1}
      OBVIOUS
    <3> QED  BY <3>1, <3>2, <3>3, <3>4
  <2>3. IsInjective(s) /\ ToSet(s) = {"EVICTION_LRU"}
    BY <2>2 DEF IsInjective, ToSet
  <2> QED  BY <2>1, <2>2, <2>3
<1>4. /\ PRIMARY_STRATEGIES \in Seq(Strategies) /\ IsInjective(PRIMARY_STRATEGIES)
      /\ ToSet(PRIMARY_STRATEGIES) = {"BASELINE", "PRICED_SPILL", "DECODE_CAUSAL"}
  <2>1. /\ PRIMARY_STRATEGIES = <<"BASELINE", "PRICED_SPILL", "DECODE_CAUSAL">>
    BY DEF PRIMARY_STRATEGIES
  <2>2. "BASELINE" \in Strategies /\ "PRICED_SPILL" \in Strategies /\ "DECODE_CAUSAL" \in Strategies
    BY DEF Strategies
  <2> QED  BY <1>1, <2>1, <2>2
<1>5. /\ EVICTION_STRATEGIES \in Seq(Strategies) /\ IsInjective(EVICTION_STRATEGIES)
      /\ ToSet(EVICTION_STRATEGIES) = {"EVICTION_LRU", "CENSUS_EVICTION"}
  <2>1. /\ EVICTION_STRATEGIES = <<"EVICTION_LRU", "CENSUS_EVICTION">>
    BY DEF EVICTION_STRATEGIES
  <2>2. "EVICTION_LRU" \in Strategies /\ "CENSUS_EVICTION" \in Strategies
    BY DEF Strategies
  <2> QED  BY <1>2, <2>1, <2>2
<1>6. /\ SENSITIVITY_STRATEGIES \in Seq(Strategies) /\ IsInjective(SENSITIVITY_STRATEGIES)
      /\ ToSet(SENSITIVITY_STRATEGIES) =
             {"DECODE_NO_GATE", "DECODE_ORACLE", "DECODE_ORACLE_NOISED"}
  <2>1. /\ SENSITIVITY_STRATEGIES = <<"DECODE_NO_GATE", "DECODE_ORACLE", "DECODE_ORACLE_NOISED">>
    BY DEF SENSITIVITY_STRATEGIES
  <2>2. "DECODE_NO_GATE" \in Strategies /\ "DECODE_ORACLE" \in Strategies /\ "DECODE_ORACLE_NOISED" \in Strategies
    BY DEF Strategies
  <2> QED  BY <1>1, <2>1, <2>2
<1> QED  BY <1>3, <1>4, <1>5, <1>6

\* What is planned when the capacity binds these pairs.
Planned(bound) ==
    {c \in PlanCells :
        \/ c.strategy \in {"BASELINE", "PRICED_SPILL", "DECODE_CAUSAL"}
        \/ c.strategy \in {"EVICTION_LRU", "CENSUS_EVICTION"} /\ Pair(c) \in bound
        \/ /\ c.strategy \in {"DECODE_NO_GATE", "DECODE_ORACLE", "DECODE_ORACLE_NOISED"}
           /\ c.scale = Overload}

LEMMA PlanIs ==
    ASSUME NEW bound, bound \subseteq GridPairs
    PROVE  /\ build_cell_plan(bound) \in Seq(PlanCells)
           /\ IsInjective(build_cell_plan(bound))
           /\ ToSet(build_cell_plan(bound)) = Planned(bound)
<1>1. PICK a, b, d : /\ a = Cross(AllPairs, ToSet(AllPairs), PRIMARY_STRATEGIES)
                     /\ b = Cross(AllPairs, bound, EVICTION_STRATEGIES)
                     /\ d = Cross(OverloadPairs, ToSet(OverloadPairs), SENSITIVITY_STRATEGIES)
  OBVIOUS
<1>2. /\ a \in Seq(PlanCells) /\ IsInjective(a)
      /\ \A c : c \in ToSet(a) <=> /\ c \in PlanCells
                                   /\ c.strategy \in {"BASELINE", "PRICED_SPILL", "DECODE_CAUSAL"}
  <2>1. /\ Cross(AllPairs, ToSet(AllPairs), PRIMARY_STRATEGIES) \in Seq(PlanCells)
        /\ IsInjective(Cross(AllPairs, ToSet(AllPairs), PRIMARY_STRATEGIES))
        /\ \A c : c \in ToSet(Cross(AllPairs, ToSet(AllPairs), PRIMARY_STRATEGIES)) <=>
                     /\ c \in PlanCells /\ c.strategy \in ToSet(PRIMARY_STRATEGIES)
                     /\ Pair(c) \in ToSet(AllPairs) /\ Pair(c) \in ToSet(AllPairs)
    BY AllPairsAre, StrategiesAre, CrossIs
  <2> QED  BY <1>1, <2>1, AllPairsAre, StrategiesAre, CellsHavePairs
<1>3. /\ b \in Seq(PlanCells) /\ IsInjective(b)
      /\ \A c : c \in ToSet(b) <=> /\ c \in PlanCells
                                   /\ c.strategy \in {"EVICTION_LRU", "CENSUS_EVICTION"}
                                   /\ Pair(c) \in bound
  <2>1. /\ Cross(AllPairs, bound, EVICTION_STRATEGIES) \in Seq(PlanCells)
        /\ IsInjective(Cross(AllPairs, bound, EVICTION_STRATEGIES))
        /\ \A c : c \in ToSet(Cross(AllPairs, bound, EVICTION_STRATEGIES)) <=>
                     /\ c \in PlanCells /\ c.strategy \in ToSet(EVICTION_STRATEGIES)
                     /\ Pair(c) \in ToSet(AllPairs) /\ Pair(c) \in bound
    BY AllPairsAre, StrategiesAre, CrossIs
  <2> QED  BY <1>1, <2>1, AllPairsAre, StrategiesAre, CellsHavePairs
<1>4. /\ d \in Seq(PlanCells) /\ IsInjective(d)
      /\ \A c : c \in ToSet(d) <=> /\ c \in PlanCells
                                   /\ c.strategy \in {"DECODE_NO_GATE", "DECODE_ORACLE",
                                                      "DECODE_ORACLE_NOISED"}
                                   /\ c.scale = Overload
  <2>1. /\ Cross(OverloadPairs, ToSet(OverloadPairs), SENSITIVITY_STRATEGIES) \in Seq(PlanCells)
        /\ IsInjective(Cross(OverloadPairs, ToSet(OverloadPairs), SENSITIVITY_STRATEGIES))
        /\ \A c : c \in ToSet(Cross(OverloadPairs, ToSet(OverloadPairs), SENSITIVITY_STRATEGIES)) <=>
                     /\ c \in PlanCells /\ c.strategy \in ToSet(SENSITIVITY_STRATEGIES)
                     /\ Pair(c) \in ToSet(OverloadPairs) /\ Pair(c) \in ToSet(OverloadPairs)
    BY OverloadPairsAre, StrategiesAre, CrossIs
  <2>2. \A c \in PlanCells : Pair(c) \in ToSet(OverloadPairs) <=> c.scale = Overload
    <3>1. \A c \in PlanCells : Pair(c) \in GridPairs /\ Pair(c)[2] = c.scale
      BY CellsHavePairs, Zenon DEF Pair
    <3> QED  BY <3>1, OverloadPairsAre
  <2> QED  BY <1>1, <2>1, <2>2, StrategiesAre
<1>5. ToSet(a) \cap ToSet(b) = {} /\ (ToSet(a) \cup ToSet(b)) \cap ToSet(d) = {}
  BY <1>2, <1>3, <1>4
<1>6. /\ a \o b \in Seq(PlanCells) /\ IsInjective(a \o b)
      /\ ToSet(a \o b) = ToSet(a) \cup ToSet(b)
  <2>1. a \o b \in Seq(PlanCells) /\ ToSet(a \o b) = ToSet(a) \cup ToSet(b)
    BY <1>2, <1>3, ConcatSet
  <2>2. IsInjective(a \o b)
    BY <1>2, <1>3, <1>5, ConcatInjective
  <2> QED  BY <2>1, <2>2
<1>7. /\ (a \o b) \o d \in Seq(PlanCells) /\ IsInjective((a \o b) \o d)
      /\ ToSet((a \o b) \o d) = ToSet(a) \cup ToSet(b) \cup ToSet(d)
  <2>1. PICK e : e = a \o b
    OBVIOUS
  <2>2. e \in Seq(PlanCells) /\ IsInjective(e) /\ ToSet(e) \cap ToSet(d) = {}
    BY <1>5, <1>6, <2>1
  <2>3. e \o d \in Seq(PlanCells) /\ ToSet(e \o d) = ToSet(e) \cup ToSet(d)
    BY <1>4, <2>2, ConcatSet
  <2>4. IsInjective(e \o d)
    BY <1>4, <2>2, ConcatInjective
  <2> QED  BY <1>6, <2>1, <2>3, <2>4
<1>8. build_cell_plan(bound) = (a \o b) \o d
  BY <1>1 DEF build_cell_plan
<1>9. ToSet(a) \cup ToSet(b) \cup ToSet(d) = Planned(bound)
  BY <1>2, <1>3, <1>4 DEF Planned
<1> QED  BY <1>7, <1>8, <1>9

LEMMA ProbesAre ==
    /\ Probes \in Seq(PlanCells)
    /\ ToSet(Probes) \subseteq Planned(GridPairs)
<1>1. /\ Probes \in Seq(PlanCells)
      /\ \A c : c \in ToSet(Probes) <=>
                   /\ c \in PlanCells /\ c.strategy \in ToSet(<<"EVICTION_LRU">>)
                   /\ Pair(c) \in ToSet(AllPairs) /\ Pair(c) \in ToSet(AllPairs)
  BY AllPairsAre, StrategiesAre, CrossIs DEF Probes
<1>2. ASSUME NEW c \in ToSet(Probes) PROVE c \in Planned(GridPairs)
  BY <1>1, AllPairsAre, StrategiesAre DEF Planned
<1> QED  BY <1>1, <1>2

\* No cell is none of those that are planned or probed.
LEMMA NoCellIsNotPlanned ==
    /\ NoCell \notin Planned(GridPairs)
    /\ \A bound \in SUBSET GridPairs : Planned(bound) \subseteq Planned(GridPairs)
<1>1. ToSet(build_cell_plan(ToSet(AllPairs))) = Planned(GridPairs)
  BY AllPairsAre, PlanIs
<1>2. \A bound \in SUBSET GridPairs : Planned(bound) \subseteq Planned(GridPairs)
  BY DEF Planned
<1> QED  BY <1>1, <1>2, NoCellAssumption

\* The audit runs cells of the plan.
LEMMA AuditedIs ==
    ASSUME NEW V, NEW s \in Seq(V)
    PROVE  Audited(s) \in Seq(V)
<1>1. PICK parts : parts = [i \in DOMAIN s |->
                               IF s[i] \in results /\ Primary(s[i]) THEN <<s[i]>> ELSE <<>>]
  OBVIOUS
<1>2. DOMAIN s = 1..Len(s) /\ Len(s) \in Nat /\ \A i \in 1..Len(s) : s[i] \in V
  OBVIOUS
<1>3. \A i \in 1..Len(s) : parts[i] \in Seq(V)
  BY <1>1, <1>2
<1>4. parts \in Seq(Seq(V))
  <2>1. parts \in [1..Len(s) -> Seq(V)]
    BY <1>1, <1>2, <1>3
  <2> QED  BY <1>2, <2>1
<1>5. FlattenSeq(parts) \in Seq(V)
  BY <1>4, Flattened
<1> QED  BY <1>1, <1>5 DEF Audited
\* A queue without its head.
LEMMA HeadAndTail ==
    ASSUME NEW V, NEW q \in Seq(V), q # <<>>
    PROVE  /\ Head(q) \in V /\ Tail(q) \in Seq(V)
           /\ ToSet(q) = {Head(q)} \cup ToSet(Tail(q))
           /\ IsInjective(q) => IsInjective(Tail(q)) /\ Head(q) \notin ToSet(Tail(q))
<1>1. PICK t, n : t = Tail(q) /\ n = Len(q)
  OBVIOUS
<1>2. /\ n \in Nat \ {0} /\ DOMAIN q = 1..n /\ Head(q) = q[1] /\ q[1] \in V
      /\ t \in Seq(V) /\ Len(t) = n - 1 /\ DOMAIN t = 1..(n - 1)
      /\ \A i \in 1..(n - 1) : t[i] = q[i + 1]
  BY <1>1
<1>3. \A i \in 1..n : i = 1 \/ (i - 1 \in 1..(n - 1) /\ q[i] = t[i - 1])
  BY <1>2
<1>4. \A i \in 1..(n - 1) : i + 1 \in 1..n /\ i + 1 # 1
  BY <1>2
<1>5. ToSet(q) = {q[1]} \cup ToSet(t)
  <2>1. ASSUME NEW x \in ToSet(q) PROVE x \in {q[1]} \cup ToSet(t)
    <3>1. PICK i \in 1..n : x = q[i]
      BY <1>2 DEF ToSet
    <3>2. CASE i - 1 \in 1..(n - 1) /\ q[i] = t[i - 1]
      BY <1>2, <3>1, <3>2 DEF ToSet
    <3> QED  BY <1>3, <3>1, <3>2
  <2>2. ASSUME NEW x \in {q[1]} \cup ToSet(t) PROVE x \in ToSet(q)
    BY <1>2, <1>4, SMTT(30) DEF ToSet
  <2> QED  BY <2>1, <2>2
<1>6. ASSUME IsInjective(q) PROVE IsInjective(t) /\ q[1] \notin ToSet(t)
  <2>1. \A i, j \in 1..n : q[i] = q[j] => i = j
    BY <1>2, <1>6 DEF IsInjective
  <2>2. \A i, j \in 1..(n - 1) : t[i] = t[j] => i = j
    BY <1>2, <1>4, <2>1
  <2>3. \A i \in 1..(n - 1) : t[i] # q[1]
    BY <1>2, <1>4, <2>1
  <2> QED  BY <1>2, <2>2, <2>3 DEF IsInjective, ToSet
<1> QED  BY <1>1, <1>2, <1>5, <1>6

\* Every planned cell is in the results, in the failures or still in the queue,
\* and the execution under way is of the queue's head.
Recorded ==
    /\ binding \subseteq GridPairs
    /\ queue \in Seq(Planned(GridPairs))
    /\ busy.stage \in {"idle", "run", "exit"}
    /\ busy = [cell |-> busy.cell, stage |-> busy.stage, outcome |-> busy.outcome]
    /\ busy.stage # "idle" => /\ queue # <<>> /\ busy.cell = Head(queue)
                              /\ handler = HandlerOf(Head(queue))
    /\ kind = "final" =>
          /\ phase = "probe" => results = {} /\ failures = {}
          /\ phase = "grid" =>
                /\ IsInjective(queue)
                /\ results \cup failures \cup ToSet(queue) = Planned(binding)
                /\ results \cap failures = {}
                /\ (results \cup failures) \cap ToSet(queue) = {}
          /\ phase \in {"audit", "success"} =>
                /\ results \cup failures = Planned(binding)
                /\ results \cap failures = {} /\ results # {}
          /\ phase = "abort" => cause \in Planned(GridPairs)

LEMMA InitRecorded == ASSUME Init PROVE Recorded
<1>1. queue \in Seq(Planned(GridPairs))
  <2>1. Probes \in Seq(PlanCells) /\ ToSet(Probes) \subseteq Planned(GridPairs)
    BY ProbesAre
  <2>2. Probes \in Seq(Planned(GridPairs))
    BY <2>1, MembersOf
  <2> QED  BY <2>2 DEF Init, CampaignInit, GridInit
<1> QED  BY <1>1 DEF Init, CampaignInit, GridInit, Recorded, Idle

\* An execution is settled: its cell leaves the queue.
LEMMA SettleRecords ==
    ASSUME Recorded, kind = "final", kind' = kind, busy.stage # "idle",
           NEW outcome \in {"ok", "error", "abort"}, Settle(outcome),
           phase \in Working \/ outcome = "abort"
    PROVE  Recorded'
<1>1. PICK cell : cell = busy.cell
  OBVIOUS
<1>2. /\ queue # <<>> /\ cell = Head(queue) /\ handler = HandlerOf(cell)
      /\ queue' = Tail(queue) /\ queue \in Seq(Planned(GridPairs))
      /\ busy' = Idle
  BY <1>1 DEF Recorded, Settle
<1>3. /\ cell \in Planned(GridPairs) /\ queue' \in Seq(Planned(GridPairs))
      /\ ToSet(queue) = {cell} \cup ToSet(queue')
      /\ IsInjective(queue) => IsInjective(queue') /\ cell \notin ToSet(queue')
  BY <1>2, HeadAndTail
<1>4. Pair(cell) \in GridPairs
  BY <1>3, CellsHavePairs DEF Planned
<1>5. busy' = [cell |-> NoCell, stage |-> "idle", outcome |-> "none"]
  BY <1>2 DEF Idle
<1>6. binding' \subseteq GridPairs
  BY <1>1, <1>4 DEF Recorded, Settle
<1>7. CASE outcome = "ok"
  <2>1. /\ UNCHANGED <<phase, failures, cause>>
        /\ results' = IF phase = "grid" THEN results \cup {cell} ELSE results
        /\ phase # "probe" => binding' = binding
    BY <1>1, <1>7 DEF Settle
  <2>2. CASE phase = "grid"
    <3>1. results' = results \cup {cell} /\ binding' = binding
      BY <2>1, <2>2
    <3> QED  BY <1>3, <1>5, <1>6, <2>1, <2>2, <3>1 DEF Recorded
  <2>3. CASE phase # "grid"
    <3>1. results' = results
      BY <2>1, <2>3
    <3> QED  BY <1>3, <1>5, <1>6, <2>1, <2>3, <3>1 DEF Recorded, Working
  <2> QED  BY <2>2, <2>3
<1>8. CASE outcome = "error"
  <2>1. CASE phase = "grid"
    <3>1. failures' = failures \cup {cell} /\ UNCHANGED <<phase, binding, results>>
      BY <1>1, <1>8, <2>1 DEF Settle
    <3> QED  BY <1>3, <1>5, <1>6, <2>1, <3>1 DEF Recorded
  <2>2. CASE phase # "grid"
    <3>1. phase' = "raised"
      BY <1>8, <2>2 DEF Settle
    <3> QED  BY <1>3, <1>5, <1>6, <3>1 DEF Recorded
  <2> QED  BY <2>1, <2>2
<1>9. CASE outcome = "abort"
  <2>1. phase' = "abort" /\ cause' = handler.cell
    BY <1>9 DEF Settle
  <2>2. cause' = cell
    BY <1>2, <2>1 DEF HandlerOf
  <2> QED  BY <1>3, <1>5, <1>6, <2>1, <2>2 DEF Recorded
<1> QED  BY <1>7, <1>8, <1>9

\* The script goes on to its next phase.
LEMMA NextPhaseRecords ==
    ASSUME Recorded, kind = "final", kind' = kind, NextPhase
    PROVE  Recorded'
<1>1. /\ busy = Idle /\ queue = <<>>
      /\ UNCHANGED <<binding, results, failures, busy, handler, cause>>
      /\ binding \subseteq GridPairs
  BY DEF NextPhase, Recorded
<1>2. /\ build_cell_plan(binding) \in Seq(Planned(GridPairs))
      /\ IsInjective(build_cell_plan(binding))
      /\ ToSet(build_cell_plan(binding)) = Planned(binding)
  <2>1. PICK p : p = build_cell_plan(binding)
    OBVIOUS
  <2>2. /\ p \in Seq(PlanCells) /\ IsInjective(p) /\ ToSet(p) = Planned(binding)
    BY <1>1, <2>1, PlanIs
  <2>3. ToSet(p) \subseteq Planned(GridPairs)
    BY <1>1, <2>2, NoCellIsNotPlanned
  <2>4. p \in Seq(Planned(GridPairs))
    BY <2>2, <2>3, MembersOf
  <2> QED  BY <2>1, <2>2, <2>4
<1>3. busy.stage = "idle"
  BY <1>1 DEF Idle
<1>4. CASE phase = "probe" /\ phase' = "grid" /\ queue' = build_cell_plan(binding)
  BY <1>1, <1>2, <1>3, <1>4 DEF Recorded
<1>5. CASE phase = "grid" /\ results # {} /\ phase' = "audit"
           /\ queue' = Audited(build_cell_plan(binding))
  <2>1. queue' \in Seq(Planned(GridPairs))
    BY <1>2, <1>5, AuditedIs
  <2>2. ToSet(queue) = {}
    BY <1>1 DEF ToSet
  <2> QED  BY <1>1, <1>3, <1>5, <2>1, <2>2 DEF Recorded
<1>6. CASE phase = "grid" /\ phase' = "raised" /\ queue' = queue
  BY <1>1, <1>6 DEF Recorded
<1>7. CASE phase = "audit" /\ phase' = "success" /\ queue' = queue
  BY <1>1, <1>7 DEF Recorded
<1> QED  BY <1>4, <1>5, <1>6, <1>7 DEF NextPhase

LEMMA StepRecorded == ASSUME Recorded, GridInv, [Next]_vars PROVE Recorded'
<1>1. CASE Compute
  <2>1. kind = "final" /\ kind' = kind /\ Grid
    BY <1>1 DEF Compute, pubVars
  <2>2. CASE Enter
    <3>1. /\ queue # <<>> /\ busy' = [cell |-> Head(queue), stage |-> "run", outcome |-> "none"]
          /\ handler' = HandlerOf(Head(queue))
          /\ UNCHANGED <<phase, queue, binding, results, failures, cause>>
      BY <2>2 DEF Enter
    <3> QED  BY <2>1, <3>1 DEF Recorded
  <2>3. CASE TakeCached
    <3>1. /\ phase = "grid" /\ busy = Idle /\ queue # <<>>
          /\ results' = results \cup {Head(queue)} /\ queue' = Tail(queue)
          /\ UNCHANGED <<phase, binding, failures, busy, handler, cause>>
      BY <2>3 DEF TakeCached
    <3>2. /\ queue' \in Seq(Planned(GridPairs))
          /\ ToSet(queue) = {Head(queue)} \cup ToSet(queue')
          /\ IsInjective(queue) => IsInjective(queue') /\ Head(queue) \notin ToSet(queue')
      BY <3>1, HeadAndTail DEF Recorded
    <3>3. busy.stage = "idle"
      BY <3>1 DEF Idle
    <3> QED  BY <2>1, <3>1, <3>2, <3>3 DEF Recorded
  <2>4. CASE Finish
    <3>1. PICK outcome \in {"ok", "error"} :
               busy' = [busy EXCEPT !.stage = "exit", !.outcome = outcome]
      BY <2>4 DEF Finish
    <3>2. /\ busy.stage = "run"
          /\ UNCHANGED <<phase, queue, binding, results, failures, handler, cause>>
      BY <2>4 DEF Finish
    <3>3. busy' = [cell |-> busy.cell, stage |-> "exit", outcome |-> outcome]
      BY <3>1 DEF Recorded
    <3> QED  BY <2>1, <3>2, <3>3 DEF Recorded
  <2>5. CASE Exit
    <3>1. busy.stage = "exit" /\ Settle(busy.outcome) /\ phase \in Working
      BY <2>5 DEF Exit, Running
    <3>2. busy.outcome \in {"ok", "error", "abort"}
      BY <3>1 DEF Settle
    <3> QED  BY <2>1, <3>1, <3>2, SettleRecords
  <2>6. CASE JoinTimesOut
    <3>1. busy.stage = "exit" /\ Settle("error") /\ phase \in Working
      BY <2>6 DEF JoinTimesOut, Running
    <3> QED  BY <2>1, <3>1, SettleRecords
  <2>7. CASE Interrupt
    <3>1. CASE busy.stage = "run"
      <4>1. /\ busy' = [busy EXCEPT !.stage = "exit", !.outcome = "abort"]
            /\ UNCHANGED <<phase, queue, binding, results, failures, handler, cause>>
        BY <2>7, <3>1 DEF Interrupt
      <4>2. busy' = [cell |-> busy.cell, stage |-> "exit", outcome |-> "abort"]
        BY <4>1 DEF Recorded
      <4> QED  BY <2>1, <3>1, <4>1, <4>2 DEF Recorded
    <3>2. CASE busy.stage = "exit"
      <4>1. Settle("abort")
        BY <2>7, <3>2 DEF Interrupt
      <4> QED  BY <2>1, <3>2, <4>1, SettleRecords
    <3> QED  BY <2>7, <3>1, <3>2 DEF Interrupt
  <2>8. CASE NextPhase
    BY <2>1, <2>8, NextPhaseRecords
  <2>9. CASE Trip \/ Kill \/ Quit \/ StrayTrip \/ StrayEnds
    <3>1. /\ UNCHANGED <<queue, binding, results, failures, busy, handler, cause>>
          /\ phase' = phase \/ phase' = "killed"
      BY <2>9 DEF Trip, Kill, Quit, StrayTrip, StrayEnds, Signal
    <3> QED  BY <2>1, <3>1 DEF Recorded
  <2> QED  BY <2>1, <2>2, <2>3, <2>4, <2>5, <2>6, <2>7, <2>8, <2>9 DEF Grid
<1>2. CASE Restart
  <2>1. Probes \in Seq(PlanCells) /\ ToSet(Probes) \subseteq Planned(GridPairs)
    BY ProbesAre
  <2>2. Probes \in Seq(Planned(GridPairs))
    BY <2>1, MembersOf
  <2>3. /\ queue' = Probes /\ phase' = "probe" /\ binding' = {}
        /\ results' = {} /\ failures' = {} /\ busy' = Idle
    BY <1>2 DEF Restart
  <2> QED  BY <2>2, <2>3 DEF Recorded, Idle
<1>3. CASE PublishCases
  <2>1. /\ kind # "final" /\ kind' = kind
        /\ UNCHANGED <<phase, queue, binding, busy, handler>>
    BY <1>3 DEF PublishCases, Stage
  <2> QED  BY <2>1 DEF Recorded
<1>4. CASE UNCHANGED <<gridVars, kind>>
  BY <1>4 DEF gridVars, Recorded
<1> QED  BY <1>1, <1>2, <1>3, <1>4, NextIsGridStep
\* The set a run publishes.
SetOfRun == IF kind = "final" /\ phase = "abort" THEN AbortSet ELSE SuccessSet
AnyName == Names(SuccessSet) \cup Names(AbortSet)

\* What a placement run has put into the live directory so far.
Installing ==
    /\ step \in {"compute", "install", "done", "raised", "dead"}
    /\ \/ live = Absent
       \/ DOMAIN live \subseteq AnyName /\ live \in [DOMAIN live -> 1..MaxRuns]
    /\ step = "install" =>
          /\ staging = Stamped(SuccessSet, run) /\ live # Absent
          /\ todo # <<>> /\ todo \in Seq(Names(SuccessSet))
          /\ \A n \in Names(SuccessSet) : n \in ToSet(todo) \/ (n \in DOMAIN live /\ live[n] = run)
    /\ step = "done" => Valid(live, SuccessSet, run)

\* What the others have staged or committed is the set of this run.
Swapping ==
    /\ step \in {"swap", "reserved", "cleared", "moved"} => staging = Stamped(SetOfRun, run)
    /\ step \in {"committed", "cleaning", "done"} => live = Stamped(SetOfRun, run)

Returned ==
    /\ kind \in Kinds /\ step \in Steps
    /\ IF kind = "placement" THEN Installing ELSE Swapping
    /\ kind = "final" /\ step \notin {"compute", "raised", "dead"} => phase \in {"success", "abort"}
    /\ exit = "ok" => /\ step = "done"
                      /\ kind = "placement" => failures = {}
                      /\ kind = "final" => phase = "success"
    /\ exit = "aborted" => step = "done" /\ kind = "final" /\ phase = "abort"

LEMMA InitReturned == ASSUME Init PROVE Returned
BY DEF Init, CampaignInit, PubInit, Returned, Kinds, Steps, Installing, Swapping

\* No directory that is there is the absent one.
LEMMA AbsentIsNoDirectory ==
    /\ \A held \in SUBSET AnyName : \A d \in [held -> 1..MaxRuns] : d # Absent
    /\ \A r \in 1..MaxRuns, set \in {SuccessSet, AbortSet} :
           /\ Stamped(set, r) \in [Names(set) -> 1..MaxRuns] /\ Stamped(set, r) # Absent
           /\ Valid(Stamped(set, r), set, r)
<1>1. \A held \in SUBSET AnyName : \A d \in [held -> 1..MaxRuns] : d # Absent
  BY AbsentAssumption DEF AnyName
<1>2. ASSUME NEW r \in 1..MaxRuns, NEW set \in {SuccessSet, AbortSet}
      PROVE  /\ Stamped(set, r) \in [Names(set) -> 1..MaxRuns] /\ Stamped(set, r) # Absent
             /\ Valid(Stamped(set, r), set, r)
  <2>1. Stamped(set, r) \in [Names(set) -> 1..MaxRuns]
    BY DEF Stamped
  <2>2. Names(set) \in SUBSET AnyName
    BY DEF AnyName
  <2>3. Stamped(set, r) # Absent
    BY <1>1, <2>1, <2>2
  <2> QED  BY <2>1, <2>3 DEF Valid, Stamped
<1> QED  BY <1>1, <1>2

\* The sets have names to be written, each in its place.
LEMMA SetsAreSequences ==
    ASSUME NEW set \in {SuccessSet, AbortSet}
    PROVE  set \in Seq(Names(set)) /\ set # <<>> /\ ToSet(set) = Names(set)
<1>1. Len(set) = 3 /\ DOMAIN set = 1..3
  BY DEF SuccessSet, AbortSet
<1>2. set = [i \in 1..3 |-> set[i]]
  BY DEF SuccessSet, AbortSet
<1>3. set \in [1..3 -> Names(set)]
  BY <1>1, <1>2 DEF Names
<1>4. set \in Seq(Names(set))
  <2>1. PICK V, n : V = Names(set) /\ n = 3
    OBVIOUS
  <2>2. set \in [1..n -> V] /\ n \in Nat
    BY <1>3, <2>1
  <2>3. set \in Seq(V)
    BY <2>2
  <2> QED  BY <2>1, <2>3
<1>5. set # <<>>
  BY <1>1
<1>6. ToSet(set) = Names(set)
  BY DEF ToSet, Names
<1> QED  BY <1>4, <1>5, <1>6

\* A run stages its set.
LEMMA StageReturns ==
    ASSUME Returned, PubInv, exit' = exit, step = "compute", NEW set \in {SuccessSet, AbortSet},
           Stage(set), set = SetOfRun', kind # "final" => set = SuccessSet,
           kind = "final" => phase' \in {"success", "abort"}
    PROVE  Returned'
<1>1. /\ kind' = kind /\ run' = run /\ run \in 1..MaxRuns
      /\ staging' = Stamped(set, run) /\ todo' = set
      /\ step' = IF kind = "placement" THEN "install" ELSE "swap"
      /\ live' = IF kind = "placement" /\ live = Absent THEN [n \in {} |-> 0] ELSE live
  BY DEF Stage, PubInv, EmptyDirectory
<1>2. exit' \notin {"ok", "aborted"}
  BY DEF Returned
<1>3. CASE kind = "placement"
  <2>1. set = SuccessSet /\ step' = "install"
    BY <1>1, <1>3
  <2>2. DOMAIN live' \subseteq AnyName /\ live' \in [DOMAIN live' -> 1..MaxRuns]
    <3>1. CASE live = Absent
      <4>1. live' = [n \in {} |-> 0]
        BY <1>1, <1>3, <3>1
      <4> QED  BY <4>1
    <3>2. CASE live # Absent
      BY <1>1, <1>3, <3>2 DEF Returned, Installing
    <3> QED  BY <3>1, <3>2
  <2>3. live' # Absent
    BY <2>2, AbsentIsNoDirectory
  <2>4. todo' # <<>> /\ todo' \in Seq(Names(SuccessSet)) /\ ToSet(todo') = Names(SuccessSet)
    BY <1>1, <2>1, SetsAreSequences
  <2>5. Installing'
    BY <1>1, <2>1, <2>2, <2>3, <2>4 DEF Installing
  <2> QED  BY <1>1, <1>2, <1>3, <2>1, <2>5 DEF Returned, Steps
<1>4. CASE kind # "placement"
  <2>1. step' = "swap" /\ Swapping'
    BY <1>1, <1>4 DEF Swapping
  <2> QED  BY <1>1, <1>2, <1>4, <2>1 DEF Returned, Steps
<1> QED  BY <1>3, <1>4

\* A placement run replaces one file.
LEMMA InstallReturns ==
    ASSUME Returned, PubInv, kind = "placement", Install, failures' = failures, phase' = phase,
           exit' \in {"none", "failed"} \/ (exit' = "ok" /\ step' = "done" /\ failures = {})
    PROVE  Returned'
<1>1. PICK n : n = Head(todo)
  OBVIOUS
<1>2. /\ step = "install" /\ kind' = kind /\ run' = run /\ run \in 1..MaxRuns
      /\ live' = With(live, n, staging[n]) /\ todo' = Tail(todo) /\ staging' = staging
      /\ step' = IF todo' = <<>> THEN "done" ELSE "install"
  BY <1>1 DEF Install, PubInv
<1>3. Installing
  BY DEF Returned
<1>4. /\ todo # <<>> /\ todo \in Seq(Names(SuccessSet)) /\ staging = Stamped(SuccessSet, run)
      /\ live # Absent
      /\ DOMAIN live \subseteq AnyName /\ live \in [DOMAIN live -> 1..MaxRuns]
      /\ \A m \in Names(SuccessSet) : m \in ToSet(todo) \/ (m \in DOMAIN live /\ live[m] = run)
  BY <1>2, <1>3 DEF Installing
<1>5. /\ n \in Names(SuccessSet) /\ todo' \in Seq(Names(SuccessSet))
      /\ ToSet(todo) = {n} \cup ToSet(todo')
  BY <1>1, <1>2, <1>4, HeadAndTail
<1>6. staging[n] = run
  BY <1>4, <1>5 DEF Stamped
<1>7. live' = [m \in DOMAIN live \cup {n} |-> IF m = n THEN run ELSE live[m]]
  BY <1>2, <1>6 DEF With
<1>8. /\ DOMAIN live' \subseteq AnyName /\ live' \in [DOMAIN live' -> 1..MaxRuns]
      /\ \A m \in Names(SuccessSet) : m \in ToSet(todo') \/ (m \in DOMAIN live' /\ live'[m] = run)
  <2>1. DOMAIN live' = DOMAIN live \cup {n} /\ n \in AnyName
    BY <1>5, <1>7 DEF AnyName
  <2>2. live' \in [DOMAIN live' -> 1..MaxRuns]
    BY <1>2, <1>4, <1>7, <2>1
  <2>3. \A m \in Names(SuccessSet) : m \in ToSet(todo') \/ (m \in DOMAIN live' /\ live'[m] = run)
    BY <1>4, <1>5, <1>7, <2>1
  <2> QED  BY <1>4, <2>1, <2>2, <2>3
<1>9. live' # Absent
  BY <1>8, AbsentIsNoDirectory
<1>10. step' = "done" => Valid(live', SuccessSet, run)
  BY <1>2, <1>8, <1>9 DEF Valid, ToSet
<1>11. Installing'
  BY <1>2, <1>4, <1>5, <1>8, <1>9, <1>10 DEF Installing
<1> QED  BY <1>2, <1>11 DEF Returned, Steps

\* The other scripts rename their directories, then clean up.
LEMMA SwapReturns ==
    ASSUME Returned, PubInv, kind # "placement", Publish, failures' = failures, phase' = phase,
           kind' = kind,
           \/ exit' \in {"none", "failed"}
           \/ exit' = "ok" /\ step' = "done" /\ (kind = "final" => phase # "abort")
           \/ exit' = "aborted" /\ step' = "done" /\ kind = "final" /\ phase = "abort"
    PROVE  Returned'
<1>1. /\ kind # "placement" => StepKnows
      /\ run \in 1..MaxRuns
  BY DEF PubInv
<1>2. ~Install /\ ~InstallFails
  BY <1>1 DEF Install, InstallFails, StepKnows
<1>3. Swapping /\ kind \in Kinds /\ step \in Steps
  BY DEF Returned
<1>4. Swapping' /\ step' \in Steps /\ step \notin {"compute", "raised", "dead"}
  <2>0. CASE Reserve \/ RemovePlaceholder \/ PlaceholderStays \/ RenameFails
    BY <1>3, <2>0 DEF Reserve, RemovePlaceholder, PlaceholderStays, RenameFails, Swapping, Steps,
       SetOfRun
  <2>1. CASE MoveAway \/ NothingToMove \/ MoveFails
    BY <1>3, <2>1 DEF MoveAway, Movable, NothingToMove, MoveFails, Raise, Swapping, Steps, SetOfRun
  <2>2. CASE Commit \/ CommitFails \/ CommitInterrupted \/ LeaveTry
    BY <1>3, <2>2 DEF Commit, CommitFails, CommitInterrupted, LeaveTry, Swapping, Steps, SetOfRun
  <2>3. CASE ClearLive \/ RollBack \/ RollBackFails
    BY <1>3, <2>3 DEF ClearLive, RollBack, RollBackFails, Raise, Swapping, Steps
  <2>4. CASE RemoveBackup \/ CleanupFails
    BY <1>3, <2>4 DEF RemoveBackup, CleanupFails, Raise, Swapping, Steps, SetOfRun
  <2> QED  BY <1>2, <2>0, <2>1, <2>2, <2>3, <2>4 DEF Publish
<1>5. kind = "final" => phase \in {"success", "abort"}
  BY <1>4 DEF Returned
<1> QED  BY <1>3, <1>4, <1>5 DEF Returned

LEMMA StepReturned == ASSUME Returned, PubInv, GridInv, [Next]_vars PROVE Returned'
<1>1. CASE RunCampaign
  <2>1. CASE Compute
    <3>1. step = "compute" /\ kind = "final" /\ UNCHANGED <<pubVars, exit>>
      BY <2>1 DEF Compute
    <3>2. exit' \notin {"ok", "aborted"}
      BY <3>1 DEF Returned
    <3> QED  BY <3>1, <3>2 DEF Returned, Swapping, pubVars
  <2>2. CASE PublishGrid
    <3>1. /\ step = "compute" /\ kind = "final" /\ UNCHANGED <<gridVars, exit>>
          /\ \/ phase = "success" /\ Stage(SuccessSet)
             \/ phase = "abort" /\ Stage(AbortSet)
      BY <2>2 DEF PublishGrid
    <3>2. kind' = kind /\ phase' = phase /\ exit' = exit
      BY <3>1 DEF Stage, gridVars
    <3>3. CASE phase = "success" /\ Stage(SuccessSet)
      <4>1. SetOfRun' = SuccessSet
        BY <3>2, <3>3 DEF SetOfRun
      <4> QED  BY <3>1, <3>2, <3>3, <4>1, StageReturns
    <3>4. CASE phase = "abort" /\ Stage(AbortSet)
      <4>1. SetOfRun' = AbortSet
        BY <3>1, <3>2, <3>4 DEF SetOfRun
      <4> QED  BY <3>1, <3>2, <3>4, <4>1, StageReturns
    <3> QED  BY <3>1, <3>3, <3>4
  <2>3. CASE PublishCases
    <3>1. /\ step = "compute" /\ kind # "final" /\ Stage(SuccessSet)
          /\ phase' = phase /\ exit' = exit /\ kind' = kind
      BY <2>3 DEF PublishCases, Stage
    <3>2. SetOfRun' = SuccessSet
      BY <3>1 DEF SetOfRun
    <3> QED  BY <3>1, <3>2, StageReturns
  <2>4. CASE Defer \/ ComputeRaises \/ Killed \/ Crash
    <3>1. /\ step' \in {"raised", "dead"} /\ exit' \in {"deferred", "failed", "killed"}
          /\ kind' = kind /\ live' = live /\ run' = run
      BY <2>4 DEF Defer, ComputeRaises, Raise, Killed, Crash, Die
    <3>2. Installing => Installing'
      BY <3>1 DEF Installing
    <3>3. Swapping'
      BY <3>1 DEF Swapping
    <3> QED  BY <3>1, <3>2, <3>3 DEF Returned, Steps
  <2>5. CASE Publication
    <3>1. /\ Publish /\ UNCHANGED gridVars
          /\ exit' = IF step' = "raised" THEN "failed"
                     ELSE IF step' # "done" THEN "none"
                     ELSE IF kind = "final" /\ phase = "abort" THEN "aborted"
                     ELSE IF kind = "placement" /\ failures # {} THEN "failed"
                     ELSE "ok"
      BY <2>5 DEF Publication
    <3>2. failures' = failures /\ phase' = phase
      BY <3>1 DEF gridVars
    <3>3. /\ \/ exit' \in {"none", "failed"}
             \/ /\ exit' = "ok" /\ step' = "done" /\ (kind = "final" => phase # "abort")
                /\ kind = "placement" => failures = {}
             \/ exit' = "aborted" /\ step' = "done" /\ kind = "final" /\ phase = "abort"
      BY <3>1
    <3>4. kind' = kind
      BY <3>1 DEF Publish, Reserve, RemovePlaceholder, PlaceholderStays, RenameFails,
         MoveAway, NothingToMove, MoveFails, Commit, CommitFails, CommitInterrupted, LeaveTry, RemoveBackup, CleanupFails, ClearLive,
         RollBack, RollBackFails, Install, InstallFails, Raise
    <3>5. CASE kind = "placement"
      <4>1. step \in {"compute", "install", "done", "raised", "dead"} /\ Installing
        BY <3>5 DEF Returned, Installing
      <4>2. Install \/ InstallFails
        BY <3>1, <4>1 DEF Publish, Reserve, RemovePlaceholder, PlaceholderStays, RenameFails,
           Movable, MoveAway, NothingToMove, MoveFails, Commit, CommitFails, CommitInterrupted, LeaveTry, RemoveBackup, CleanupFails, ClearLive,
           RollBack, RollBackFails
      <4>3. CASE Install
        BY <3>2, <3>3, <3>5, <4>3, InstallReturns
      <4>4. CASE InstallFails
        <5>1. step' = "raised" /\ live' = live
          BY <4>4 DEF InstallFails, Raise
        <5>2. Installing' /\ exit' \in {"none", "failed"}
          BY <3>3, <3>4, <4>1, <5>1 DEF Installing
        <5> QED  BY <3>4, <3>5, <5>1, <5>2 DEF Returned, Steps
      <4> QED  BY <4>2, <4>3, <4>4
    <3>6. CASE kind # "placement"
      BY <3>1, <3>2, <3>3, <3>4, <3>6, SwapReturns
    <3> QED  BY <3>5, <3>6
  <2>6. CASE Restart
    <3>1. /\ step' = "compute" /\ exit' = "none" /\ kind' = kind /\ live' = live
      BY <2>6 DEF Restart, NewProcess
    <3>2. Installing => Installing'
      BY <3>1 DEF Installing
    <3>3. Swapping'
      BY <3>1 DEF Swapping
    <3> QED  BY <3>1, <3>2, <3>3 DEF Returned, Steps
  <2>7. CASE UNCHANGED campaignVars
    BY <2>7 DEF campaignVars, pubVars, gridVars, Returned, Installing, Swapping, SetOfRun, Valid
  <2> QED  BY <1>1, <2>1, <2>2, <2>3, <2>4, <2>5, <2>6, <2>7 DEF RunCampaign, CampaignNext, Stopped
<1>2. CASE UNCHANGED campaignVars
  BY <1>2 DEF campaignVars, pubVars, gridVars, Returned, Installing, Swapping, SetOfRun, Valid
<1> QED  BY <1>1, <1>2 DEF Next, RecordDecisions, JoinReplay, Judged, vars
\* The strengthened invariant of the record and of the exit code.
OutcomeInv == PubInv /\ GridInv /\ Recorded /\ Returned

THEOREM OutcomeInvariance == Spec => []OutcomeInv
<1>1. Init => OutcomeInv
  BY InitPubInv, InitGridInv, InitRecorded, InitReturned DEF OutcomeInv
<1>2. OutcomeInv /\ [Next]_vars => OutcomeInv'
  BY StepPubInv, StepGridInv, StepRecorded, StepReturned DEF OutcomeInv
<1>3. QED
  BY <1>1, <1>2, PTL DEF Spec

\* Only the final grid leaves its first phase.
LEMMA PhasesAreFinal == ASSUME GridInv, phase # "probe" PROVE kind = "final"
BY DEF GridInv

\* The plan that is rebuilt from the binding pairs is the one that was executed.
LEMMA PlanIsPlanned == ASSUME Recorded PROVE Plan = Planned(binding) /\ binding \subseteq GridPairs
BY PlanIs DEF Recorded, Plan

LEMMA RecordAccounts == ASSUME Recorded, GridInv PROVE EveryCellAccounted
<1> SUFFICES ASSUME phase = "success"
             PROVE  /\ results \cup failures = Plan
                    /\ results \cap failures = {}
                    /\ results # {}
  BY DEF EveryCellAccounted
<1> QED  BY PhasesAreFinal, PlanIsPlanned DEF Recorded

\* Cells of the plan, by their pair and their strategy.
LEMMA PlannedAt ==
    ASSUME NEW bound \in SUBSET GridPairs, NEW p \in GridPairs
    PROVE  /\ \A s \in {"BASELINE", "PRICED_SPILL", "DECODE_CAUSAL"} : Cell(p, s) \in Planned(bound)
           /\ \A s \in {"EVICTION_LRU", "CENSUS_EVICTION"} :
                  Cell(p, s) \in Planned(bound) <=> p \in bound
           /\ \A s \in {"DECODE_NO_GATE", "DECODE_ORACLE", "DECODE_ORACLE_NOISED"} :
                  Cell(p, s) \in Planned(bound) <=> p[2] = Overload
<1>1. \A s \in Strategies : /\ Cell(p, s) \in PlanCells /\ Cell(p, s).strategy = s
                            /\ Pair(Cell(p, s)) = p /\ Cell(p, s).scale = p[2]
  <2> SUFFICES ASSUME NEW s \in Strategies
               PROVE  /\ Cell(p, s) \in PlanCells /\ Cell(p, s).strategy = s
                      /\ Pair(Cell(p, s)) = p /\ Cell(p, s).scale = p[2]
    OBVIOUS
  <2>1. Cell(p, s).scale = p[2]
    BY DEF Cell
  <2> QED  BY <2>1, CellsAreApart
<1>2. ASSUME NEW s \in {"BASELINE", "PRICED_SPILL", "DECODE_CAUSAL"} PROVE Cell(p, s) \in Planned(bound)
  <2>1. s \in Strategies
    BY DEF Strategies
  <2> QED  BY <1>1, <2>1 DEF Planned
<1>3. ASSUME NEW s \in {"EVICTION_LRU", "CENSUS_EVICTION"}
      PROVE  Cell(p, s) \in Planned(bound) <=> p \in bound
  <2>1. s \in Strategies
    BY DEF Strategies
  <2>2. Cell(p, s) \in PlanCells /\ Cell(p, s).strategy = s /\ Pair(Cell(p, s)) = p
    BY <1>1, <2>1
  <2> QED  BY <2>2 DEF Planned
<1>4. ASSUME NEW s \in {"DECODE_NO_GATE", "DECODE_ORACLE", "DECODE_ORACLE_NOISED"}
      PROVE  Cell(p, s) \in Planned(bound) <=> p[2] = Overload
  <2>1. s \in Strategies
    BY DEF Strategies
  <2>2. Cell(p, s) \in PlanCells /\ Cell(p, s).strategy = s /\ Cell(p, s).scale = p[2]
    BY <1>1, <2>1
  <2> QED  BY <2>2 DEF Planned
<1> QED  BY <1>2, <1>3, <1>4

\* What each verdict looks for.
LEMMA VerdictsLookFor ==
    ASSUME Recorded, NEW passed \in BOOLEAN
    PROVE  /\ _pareto = "COMPLETE" <=>
                  \A c \in Plan : Primary(c) => c \in results
           /\ _attribution = "COMPLETE" <=>
                  \A p \in GridPairs :
                      /\ \A s \in {"BASELINE", "PRICED_SPILL", "DECODE_CAUSAL"} : Cell(p, s) \in results
                      /\ p \in binding => \A s \in {"EVICTION_LRU", "CENSUS_EVICTION"} :
                                               Cell(p, s) \in results
           /\ _g12_4(passed) # "INCOMPLETE" <=>
                  \A p \in binding, s \in {"EVICTION_LRU", "CENSUS_EVICTION"} : Cell(p, s) \in results
           /\ _crossovers = {} <=>
                  \A p \in GridPairs, s \in {"BASELINE", "PRICED_SPILL", "DECODE_CAUSAL"} :
                      Cell(p, s) \in results
<1>1. /\ Plan = Planned(binding) /\ binding \subseteq GridPairs /\ ToSet(AllPairs) = GridPairs
      /\ \A c \in Plan : Pair(c) \in GridPairs /\ c.strategy \in Strategies /\ Bounded(c) \in BOOLEAN
                         /\ c = Cell(Pair(c), c.strategy)
  <2>1. \A c \in Plan : Bounded(c) \in BOOLEAN
    BY DEF Bounded
  <2> QED  BY <2>1, PlanIsPlanned, AllPairsAre, CellsHavePairs DEF Planned
<1>2. _pareto = "COMPLETE" <=> \A c \in Plan : Primary(c) => c \in results
  <2>1. \A p \in GridPairs, b \in BOOLEAN :
            ParetoMissing(p, b) = {} <=>
                \A c \in Plan : Primary(c) /\ Pair(c) = p /\ Bounded(c) = b => c \in results
    BY DEF ParetoMissing
  <2>2. _pareto = "COMPLETE" <=> \A p \in GridPairs, b \in BOOLEAN : ParetoMissing(p, b) = {}
    BY <1>1 DEF _pareto
  <2>3. ASSUME \A p \in GridPairs, b \in BOOLEAN : ParetoMissing(p, b) = {},
               NEW c \in Plan, Primary(c)
        PROVE  c \in results
    BY <1>1, <2>1, <2>3
  <2>4. ASSUME \A c \in Plan : Primary(c) => c \in results, NEW p \in GridPairs, NEW b \in BOOLEAN
        PROVE  ParetoMissing(p, b) = {}
    BY <2>1, <2>4
  <2> QED  BY <2>2, <2>3, <2>4
<1>3. \A p \in GridPairs : (\E c \in Plan : Pair(c) = p /\ Bounded(c)) <=> p \in binding
  <2> SUFFICES ASSUME NEW p \in GridPairs
               PROVE  (\E c \in Plan : Pair(c) = p /\ Bounded(c)) <=> p \in binding
    OBVIOUS
  <2>1. ASSUME p \in binding PROVE \E c \in Plan : Pair(c) = p /\ Bounded(c)
    <3>1. Cell(p, "EVICTION_LRU") \in Plan
      BY <1>1, <2>1, PlannedAt
    <3>2. "EVICTION_LRU" \in Strategies
      BY DEF Strategies
    <3>3. Pair(Cell(p, "EVICTION_LRU")) = p /\ Cell(p, "EVICTION_LRU").strategy = "EVICTION_LRU"
      BY <3>2, CellsAreApart
    <3>4. Bounded(Cell(p, "EVICTION_LRU"))
      BY <3>3, StrategiesAre DEF Bounded
    <3> QED  BY <3>1, <3>3, <3>4
  <2>2. ASSUME NEW c \in Plan, Pair(c) = p, Bounded(c) PROVE p \in binding
    <3>1. c.strategy \in {"EVICTION_LRU", "CENSUS_EVICTION"}
      BY <2>2, StrategiesAre DEF Bounded
    <3> QED  BY <1>1, <2>2, <3>1 DEF Planned
  <2> QED  BY <2>1, <2>2
<1>4. _attribution = "COMPLETE" <=>
          \A p \in GridPairs :
              /\ \A s \in {"BASELINE", "PRICED_SPILL", "DECODE_CAUSAL"} : Cell(p, s) \in results
              /\ p \in binding => \A s \in {"EVICTION_LRU", "CENSUS_EVICTION"} : Cell(p, s) \in results
  <2>1. \A p \in GridPairs :
            (\E switch \in Switches :
                /\ ~({Cell(p, switch[1]), Cell(p, switch[2])} \subseteq results)
                /\ switch = <<"EVICTION_LRU", "CENSUS_EVICTION">> =>
                      \E c \in Plan : Pair(c) = p /\ Bounded(c))
            <=> \/ \E s \in {"BASELINE", "PRICED_SPILL", "DECODE_CAUSAL"} : Cell(p, s) \notin results
                \/ p \in binding /\ \E s \in {"EVICTION_LRU", "CENSUS_EVICTION"} : Cell(p, s) \notin results
    <3> SUFFICES ASSUME NEW p \in GridPairs
                 PROVE  (\E switch \in Switches :
                            /\ ~({Cell(p, switch[1]), Cell(p, switch[2])} \subseteq results)
                            /\ switch = <<"EVICTION_LRU", "CENSUS_EVICTION">> => p \in binding)
                        <=> \/ \E s \in {"BASELINE", "PRICED_SPILL", "DECODE_CAUSAL"} : Cell(p, s) \notin results
                            \/ /\ p \in binding
                               /\ \E s \in {"EVICTION_LRU", "CENSUS_EVICTION"} : Cell(p, s) \notin results
      BY <1>3
    <3> QED  BY DEF Switches
  <2>2. _attribution = "COMPLETE" <=>
            \A p \in GridPairs :
               ~(\E switch \in Switches :
                /\ ~({Cell(p, switch[1]), Cell(p, switch[2])} \subseteq results)
                /\ switch = <<"EVICTION_LRU", "CENSUS_EVICTION">> =>
                      \E c \in Plan : Pair(c) = p /\ Bounded(c))
    BY <1>1 DEF _attribution
  <2> QED  BY <2>1, <2>2
<1>5. _g12_4(passed) # "INCOMPLETE" <=>
          \A p \in binding, s \in {"EVICTION_LRU", "CENSUS_EVICTION"} : Cell(p, s) \in results
  <2>1. \A p : (\E i \in DOMAIN EVICTION_STRATEGIES : Cell(p, EVICTION_STRATEGIES[i]) \notin results)
               <=> \E s \in {"EVICTION_LRU", "CENSUS_EVICTION"} : Cell(p, s) \notin results
    <3>1. \A s : s \in {"EVICTION_LRU", "CENSUS_EVICTION"} <=>
                    \E i \in DOMAIN EVICTION_STRATEGIES : s = EVICTION_STRATEGIES[i]
      BY StrategiesAre DEF ToSet
    <3> QED  BY <3>1
  <2> QED  BY <2>1 DEF _g12_4
<1>6. _crossovers = {} <=>
          \A p \in GridPairs, s \in {"BASELINE", "PRICED_SPILL", "DECODE_CAUSAL"} : Cell(p, s) \in results
  <2>1. \A p : (\E i \in DOMAIN PRIMARY_STRATEGIES : Cell(p, PRIMARY_STRATEGIES[i]) \notin results)
               <=> \E s \in {"BASELINE", "PRICED_SPILL", "DECODE_CAUSAL"} : Cell(p, s) \notin results
    <3>1. \A s : s \in {"BASELINE", "PRICED_SPILL", "DECODE_CAUSAL"} <=>
                    \E i \in DOMAIN PRIMARY_STRATEGIES : s = PRIMARY_STRATEGIES[i]
      BY StrategiesAre DEF ToSet
    <3> QED  BY <3>1
  <2> QED  BY <1>1, <2>1 DEF _crossovers
<1> QED  BY <1>2, <1>4, <1>5, <1>6

LEMMA RecordShowsGaps == ASSUME Recorded, GridInv PROVE VerdictsShowEveryGap
<1> SUFFICES ASSUME phase = "success", NEW passed \in BOOLEAN
             PROVE  /\ failures = {} <=> /\ _pareto = "COMPLETE"
                                         /\ _g12_3(passed, TRUE) \in {"PASS", "NARROW_OVERLOAD_ONLY"}
                    /\ _attribution = "COMPLETE" => _crossovers = {} /\ _g12_4(passed) # "INCOMPLETE"
                    /\ _pareto = "COMPLETE" => _attribution = "COMPLETE"
                    /\ _g12_4(passed) = "PASS" => {c \in Plan : Bounded(c)} \subseteq results
  BY DEF VerdictsShowEveryGap
<1>1. /\ results \cup failures = Plan /\ results \cap failures = {}
      /\ Plan = Planned(binding) /\ binding \subseteq GridPairs
  BY PhasesAreFinal, PlanIsPlanned DEF Recorded
<1>2. \A c \in Plan : /\ c \in PlanCells /\ Pair(c) \in GridPairs /\ c = Cell(Pair(c), c.strategy)
                      /\ Pair(c)[2] = c.scale
  BY <1>1, CellsHavePairs, Zenon DEF Planned, Pair
<1>3. \A c \in Plan : Primary(c) <=> c.strategy \notin {"DECODE_NO_GATE", "DECODE_ORACLE",
                                                        "DECODE_ORACLE_NOISED"}
  BY StrategiesAre DEF Primary
<1>4. \A c \in Plan : Bounded(c) <=> c.strategy \in {"EVICTION_LRU", "CENSUS_EVICTION"}
  BY StrategiesAre DEF Bounded
<1>5. _attribution = "COMPLETE" => _crossovers = {} /\ _g12_4(passed) # "INCOMPLETE"
  <2> SUFFICES ASSUME \A p \in GridPairs :
                          /\ \A s \in {"BASELINE", "PRICED_SPILL", "DECODE_CAUSAL"} : Cell(p, s) \in results
                          /\ p \in binding => \A s \in {"EVICTION_LRU", "CENSUS_EVICTION"} :
                                                   Cell(p, s) \in results
               PROVE  _crossovers = {} /\ _g12_4(passed) # "INCOMPLETE"
    BY VerdictsLookFor
  <2> QED  BY <1>1, VerdictsLookFor
<1>6. _pareto = "COMPLETE" => _attribution = "COMPLETE"
  <2> SUFFICES ASSUME \A c \in Plan : Primary(c) => c \in results, NEW p \in GridPairs
               PROVE  /\ \A s \in {"BASELINE", "PRICED_SPILL", "DECODE_CAUSAL"} : Cell(p, s) \in results
                      /\ p \in binding => \A s \in {"EVICTION_LRU", "CENSUS_EVICTION"} :
                                               Cell(p, s) \in results
    BY VerdictsLookFor
  <2>1. ASSUME NEW s \in Strategies \ {"DECODE_NO_GATE", "DECODE_ORACLE", "DECODE_ORACLE_NOISED"},
               Cell(p, s) \in Plan
        PROVE  Cell(p, s) \in results
    BY <1>3, <2>1, CellsAreApart
  <2>2. \A s \in {"BASELINE", "PRICED_SPILL", "DECODE_CAUSAL"} : Cell(p, s) \in results
    BY <1>1, <2>1, PlannedAt DEF Strategies
  <2>3. p \in binding => \A s \in {"EVICTION_LRU", "CENSUS_EVICTION"} : Cell(p, s) \in results
    BY <1>1, <2>1, PlannedAt DEF Strategies
  <2> QED  BY <2>2, <2>3
<1>7. _g12_4(passed) = "PASS" => {c \in Plan : Bounded(c)} \subseteq results
  <2> SUFFICES ASSUME _g12_4(passed) = "PASS", NEW c \in Plan, Bounded(c)
               PROVE  c \in results
    OBVIOUS
  <2>1. \A p \in binding, s \in {"EVICTION_LRU", "CENSUS_EVICTION"} : Cell(p, s) \in results
    <3>1. _g12_4(passed) # "INCOMPLETE"
      OBVIOUS
    <3> QED  BY <3>1, VerdictsLookFor
  <2>2. c.strategy \in {"EVICTION_LRU", "CENSUS_EVICTION"}
    BY <1>4
  <2>3. Pair(c) \in binding
    BY <1>1, <2>2 DEF Planned
  <2> QED  BY <1>2, <2>1, <2>2, <2>3
<1>8. PICK q : q = <<Mixed, Overload>>
  OBVIOUS
<1>9. q \in GridPairs /\ q \in ToSet(OverloadPairs) /\ q[1] = Mixed
  BY <1>8, GridAssumption, OverloadPairsAre DEF GridPairs
<1>10. ASSUME failures = {}
       PROVE  /\ _pareto = "COMPLETE"
              /\ _g12_3(passed, TRUE) \in {"PASS", "NARROW_OVERLOAD_ONLY"}
  <2>1. results = Plan
    BY <1>1, <1>10
  <2>2. _pareto = "COMPLETE"
    BY <2>1, VerdictsLookFor
  <2>3. \A p \in ToSet(OverloadPairs) :
            /\ Cell(p, "DECODE_CAUSAL") \in results
            /\ \A s \in {"DECODE_NO_GATE", "DECODE_ORACLE", "DECODE_ORACLE_NOISED"} :
                   Cell(p, s) \in results
    BY <1>1, <2>1, OverloadPairsAre, PlannedAt
  <2>4. PressureCovered(TRUE)
    BY <1>9, <2>3 DEF PressureCovered
  <2>5. \A p \in ToSet(OverloadPairs) : ~DecodeGap(p)
    BY <2>3 DEF DecodeGap, Candidates
  <2> QED  BY <2>2, <2>4, <2>5 DEF _g12_3
<1>11. ASSUME _pareto = "COMPLETE", _g12_3(passed, TRUE) \in {"PASS", "NARROW_OVERLOAD_ONLY"}
       PROVE  failures = {}
  <2>1. \A c \in Plan : Primary(c) => c \in results
    BY <1>11, VerdictsLookFor
  <2>2. \A p \in ToSet(OverloadPairs) : ~DecodeGap(p)
    BY <1>11 DEF _g12_3
  <2>3. ASSUME NEW c \in Plan, ~Primary(c) PROVE c \in results
    <3>1. c.strategy \in {"DECODE_NO_GATE", "DECODE_ORACLE", "DECODE_ORACLE_NOISED"}
      BY <1>3, <2>3
    <3>2. c.scale = Overload
      BY <1>1, <3>1 DEF Planned
    <3>3. Pair(c) \in ToSet(OverloadPairs)
      BY <1>2, <3>2, OverloadPairsAre
    <3>4. Cell(Pair(c), c.strategy) \in results
      BY <2>2, <3>1, <3>3 DEF DecodeGap, Candidates
    <3> QED  BY <1>2, <3>4
  <2> QED  BY <1>1, <2>1, <2>3
<1> QED  BY <1>5, <1>6, <1>7, <1>10, <1>11

LEMMA ReturnIsTrue == ASSUME OutcomeInv PROVE ExitTellsTheTruth
<1>1. run \in 1..MaxRuns /\ Returned /\ Recorded
  BY DEF OutcomeInv, PubInv
<1>2. ASSUME exit = "ok"
      PROVE  /\ Valid(live, SuccessSet, run)
             /\ kind = "placement" => failures = {}
             /\ kind = "final" => phase = "success"
  <2>1. /\ step = "done"
        /\ kind = "placement" => failures = {}
        /\ kind = "final" => phase = "success"
    BY <1>1, <1>2 DEF Returned
  <2>2. CASE kind = "placement"
    BY <1>1, <2>1, <2>2 DEF Returned, Installing
  <2>3. CASE kind # "placement"
    <3>1. live = Stamped(SuccessSet, run)
      BY <1>1, <1>2, <2>1, <2>3 DEF Returned, Swapping, SetOfRun
    <3> QED  BY <1>1, <2>1, <2>3, <3>1, AbsentIsNoDirectory
  <2> QED  BY <2>1, <2>2, <2>3
<1>3. ASSUME exit = "aborted" PROVE live = Stamped(AbortSet, run) /\ cause # NoCell
  <2>1. step = "done" /\ kind = "final" /\ phase = "abort"
    BY <1>1, <1>3 DEF Returned
  <2>2. live = Stamped(AbortSet, run)
    BY <1>1, <2>1 DEF Returned, Swapping, SetOfRun
  <2>3. cause \in Planned(GridPairs)
    BY <1>1, <2>1 DEF Recorded
  <2> QED  BY <2>2, <2>3, NoCellIsNotPlanned
<1> QED  BY <1>2, <1>3 DEF ExitTellsTheTruth

\* For any regimes and scales, any outcomes of the cells and any number of
\* processes: a grid that is published accounts for each planned cell once, its
\* verdicts leave no gap unseen, and the exit code says what is in the live
\* directory.
THEOREM OutcomesAreTrue == Spec => []OutcomeTellsTheTruth
<1>1. OutcomeInv => OutcomeTellsTheTruth
  BY RecordAccounts, RecordShowsGaps, ReturnIsTrue DEF OutcomeInv, OutcomeTellsTheTruth
<1>2. QED
  BY <1>1, OutcomeInvariance, PTL
=============================================================================
