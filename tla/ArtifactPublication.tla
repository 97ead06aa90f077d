------------------------ MODULE ArtifactPublication ------------------------
(* How a grid script puts the artifacts of one run into its results         *)
(* directory.  Three scripts publish in three ways:                         *)
(*   "final"      run_m12_final.py (and repair_m12_final.py through it):    *)
(*                stage, make an empty directory to have a fresh name for   *)
(*                the backup, remove it, move the live directory there,     *)
(*                rename the staging directory into place, drop the backup; *)
(*   "sizing"     run_m12_sizing.py: the same with one fixed backup name;   *)
(*   "placement"  run_m12_placement.py: replace the files one by one in the *)
(*                live directory, the manifest last.                        *)
(* A directory is a function from the names it holds to the run that wrote  *)
(* each of them.  A process may fail in any call that touches the disk, be  *)
(* interrupted right after a rename, or die anywhere; the next process      *)
(* finds what it left.  Staging directories have fresh names and no reader, *)
(* so only the one in use is kept; nor is an empty directory that an        *)
(* interrupt leaves before the process has its name.                        *)
EXTENDS Naturals, Sequences

CONSTANTS
    Absent,     \* the value of a directory that does not exist
    MaxRuns     \* bound: processes started one after another

ASSUME MaxRunsAssumption == MaxRuns \in Nat \ {0}

VARIABLES
    kind,         \* the script that publishes into this directory
    run,          \* the process that runs now, or ran last
    step,         \* where it is
    live,         \* the results directory
    staging,      \* its staging directory
    backups,      \* the backup directories left on disk, by name
    saved,        \* it has a name for a backup of its own
    todo,         \* names a placement run has still to replace
    undone,       \* why a rollback ran over a live set, since the last one was durable
    durable       \* the last run whose publication was past its commit point

pubVars == <<kind, run, step, live, staging, backups, saved, todo, undone, durable>>

Kinds == {"final", "sizing", "placement"}
Steps == {"compute", "swap", "reserved", "cleared", "moved", "committed", "rollback",
          "cleaning", "install", "done", "raised", "dead"}
Reasons == {"placeholder", "interrupt"}
Ended == {"done", "raised", "dead"}

SuccessSet == <<"failures", "results", "MANIFEST">>         \* in write order
AbortSet == <<"ABORTED", "failures", "ABORT_MANIFEST">>
Manifests == {"MANIFEST", "ABORT_MANIFEST"}
Names(set) == {set[i] : i \in DOMAIN set}

Stamped(set, r) == [n \in Names(set) |-> r]

\* What a manifest says of its directory: these files, with these digests.
Valid(d, set, r) == d # Absent /\ \A n \in Names(set) : n \in DOMAIN d /\ d[n] = r
WholeOf(d, r) == \E set \in {SuccessSet, AbortSet} : d = Stamped(set, r)
FullSet(d) == \E r \in 1..run : WholeOf(d, r)

ASSUME AbsentAssumption ==      \* it is no directory
    \A held \in SUBSET (Names(SuccessSet) \cup Names(AbortSet)) :
        Absent \notin [held -> 1..MaxRuns]

Without(d, n) == [m \in DOMAIN d \ {n} |-> d[m]]
With(d, n, x) == [m \in DOMAIN d \cup {n} |-> IF m = n THEN x ELSE d[m]]
BackupName == IF kind = "final" THEN run ELSE 0
NoBackup == [b \in {} |-> Absent]
EmptyDirectory == [n \in {} |-> 0]
-----------------------------------------------------------------------------
PubInit ==
    /\ kind \in Kinds
    /\ run = 1 /\ step = "compute"
    /\ live = Absent /\ staging = Absent
    /\ backups = NoBackup
    /\ saved = FALSE /\ undone = {}
    /\ todo = <<>>
    /\ durable = 0

\* The process ends with an exception; its staging directory goes on the way.
Raise ==
    /\ step' = "raised"
    /\ staging' = Absent
    /\ UNCHANGED <<kind, run, saved, todo, undone, durable>>

\* Every payload is written to the staging directory, the manifest last.
Stage(set) ==
    /\ staging' = Stamped(set, run)
    /\ todo' = set
    /\ step' = IF kind = "placement" THEN "install" ELSE "swap"
    /\ live' = IF kind = "placement" /\ live = Absent THEN EmptyDirectory ELSE live
    /\ UNCHANGED <<kind, run, backups, saved, undone, durable>>

\* The final script's backup takes its fresh name from an empty directory ...
Reserve ==
    /\ step = "swap" /\ kind = "final" /\ live # Absent
    /\ BackupName \notin DOMAIN backups       \* mkdtemp takes a name nobody has
    /\ backups' = With(backups, BackupName, EmptyDirectory) /\ saved' = TRUE
    /\ step' = "reserved"
    /\ UNCHANGED <<kind, run, live, staging, todo, undone, durable>>

\* ... which has to go before the live directory can take its place.
RemovePlaceholder ==
    /\ step = "reserved"
    /\ backups' = Without(backups, BackupName)
    /\ step' = "cleared"
    /\ UNCHANGED <<kind, run, live, staging, saved, todo, undone, durable>>

\* If it does not, or an interrupt comes first, the handler finds a backup that
\* exists and takes the placeholder for what was live.
PlaceholderStays ==
    /\ step = "reserved"
    /\ step' = "rollback" /\ undone' = undone \cup {"placeholder"}
    /\ UNCHANGED <<kind, run, live, staging, backups, saved, todo, durable>>

Movable ==
    \/ step = "cleared"
    \/ step = "swap" /\ kind = "sizing" /\ BackupName \notin DOMAIN backups

\* Mutation: the live directory is removed to make room, with no backup.
MoveAwayForGood ==
    /\ Movable /\ live # Absent
    /\ live' = Absent /\ step' = "moved"
    /\ UNCHANGED <<kind, run, staging, backups, saved, todo, undone, durable>>

MoveAway ==
    /\ Movable /\ live # Absent
    /\ backups' = With(backups, BackupName, live)
    /\ live' = Absent /\ saved' = TRUE
    /\ step' = "moved"
    /\ UNCHANGED <<kind, run, staging, todo, undone, durable>>

NothingToMove ==
    /\ step = "swap" /\ live = Absent
    /\ step' = "moved"
    /\ UNCHANGED <<kind, run, live, staging, backups, saved, todo, undone, durable>>

\* There is no name, or no rename: the sizing script finds a stale backup, say.
MoveFails ==
    /\ step = "swap" /\ live # Absent
    /\ Raise /\ UNCHANGED <<live, backups>>

\* The final script's first rename fails inside the try.
RenameFails ==
    /\ step = "cleared"
    /\ step' = "rollback"
    /\ UNCHANGED <<kind, run, live, staging, backups, saved, todo, undone, durable>>

\* The second rename is the commit point.
Commit ==
    /\ step = "moved"
    /\ live' = staging /\ staging' = Absent
    /\ step' = "committed"
    /\ UNCHANGED <<kind, run, backups, saved, todo, undone, durable>>

CommitFails ==
    /\ step = "moved"
    /\ step' = "rollback"
    /\ UNCHANGED <<kind, run, live, staging, backups, saved, todo, undone, durable>>

\* An interrupt is delivered after the rename, still inside its try.
CommitInterrupted ==
    /\ step = "committed"
    /\ step' = "rollback" /\ undone' = undone \cup {"interrupt"}
    /\ UNCHANGED <<kind, run, live, staging, backups, saved, todo, durable>>

LeaveTry ==
    /\ step = "committed"
    /\ durable' = run /\ undone' = {}
    /\ step' = IF saved THEN "cleaning" ELSE "done"
    /\ UNCHANGED <<kind, run, live, staging, backups, saved, todo>>

\* The handler asks whether there is a backup, not whether anything was moved.
HasBackup == saved /\ BackupName \in DOMAIN backups

\* The final script empties a live directory it finds in its way, file by file.
ClearLive ==
    /\ step = "rollback" /\ kind = "final" /\ HasBackup
    /\ live # Absent
    /\ IF DOMAIN live = {} THEN live' = Absent
       ELSE \E n \in DOMAIN live : live' = Without(live, n)
    /\ UNCHANGED <<kind, run, step, staging, backups, saved, todo, undone, durable>>

RollBack ==
    /\ step = "rollback"
    /\ Raise
    /\ IF HasBackup /\ live = Absent
       THEN /\ live' = backups[BackupName]
            /\ backups' = Without(backups, BackupName)
       ELSE /\ ~HasBackup \/ kind = "sizing"     \* nothing to restore, or not over a directory
            /\ UNCHANGED <<live, backups>>

RollBackFails == step = "rollback" /\ HasBackup /\ Raise /\ UNCHANGED <<live, backups>>

\* The backup is removed file by file.
RemoveBackup ==
    /\ step = "cleaning"
    /\ LET left == backups[BackupName]
       IN  IF DOMAIN left = {}
           THEN /\ backups' = Without(backups, BackupName)
                /\ step' = "done"
           ELSE /\ \E n \in DOMAIN left :
                       backups' = [backups EXCEPT ![BackupName] = Without(left, n)]
                /\ step' = step
    /\ UNCHANGED <<kind, run, live, staging, saved, todo, undone, durable>>

\* The final script tries once more, ignoring errors; neither rolls back.
CleanupFails ==
    /\ step = "cleaning"
    /\ Raise /\ UNCHANGED live
    /\ \/ backups' = backups
       \/ kind = "final" /\ backups' = Without(backups, BackupName)

\* Placement: each file replaces the one that is there.
Install ==
    /\ step = "install"
    /\ live' = With(live, Head(todo), staging[Head(todo)])
    /\ todo' = Tail(todo)
    /\ step' = IF Tail(todo) = <<>> THEN "done" ELSE step
    /\ durable' = IF Tail(todo) = <<>> THEN run ELSE durable
    /\ UNCHANGED <<kind, run, staging, backups, saved, undone>>

InstallFails == step = "install" /\ Raise /\ UNCHANGED <<live, backups>>

Die ==
    /\ step \notin Ended
    /\ step' = "dead"
    /\ UNCHANGED <<kind, run, live, staging, backups, saved, todo, undone, durable>>

\* Another process is started on what this one left.
NewProcess ==
    /\ step \in Ended /\ run < MaxRuns
    /\ run' = run + 1
    /\ step' = "compute" /\ saved' = FALSE
    /\ staging' = Absent /\ todo' = <<>>
    /\ UNCHANGED <<kind, live, backups, undone, durable>>

Publish ==
    \/ Reserve \/ RemovePlaceholder \/ PlaceholderStays
    \/ MoveAway \/ NothingToMove \/ MoveFails \/ RenameFails
    \/ Commit \/ CommitFails \/ CommitInterrupted \/ LeaveTry
    \/ ClearLive \/ RollBack \/ RollBackFails
    \/ RemoveBackup \/ CleanupFails
    \/ Install \/ InstallFails
-----------------------------------------------------------------------------
\* A reader of the live directory sees no directory or the whole set of one
\* run, whatever failed or died, unless a process took back its own commit or a
\* set it had not moved away, and none has published since (_write_atomic,
\* publish).  Placement promises less.
LiveIsWhole ==
    kind # "placement" /\ undone = {} => live = Absent \/ FullSet(live)

\* A complete set of the last run that committed, or a later one, is in the live
\* directory or in a backup.
LastSetIsKept ==
    \E r \in durable..run : \/ WholeOf(live, r)
                            \/ \E b \in DOMAIN backups : WholeOf(backups[b], r)

\* A publication past its commit point is never lost, also after a crash between
\* the two renames, an interrupt or a failed removal of the backup, unless a
\* placeholder could not be removed (see FailureRestores).
CommittedSurvives ==
    kind # "placement" /\ durable > 0 /\ "placeholder" \notin undone => LastSetIsKept

\* No reader sees half a set, and no finished set is lost.
PublicationIsSafe == LiveIsWhole /\ CommittedSurvives

\* What the tests of _write_atomic say of a failed swap: it "restores old tree"
\* (test_run_m12_final.py 384-408).  It does not where the call that fails is the
\* removal of the placeholder: the old tree is deleted and the placeholder put
\* in its place.
FailureRestores == kind = "final" /\ durable > 0 => LastSetIsKept
=============================================================================
