------------------------------ MODULE Campaign ------------------------------
(* The grid scripts as processes: each computes its grid, publishes what    *)
(* came out and ends with an exit code; the next one starts on the same     *)
(* results directory.  run_m12_final.py runs the grid of FinalGrid; of the  *)
(* other two scripts only whether a case failed matters here.               *)
EXTENDS ArtifactPublication, FinalGrid

VARIABLES
    exit     \* the exit code, by name, or "none"

campaignVars == <<pubVars, gridVars, exit>>

CampaignInit ==
    /\ PubInit /\ GridInit
    /\ exit = "none"

Compute == step = "compute" /\ kind = "final" /\ Grid /\ UNCHANGED <<pubVars, exit>>

\* run_artifacts publishes the success set, or the abort set and then raises.
PublishGrid ==
    /\ step = "compute" /\ kind = "final"
    /\ \/ phase = "success" /\ Stage(SuccessSet)
       \/ phase = "abort" /\ Stage(AbortSet)
    /\ UNCHANGED <<gridVars, exit>>

\* main's guard: a placement run is active, and the heavy run is deferred.
Defer ==
    /\ step = "compute" /\ kind = "final" /\ phase = "probe"
    /\ busy = Idle /\ queue = Probes
    /\ step' = "raised" /\ exit' = "deferred"
    /\ UNCHANGED <<kind, run, live, staging, backups, saved, todo, undone, durable>>
    /\ UNCHANGED gridVars

\* The grid ended in an exception, or building or staging the artifacts does.
ComputeRaises ==
    /\ step = "compute"
    /\ kind = "final" => phase \in {"raised", "success", "abort"}
    /\ Raise /\ exit' = "failed"
    /\ UNCHANGED <<live, backups>>
    /\ UNCHANGED gridVars

Killed ==
    /\ step = "compute" /\ phase = "killed" /\ Die
    /\ exit' = "killed" /\ UNCHANGED gridVars

\* run_m12_placement.py records failed cases, publishes, and raises after that;
\* run_m12_sizing.py has no failed cases to publish: the first one raises.
PublishCases ==
    /\ step = "compute" /\ kind # "final"
    /\ Stage(SuccessSet)
    /\ \/ failures' = failures
       \/ kind = "placement" /\ failures' = {kind}
    /\ UNCHANGED <<phase, queue, binding, results, busy, handler, pending, poller, strays,
                   aborted, cause, exit>>

\* Mutation: the placement script returns although cases failed.
PublicationForgiving ==
    /\ exit = "none" /\ Publish
    /\ exit' = IF step' = "raised" THEN "failed"
               ELSE IF step' # "done" THEN "none"
               ELSE IF kind = "final" /\ phase = "abort" THEN "aborted"
               ELSE "ok"
    /\ UNCHANGED gridVars

Publication ==
    /\ exit = "none" /\ Publish
    /\ exit' = IF step' = "raised" THEN "failed"
               ELSE IF step' # "done" THEN "none"
               ELSE IF kind = "final" /\ phase = "abort" THEN "aborted"
               ELSE IF kind = "placement" /\ failures # {} THEN "failed"
               ELSE "ok"
    /\ UNCHANGED gridVars

Crash == Die /\ exit' = "killed" /\ UNCHANGED gridVars

Restart ==
    /\ NewProcess
    /\ exit' = "none"
    /\ phase' = "probe" /\ queue' = Probes
    /\ binding' = {} /\ results' = {} /\ failures' = {}
    /\ busy' = Idle /\ handler' = NoHandler /\ pending' = FALSE
    /\ poller' = "gone" /\ strays' = {}
    /\ aborted' = NoCell /\ cause' = NoCell

Stopped == step \in Ended /\ run = MaxRuns /\ UNCHANGED campaignVars

CampaignNext ==
    \/ Compute \/ PublishGrid \/ PublishCases \/ Defer \/ ComputeRaises \/ Killed
    \/ Publication \/ Crash \/ Restart \/ Stopped

-----------------------------------------------------------------------------
\* Every planned cell of a published grid has a result or a row in failures,
\* and never both (run_artifacts, config.json's cell counts).
EveryCellAccounted ==
    phase = "success" => /\ results \union failures = Plan
                         /\ results \intersect failures = {}
                         /\ results # {}

\* A grid in which a watchdog saw the hard limit is not published as finished,
\* whenever the sample fell, as long as every thread ended within its join.
LimitStopsTheGrid == phase = "success" /\ strays = {} => aborted = NoCell

\* The abort's failure row and the watchdog's diagnostic name the same cell.
AbortNamesItsCell ==
    phase = "abort" /\ strays = {} => /\ cause = aborted
                                      /\ cause \in failures

\* The default action of the signal never ends the process, on the same terms.
WatchdogSparesTheProcess == phase = "killed" => strays # {}

\* A grid stops at its memory limit, in order, and says where.
GridStopsAtItsLimit ==
    LimitStopsTheGrid /\ AbortNamesItsCell /\ WatchdogSparesTheProcess

\* A cell that failed shows in the verdicts: none of them is complete over a
\* gap it should have seen, and without a gap none is incomplete.
VerdictsShowEveryGap ==
    phase = "success" =>
        \A passed \in BOOLEAN :
            /\ failures = {} <=> /\ _pareto = "COMPLETE"
                                 /\ _g12_3(passed, TRUE) \in {"PASS", "NARROW_OVERLOAD_ONLY"}
            /\ _attribution = "COMPLETE" => _crossovers = {} /\ _g12_4(passed) # "INCOMPLETE"
            /\ _pareto = "COMPLETE" => _attribution = "COMPLETE"
            /\ _g12_4(passed) = "PASS" => {c \in Plan : Bounded(c)} \subseteq results

\* The exit code says what is in the live directory: 0 the whole set of this
\* run, without failed cases where these make the script fail; 3 its abort set.
ExitTellsTheTruth ==
    /\ exit = "ok" => /\ Valid(live, SuccessSet, run)
                      /\ kind = "placement" => failures = {}
                      /\ kind = "final" => phase = "success"
    /\ exit = "aborted" => live = Stamped(AbortSet, run) /\ cause # NoCell

\* What a grid publishes and returns accounts for every cell it was to run.
OutcomeTellsTheTruth ==
    EveryCellAccounted /\ VerdictsShowEveryGap /\ ExitTellsTheTruth
=============================================================================
