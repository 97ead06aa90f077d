----------------------------- MODULE FinalGrid -----------------------------
(* The grid of run_m12_final.py: the binding probes, the planned cells, the *)
(* visibility audit, the watchdog that guards every cell execution from a   *)
(* thread and a signal, and the verdicts over what came out.                *)
(*                                                                          *)
(* What a cell computes is left to the executor: it returns, or raises a    *)
(* ValueError or RuntimeError (a mismatched identity is one of these).  Of  *)
(* the watchdog's samples only "over the hard limit" and "cannot be read"   *)
(* matter.  A signal is handled by the main thread before its next step.    *)
EXTENDS Naturals, Sequences, FiniteSets, SequencesExt

CONSTANTS
    Regimes,          \* SERVICE_REGIMES, a sequence
    Scales,           \* ARRIVAL_SCALES, a sequence
    Overload,         \* the scale 1.5
    Mixed,            \* the regime whose causal cell must show retry pressure
    NoCell,           \* no cell
    MaxFailures,      \* bound: cells whose executor raises
    MaxJoinTimeouts   \* bound: watchdog threads that outlive their join

\* The two tables name each regime and each scale once.
ASSUME GridAssumption ==
    /\ Regimes \in Seq(ToSet(Regimes)) /\ IsInjective(Regimes)
    /\ Scales \in Seq(ToSet(Scales)) /\ IsInjective(Scales)
    /\ Mixed \in ToSet(Regimes) /\ Overload \in ToSet(Scales)

VARIABLES
    phase,      \* "probe", "grid", "audit", and how the grid ended
    queue,      \* what the phase has still to execute
    binding,    \* the (regime, scale) pairs bound by capacity
    results,    \* cells with a result
    failures,   \* cells with a row in failures
    busy,       \* the guarded execution: its cell, its stage and its outcome
    handler,    \* the watchdog's interrupt handler, and the cell it names
    pending,    \* a signal has arrived and its handler has not run
    poller,     \* the watchdog thread of this execution
    strays,     \* threads that outlived their join: the cell and the state
    aborted,    \* diagnostic["aborted_cell_id"]
    cause       \* the cell of the _RssHardLimitExceeded that ended the grid

gridVars == <<phase, queue, binding, results, failures, busy, handler, pending,
              poller, strays, aborted, cause>>

PRIMARY_STRATEGIES == <<"BASELINE", "PRICED_SPILL", "DECODE_CAUSAL">>
EVICTION_STRATEGIES == <<"EVICTION_LRU", "CENSUS_EVICTION">>
SENSITIVITY_STRATEGIES == <<"DECODE_NO_GATE", "DECODE_ORACLE", "DECODE_ORACLE_NOISED">>

Cell(pair, strategy) == [regime |-> pair[1], scale |-> pair[2], strategy |-> strategy]
Bounded(cell) == cell.strategy \in ToSet(EVICTION_STRATEGIES)
Primary(cell) == cell.strategy \notin ToSet(SENSITIVITY_STRATEGIES)

\* Every pair that is chosen with every strategy, in this order.
Row(pair, strategies) == [j \in DOMAIN strategies |-> Cell(pair, strategies[j])]
Cross(pairs, chosen, strategies) ==
    FlattenSeq([i \in DOMAIN pairs |->
                   IF pairs[i] \in chosen THEN Row(pairs[i], strategies) ELSE <<>>])
AllPairs == FlattenSeq([i \in DOMAIN Regimes |->
                           [j \in DOMAIN Scales |-> <<Regimes[i], Scales[j]>>]])
OverloadPairs == [i \in DOMAIN Regimes |-> <<Regimes[i], Overload>>]

build_cell_plan(bound) ==
    Cross(AllPairs, ToSet(AllPairs), PRIMARY_STRATEGIES)
    \o Cross(AllPairs, bound, EVICTION_STRATEGIES)
    \o Cross(OverloadPairs, ToSet(OverloadPairs), SENSITIVITY_STRATEGIES)
Probes == Cross(AllPairs, ToSet(AllPairs), <<"EVICTION_LRU">>)

ASSUME NoCellAssumption ==      \* it is none of them
    NoCell \notin ToSet(build_cell_plan(ToSet(AllPairs))) \cup ToSet(Probes)

Pair(cell) == <<cell.regime, cell.scale>>
Cached(cell) == cell.strategy = "EVICTION_LRU" /\ Pair(cell) \in binding
Idle == [cell |-> NoCell, stage |-> "idle", outcome |-> "none"]
NoHandler == [installed |-> FALSE, cell |-> NoCell]
HandlerOf(cell) == [installed |-> TRUE, cell |-> cell]
Working == {"probe", "grid", "audit"}
Running == phase \in Working /\ ~pending
-----------------------------------------------------------------------------
GridInit ==
    /\ phase = "probe" /\ queue = Probes
    /\ binding = {} /\ results = {} /\ failures = {}
    /\ busy = Idle /\ handler = NoHandler /\ pending = FALSE
    /\ poller = "gone" /\ strays = {}
    /\ aborted = NoCell /\ cause = NoCell

\* _RssWatchdog.__enter__ installs the handler and starts the thread.
Enter ==
    /\ Running /\ busy = Idle /\ queue # <<>>
    /\ ~(phase = "grid" /\ Cached(Head(queue)))
    /\ busy' = [cell |-> Head(queue), stage |-> "run", outcome |-> "none"]
    /\ handler' = HandlerOf(Head(queue)) /\ poller' = "live"
    /\ UNCHANGED <<phase, queue, binding, results, failures, pending, strays, aborted, cause>>

\* A binding probe's result is reused for its cell of the plan.
TakeCached ==
    /\ Running /\ phase = "grid" /\ busy = Idle /\ queue # <<>>
    /\ Cached(Head(queue))
    /\ results' = results \union {Head(queue)} /\ queue' = Tail(queue)
    /\ UNCHANGED <<phase, binding, failures, busy, handler, pending, poller, strays, aborted, cause>>

\* Mutation: __exit__ puts the old handler back before it joins the thread.
FinishRestoring ==
    /\ Running /\ busy.stage = "run"
    /\ busy' = [busy EXCEPT !.stage = "exit", !.outcome = "ok"]
    /\ handler' = NoHandler
    /\ UNCHANGED <<phase, queue, binding, results, failures, pending, poller, strays, aborted,
                   cause>>

\* The executor returns or raises; __exit__ sets the stop event.
Finish ==
    /\ Running /\ busy.stage = "run"
    /\ \E outcome \in {"ok", "error"} :
          /\ outcome = "error" /\ phase = "grid" => Cardinality(failures) < MaxFailures
          /\ busy' = [busy EXCEPT !.stage = "exit", !.outcome = outcome]
    /\ UNCHANGED <<phase, queue, binding, results, failures, handler, pending, poller, strays,
                   aborted, cause>>

\* What run_artifacts makes of the end of an execution.
Settle(outcome) ==
    LET cell == busy.cell IN
    /\ busy' = Idle /\ handler' = NoHandler
    /\ queue' = Tail(queue)
    /\ \/ /\ outcome = "ok"
          /\ results' = IF phase = "grid" THEN results \union {cell} ELSE results
          /\ \/ phase = "probe" /\ binding' = binding \union {Pair(cell)}
             \/ binding' = binding
          /\ UNCHANGED <<phase, failures, cause>>
       \/ /\ outcome = "error" /\ phase = "grid"
          /\ failures' = failures \union {cell}
          /\ UNCHANGED <<phase, binding, results, cause>>
       \/ /\ outcome = "error" /\ phase # "grid"      \* nothing catches it
          /\ phase' = "raised"
          /\ UNCHANGED <<binding, results, failures, cause>>
       \/ /\ outcome = "abort"
          /\ failures' = failures \union {cell}
          /\ cause' = handler.cell /\ phase' = "abort"      \* the handler's closure names it
          /\ UNCHANGED <<binding, results>>

\* __exit__ joins the thread and puts the old handler back.
Exit ==
    /\ Running /\ busy.stage = "exit" /\ poller = "gone"
    /\ Settle(busy.outcome)
    /\ poller' = "gone"
    /\ UNCHANGED <<pending, strays, aborted>>

\* The thread is still alive: a RuntimeError takes the outcome's place.
JoinTimesOut ==
    /\ Running /\ busy.stage = "exit" /\ poller # "gone"
    /\ Cardinality(strays) < MaxJoinTimeouts
    /\ strays' = strays \union {[cell |-> busy.cell, state |-> poller]}
    /\ poller' = "gone"
    /\ Settle("error")
    /\ UNCHANGED <<pending, aborted>>

\* The handler runs: in the body it ends the execution, in __exit__ the join.
Interrupt ==
    /\ pending /\ pending' = FALSE
    /\ \/ /\ busy.stage = "run"
          /\ busy' = [busy EXCEPT !.stage = "exit", !.outcome = "abort"]
          /\ UNCHANGED <<phase, queue, binding, results, failures, handler, poller, strays, cause>>
       \/ /\ busy.stage = "exit"
          /\ strays' = IF poller = "gone" THEN strays
                       ELSE strays \union {[cell |-> busy.cell, state |-> poller]}
          /\ poller' = "gone"
          /\ Settle("abort")
    /\ UNCHANGED aborted

\* _visibility_delay_audit runs the primary cells that have a result again.
Audited(plan) ==
    FlattenSeq([i \in DOMAIN plan |->
                   IF plan[i] \in results /\ Primary(plan[i]) THEN <<plan[i]>> ELSE <<>>])

NextPhase ==
    /\ Running /\ busy = Idle /\ queue = <<>>
    /\ \/ phase = "probe" /\ phase' = "grid" /\ queue' = build_cell_plan(binding)
       \/ phase = "grid" /\ results = {} /\ phase' = "raised" /\ queue' = queue
       \/ /\ phase = "grid" /\ results # {} /\ phase' = "audit"
          /\ queue' = Audited(build_cell_plan(binding))
       \/ phase = "audit" /\ phase' = "success" /\ queue' = queue
    /\ UNCHANGED <<binding, results, failures, busy, handler, pending, poller, strays,
                   aborted, cause>>

\* The thread samples the memory until it is told to stop, cannot read it, or
\* finds it over the hard limit: then it records its cell and sends the signal.
Signal ==
    IF ~handler.installed
    THEN phase' = "killed" /\ pending' = pending    \* the default action of SIGUSR1
    ELSE pending' = TRUE /\ phase' = phase

Trip ==
    /\ phase \in Working /\ poller = "live"
    /\ poller' = "tripped" /\ aborted' = busy.cell
    /\ UNCHANGED <<phase, queue, binding, results, failures, busy, handler, pending, strays, cause>>

Kill ==
    /\ phase \in Working /\ poller = "tripped"
    /\ Signal /\ poller' = "gone"
    /\ UNCHANGED <<queue, binding, results, failures, busy, handler, strays, aborted, cause>>

\* It sees the stop event, or its reader fails and it gives up watching.
Quit ==
    /\ phase \in Working /\ poller = "live"
    /\ poller' = "gone"
    /\ UNCHANGED <<phase, queue, binding, results, failures, busy, handler, pending, strays,
                   aborted, cause>>

StrayTrip ==
    /\ phase \in Working
    /\ \E s \in strays :
          /\ s.state = "live"
          /\ strays' = (strays \ {s}) \union {[s EXCEPT !.state = "tripped"]}
          /\ aborted' = s.cell
    /\ UNCHANGED <<phase, queue, binding, results, failures, busy, handler, pending, poller, cause>>

StrayEnds ==
    /\ phase \in Working
    /\ \E s \in strays :
          /\ s.state # "gone"
          /\ strays' = (strays \ {s}) \union {[s EXCEPT !.state = "gone"]}
          /\ IF s.state = "tripped" THEN Signal ELSE UNCHANGED <<phase, pending>>
    /\ UNCHANGED <<queue, binding, results, failures, busy, handler, poller, aborted, cause>>

Grid ==
    \/ Enter \/ TakeCached \/ Finish \/ Exit \/ JoinTimesOut \/ Interrupt \/ NextPhase
    \/ Trip \/ Kill \/ Quit \/ StrayTrip \/ StrayEnds
-----------------------------------------------------------------------------
(* The verdicts of a finished grid.  The plan is rebuilt from the binding   *)
(* pairs; "passed" and "pressure" stand for what the reports of the cells   *)
(* say.                                                                     *)
Plan == ToSet(build_cell_plan(binding))

\* _pareto: a group is one pair, with or without bounded caches.
ParetoMissing(pair, bounded) ==
    {c \in Plan : Primary(c) /\ Pair(c) = pair /\ Bounded(c) = bounded} \ results
_pareto ==
    IF \E pair \in ToSet(AllPairs), bounded \in BOOLEAN : ParetoMissing(pair, bounded) # {}
    THEN "INCOMPLETE" ELSE "COMPLETE"

\* _attribution: three single switches per pair, the last where it is planned.
Switches == {<<"BASELINE", "PRICED_SPILL">>, <<"PRICED_SPILL", "DECODE_CAUSAL">>,
             <<"EVICTION_LRU", "CENSUS_EVICTION">>}
_attribution ==
    IF \E pair \in ToSet(AllPairs), switch \in Switches :
          /\ ~({Cell(pair, switch[1]), Cell(pair, switch[2])} \subseteq results)
          /\ switch = <<"EVICTION_LRU", "CENSUS_EVICTION">> =>
                \E c \in Plan : Pair(c) = pair /\ Bounded(c)
    THEN "INCOMPLETE" ELSE "COMPLETE"

\* _crossovers: a pair with a missing strategy gets a row of its own.
_crossovers ==
    {pair \in ToSet(AllPairs) :
        \E i \in DOMAIN PRIMARY_STRATEGIES : Cell(pair, PRIMARY_STRATEGIES[i]) \notin results}

\* _g12_3: the decode strategies against the one without a gate, at overload.
Candidates == {"DECODE_CAUSAL", "DECODE_ORACLE", "DECODE_ORACLE_NOISED"}
DecodeGap(pair) ==
    \E s \in Candidates \union {"DECODE_NO_GATE"} : Cell(pair, s) \notin results
PressureCovered(pressure) ==      \* read off the causal row of the mixed regime
    /\ pressure
    /\ \E pair \in ToSet(OverloadPairs) :
          /\ pair[1] = Mixed
          /\ {Cell(pair, "DECODE_NO_GATE"), Cell(pair, "DECODE_CAUSAL")} \subseteq results
_g12_3(passed, pressure) ==
    IF ~PressureCovered(pressure) THEN "INCOMPLETE_RETRY_PRESSURE"
    ELSE IF \E pair \in ToSet(OverloadPairs) : DecodeGap(pair) THEN "INCOMPLETE"
    ELSE IF passed THEN "PASS" ELSE "NARROW_OVERLOAD_ONLY"

\* _g12_4: the census against LRU for every binding pair.
_g12_4(passed) ==
    IF \E pair \in binding, i \in DOMAIN EVICTION_STRATEGIES :
          Cell(pair, EVICTION_STRATEGIES[i]) \notin results
    THEN "INCOMPLETE"
    ELSE IF binding # {} /\ passed THEN "PASS" ELSE "KILL_OR_NARROW"
=============================================================================
