------------------------------- MODULE Sizing -------------------------------
(* The M12 sizing study: run_m12_sizing.py runs one cell per topology and   *)
(* number of prefill nodes, in a pool of workers, and m12_sizing.py selects *)
(* the smallest number that passes every gate, with the evidence that one   *)
(* node less does not.  What the attempts of a cell come to is a choice:    *)
(* the kernel that runs them is modelled elsewhere.                         *)
EXTENDS AttemptMetrics

CONSTANTS
    CountSets,       \* --p-counts: sets of numbers of prefill nodes
    Limits,          \* --limit: the cells of the plan that are run
    Jobs,            \* --jobs
    CellRuns,        \* what a run of each topology may come to: attempts, queue, KVS load
    BaselineGates, StrictGates,    \* SizingGates
    Floors,          \* TIER_FLOOR_SENSITIVITY, rising
    Multipliers      \* DEADLINE_MULTIPLIERS, in quarters

\* SizingTopology, in the order of its values.
Topologies == <<"LOCAL_ONLY", "SHARED_KVS", "ZERO_TRANSFER_PRICE_CONTROL">>
Deployable == {"LOCAL_ONLY", "SHARED_KVS"}
Rank(topology) == CHOOSE k \in DOMAIN Topologies : Topologies[k] = topology

\* Fractions, which are never of nothing.
Fraction == Nat \X (Nat \ {0})

Gates == [completion : Fraction, tier : Fraction, fairness : Fraction, queue : Nat, kvs : Nat]

ASSUME SizingAssumption ==
    /\ Workload \in Seq([tenant : STRING, tier : STRING, arrival : Int, tokens : Nat]) \ {<<>>}
    /\ TierSlo \in [Tiers -> Int]
    /\ \A counts \in CountSets : counts \subseteq Nat \ {0} /\ IsFiniteSet(counts)
    /\ Limits \subseteq Nat \ {0} /\ Jobs \subseteq Nat \ {0}
    /\ \A topology \in ToSet(Topologies) : \A run \in CellRuns[topology] :
          \A a \in run.attempts :
              a.request \in Requests /\ (a.terminal = "COMPLETED" => a.finish \in Int)
    /\ {BaselineGates, StrictGates} \subseteq Gates
    /\ Floors \in Seq(Fraction)
    /\ \A k \in 1..Len(Floors) : \A j \in 1..k : ~Below(Floors[k], Floors[j])

VARIABLES
    plan,        \* the cells still to be run, in the order of submission
    jobs,        \* max_workers
    cells,       \* the records, in the order in which the workers finished
    outcome,     \* running, or how the script ended
    verdict      \* the published verdicts

sizingVars == <<plan, jobs, cells, outcome, verdict>>

\* build_plan: every topology, and for each its counts in rising order.
Plan(counts) ==
    LET rising == [k \in 1..Cardinality(counts) |->
                      CHOOSE n \in counts : Cardinality({m \in counts : m < n}) = k - 1]
    IN  FlattenSeq([t \in 1..Len(Topologies) |->
            [k \in 1..Len(rising) |-> [topology |-> Topologies[t], p |-> rising[k]]]])

\* What --limit leaves of a plan.
Limited(counts, limit) == SubSeq(Plan(counts), 1, Min({limit, Len(Plan(counts))}))

SizingPlans == {Limited(counts, limit) : counts \in CountSets, limit \in Limits}

SizingInit ==
    /\ plan \in SizingPlans
    /\ jobs \in Jobs
    /\ cells = <<>>
    /\ outcome = "running"
    /\ verdict = <<>>

-----------------------------------------------------------------------------
\* evaluate_gates: three floors and two ceilings; equality passes.
FailedGates(o, gates) ==
    {g \in {"completion", "tier", "fairness"} : Below(o[g], gates[g])}
    \cup {g \in {"queue", "kvs"} : o[g] > gates[g]}

Feasible(cell, gates) == FailedGates(cell.observation, gates) = {}

\* run_sizing_cell: a cell of the plan with the gate observation and the ledger of a run.
Measured(cell, run) ==
    [topology |-> cell.topology, p |-> cell.p,
     observation |->
        [completion |-> <<Cardinality(CompletedRequests(run.attempts)), Len(Workload)>>,
         tier       |-> MinimumTier(StrictWinners(run.attempts)),
         fairness   |-> Jain(StrictWinners(run.attempts)),
         queue      |-> run.queue,
         kvs        |-> run.kvs],
     ledger |-> Ledger(run.attempts)]

\* A worker finishes one of the first cells of the plan.
FinishCell ==
    /\ outcome = "running"
    /\ \E i \in 1..Min({jobs, Len(plan)}) : \E run \in CellRuns[plan[i].topology] :
          /\ cells' = Append(cells, Measured(plan[i], run))
          /\ plan' = RemoveAt(plan, i)
    /\ UNCHANGED <<jobs, outcome, verdict>>

\* A worker raises: the others finish, and the script ends with the exception.
CellRaises ==
    /\ outcome = "running" /\ plan # <<>>
    /\ outcome' = "raised"
    /\ UNCHANGED <<plan, jobs, cells, verdict>>

-----------------------------------------------------------------------------
\* select_minimum.

\* The order of the cells: by nodes, then by topology.
Ahead(a, b) == a.p < b.p \/ (a.p = b.p /\ Rank(a.topology) < Rank(b.topology))

\* Variant: the cells are taken as the workers finished them.
FirstToFinish(run, some) == Min(some)

FirstInOrder(run, some) == CHOOSE i \in some : \A j \in some : ~Ahead(run[j], run[i])

NoMinimum == [p |-> 0, topology |-> "none", certificates |-> {}]

\* _certificate: a cell with one node less, and what it failed.
Certificate(cell, gates) ==
    [p |-> cell.p, topology |-> cell.topology,
     failed |-> FailedGates(cell.observation, gates)]

\* The first feasible cell of the required topologies.  Unless it has one node,
\* each of them must have been run with one node less, and failed.  Cells are
\* named by their places in the run.
SelectMinimum(run, gates, required) ==
    LET candidates == {i \in DOMAIN run : run[i].topology \in required}
        feasible   == {i \in candidates : Feasible(run[i], gates)}
        winner     == run[FirstInOrder(run, feasible)]
        predecessors == {i \in candidates : run[i].p = winner.p - 1}
    IN  IF \/ {run[i].topology : i \in candidates} # required
           \/ feasible = {}
           \/ /\ winner.p > 1
              /\ \/ Cardinality(predecessors) # Cardinality(required)
                 \/ predecessors \cap feasible # {}
        THEN NoMinimum
        ELSE [p |-> winner.p, topology |-> winner.topology,
              certificates |-> {Certificate(run[i], gates) : i \in predecessors}]

\* _topology_verdicts: each topology on its own, the control included, and the
\* winner among those that can be deployed.
TopologyVerdicts(run, gates) ==
    [alone  |-> [t \in ToSet(Topologies) |-> SelectMinimum(run, gates, {t})],
     winner |-> SelectMinimum(run, gates, Deployable)]

MinimumOf(run, topology, gates) == SelectMinimum(run, gates, {topology}).p

\* _threshold_frontier_rows: the minimum of each topology under each floor.
ThresholdFrontier(run) ==
    [k \in 1..Len(Floors) |->
        [t \in ToSet(Topologies) |->
            MinimumOf(run, t, [BaselineGates EXCEPT !.tier = Floors[k]])]]

OnTime(ledger, multiplier) ==
    {r \in Requests : \E elapsed \in ledger[r] :
        4 * elapsed <= TierSlo[Workload[r].tier] * multiplier}

\* _deadline_frontier_rows: every cell is measured again from its ledger, with
\* all deadlines scaled, and nothing else changes.
Rescaled(cell, multiplier) ==
    [cell EXCEPT !.observation.tier     = MinimumTier(OnTime(cell.ledger, multiplier)),
                 !.observation.fairness = Jain(OnTime(cell.ledger, multiplier))]

DeadlineFrontier(run) ==
    [k \in 1..Len(Multipliers) |->
        LET scaled == [i \in DOMAIN run |-> Rescaled(run[i], Multipliers[k])]
        IN  [t \in ToSet(Topologies) |-> MinimumOf(scaled, t, BaselineGates)]]

\* build_artifacts: nothing is published from a dirty tree.
PublishVerdicts ==
    /\ outcome = "running" /\ plan = <<>>
    /\ \/ outcome' = "dirty" /\ UNCHANGED verdict
       \/ /\ outcome' = "published"
          /\ verdict' = [baseline   |-> TopologyVerdicts(cells, BaselineGates),
                         strict     |-> TopologyVerdicts(cells, StrictGates),
                         thresholds |-> ThresholdFrontier(cells),
                         deadlines  |-> DeadlineFrontier(cells)]
    /\ UNCHANGED <<plan, jobs, cells>>

SizingNext == FinishCell \/ CellRaises \/ PublishVerdicts

Published == outcome = "published"

-----------------------------------------------------------------------------
\* A published minimum is the smallest that passed among all cells that ran,
\* whatever the order in which the workers finished; every topology that can be
\* deployed ran with it or with less, and each of them failed a gate with one
\* node less, which the certificates name.  A truncated grid or one with a gap
\* below the winner publishes no minimum (m12_sizing.py 376-445,
\* test_m12_sizing.py 126-176).
MinimumIsCertified ==
    Published =>
        \A side \in {<<verdict.baseline, BaselineGates>>, <<verdict.strict, StrictGates>>} :
        LET winner == side[1].winner
            gates  == side[2]
            ran    == {c \in ToSet(cells) : c.topology \in Deployable}
            passed == {c \in ran : Feasible(c, gates)}
        IN  IF winner.p = 0
            THEN \/ passed = {} \/ {c.topology : c \in ran} # Deployable
                 \/ LET least == Min({c.p : c \in passed})
                    IN  least > 1 /\ \E t \in Deployable :
                            ~\E c \in ran : c.topology = t /\ c.p = least - 1
            ELSE /\ \E c \in passed : c.p = winner.p /\ c.topology = winner.topology
                 /\ \A c \in passed :
                        \/ c.p > winner.p
                        \/ c.p = winner.p /\ Rank(winner.topology) <= Rank(c.topology)
                 /\ winner.p > 1 =>
                        /\ {c.topology : c \in winner.certificates} = Deployable
                        /\ \A c \in winner.certificates : c.p = winner.p - 1 /\ c.failed # {}

\* A stricter floor never needs fewer nodes: along the threshold frontier of a
\* topology the published minima rise.  Both frontiers pass through the baseline
\* verdict, at its floor and at the unscaled deadlines, though the kernel's
\* metrics, the ledger and the verdict are computed on their own
\* (run_m12_sizing.py 327-416 and 479-516, m12_metrics.py 320-396).
FrontiersMeetTheVerdict ==
    Published => \A t \in ToSet(Topologies) :
        LET row == [k \in 1..Len(Floors) |-> verdict.thresholds[k][t]]
            minimum == verdict.baseline.alone[t].p
        IN  /\ \A k \in 1..Len(Floors) : \A j \in 1..k :
                   row[j] > 0 /\ row[k] > 0 => row[j] <= row[k]
            /\ \A k \in 1..Len(Floors) :
                   Floors[k] = BaselineGates.tier => row[k] = minimum
            /\ \A k \in 1..Len(Multipliers) :
                   Multipliers[k] = 4 => verdict.deadlines[k][t] = minimum

\* The verdict, its certificates and its two frontiers are of one grid.
VerdictIsSound == MinimumIsCertified /\ FrontiersMeetTheVerdict
=============================================================================
