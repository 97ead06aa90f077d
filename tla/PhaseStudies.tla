---------------------------- MODULE PhaseStudies ----------------------------
(* The studies of phases A to D and the sizing and placement of M12, one    *)
(* per behaviour: affinity selection, the sequential KVS replay, the        *)
(* lifecycle protocols, the decode leases, the capacity grid and the        *)
(* placement strategies.  Each ends when its trace or its plan does.        *)
EXTENDS NodeSelection, KvsReplay, DecodeLease, Lifecycle, Sizing, Placement

VARIABLE study      \* which of the studies runs

vars == <<study, selectionVars, kvsVars, leaseVars, lifeVars, sizingVars, placementVars>>

Init ==
    /\ study \in {"selection", "kvs", "lease", "lifecycle", "sizing", "placement"}
    /\ SelectionInit /\ KvsInit /\ LeaseInit /\ LifeInit /\ SizingInit /\ PlacementInit
    \* What the other studies would have chosen is fixed.
    /\ study # "selection" => router = "S3"
    /\ study # "lease" => config = CHOOSE c \in LeaseConfig : TRUE
    /\ study # "lifecycle" => protocol = CHOOSE p \in Protocols : TRUE
    /\ study # "sizing" => plan = (CHOOSE x \in SizingPlans : TRUE) /\ jobs = Min(Jobs)
    /\ study # "placement" => strategy = "HYBRID" /\ kvsOn = FALSE

Select ==
    /\ study = "selection" /\ Route
    /\ UNCHANGED <<study, kvsVars, leaseVars, lifeVars, sizingVars, placementVars>>

Kvs ==
    /\ study = "kvs"
    /\ ChooseMode \/ ServeNext
    /\ UNCHANGED <<study, selectionVars, leaseVars, lifeVars, sizingVars, placementVars>>

Lease ==
    /\ study = "lease" /\ LeaseNext
    /\ UNCHANGED <<study, selectionVars, kvsVars, lifeVars, sizingVars, placementVars>>

Life ==
    /\ study = "lifecycle" /\ LifeNext
    /\ UNCHANGED <<study, selectionVars, kvsVars, leaseVars, sizingVars, placementVars>>

Size ==
    /\ study = "sizing" /\ SizingNext
    /\ UNCHANGED <<study, selectionVars, kvsVars, leaseVars, lifeVars, placementVars>>

Place ==
    /\ study = "placement" /\ PlacementNext
    /\ UNCHANGED <<study, selectionVars, kvsVars, leaseVars, lifeVars, sizingVars>>

\* The trace is served.
Finished ==
    CASE study = "selection" -> Len(routed) = RoutedRequests
      [] study = "kvs"   -> trace.served = KvsRequests
      [] study = "lease" -> Len(leases) = LeaseRequests /\ NextLease = {}
      [] study = "sizing" -> outcome # "running"
      [] study = "placement" -> PlacementOver
      [] OTHER           -> Len(records) = LifeRequests

Over == Finished /\ UNCHANGED vars

Next == Select \/ Kvs \/ Lease \/ Life \/ Size \/ Place \/ Over

Spec == Init /\ [][Next]_vars
=============================================================================
