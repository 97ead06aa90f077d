--------------------------- MODULE AttemptMetrics ---------------------------
(* What a finished run of the M12 kernel is measured by: the attempts as    *)
(* m12_kernel.py materialises them, and the ratios that m12_metrics.py      *)
(* aggregates from them, each as a fraction <<numerator, denominator>>.     *)
EXTENDS Integers, SequencesExt

CONSTANTS
    Workload,          \* the logical requests: tenant, tier, arrival and tokens
    ObservationEnd,    \* observation_end_work
    TierSlo            \* tier_slo_work

Requests == DOMAIN Workload
Tiers    == {Workload[r].tier : r \in Requests}
Tenants  == {Workload[r].tenant : r \in Requests}

Below(x, y) == x[1] * y[2] < y[1] * x[2]

\* _materialize: an attempt that finishes after the end has not completed.
Completed(a) == a.terminal = "COMPLETED" /\ a.finish <= ObservationEnd
Elapsed(a)   == a.finish - Workload[a.request].arrival
StrictMet(a) == Completed(a) /\ Elapsed(a) <= TierSlo[Workload[a.request].tier]

CompletedRequests(attempts) == {a.request : a \in {x \in attempts : Completed(x)}}

\* A request is credited once, however many of its attempts are in time.
StrictWinners(attempts) == {a.request : a \in {x \in attempts : StrictMet(x)}}

\* completion_ledger: for each request the elapsed works of its completed
\* attempts, of which the least counts.
Ledger(attempts) ==
    [r \in Requests |->
        {Elapsed(a) : a \in {x \in attempts : x.request = r /\ Completed(x)}}]

-----------------------------------------------------------------------------
\* The share of each tier that was served, and the least of them.
MinimumTier(served) ==
    LET share(tier) == LET asked == {r \in Requests : Workload[r].tier = tier}
                       IN  <<Cardinality(asked \cap served), Cardinality(asked)>>
        shares == {share(tier) : tier \in Tiers}
    IN  CHOOSE x \in shares : \A y \in shares : ~Below(y, x)

Demand(requests) == FoldSet(LAMBDA r, sum : sum + Workload[r].tokens, 0, requests)

\* Jain's index over the share of its demand that each tenant was served.
Jain(served) ==
    LET asked(t) == {r \in Requests : Workload[r].tenant = t}
        others(t) == FoldSet(LAMBDA u, product : product * Demand(asked(u)), 1,
                             Tenants \ {t})
        share(t) == Demand(asked(t) \cap served) * others(t)
        total    == FoldSet(LAMBDA t, sum : sum + share(t), 0, Tenants)
        squares  == FoldSet(LAMBDA t, sum : sum + share(t) * share(t), 0, Tenants)
    IN  IF squares = 0 THEN <<0, 1>> ELSE <<total * total, Cardinality(Tenants) * squares>>
=============================================================================
