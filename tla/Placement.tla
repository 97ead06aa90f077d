----------------------------- MODULE Placement -----------------------------
(* The placement policy of M12 (m12_placement.py, m12_priced_spill.py):     *)
(* each request that arrives is given a prefill node by one of six          *)
(* strategies, from caches and queues as they are at that moment; the       *)
(* kernel starts and prices it when the node is free.  Every block is one   *)
(* token.  Work is in hundredths.  Where the code hashes a name to pick a   *)
(* node, any node may be picked.                                            *)
EXTENDS Integers, SequencesExt

CONSTANTS
    PNode,              \* prefill nodes, as numbers
    Arriving,           \* requests: raw blocks, cohort, eligible nodes, SLO slack
    PlacedRequests,     \* bound: requests of a trace
    PrefillPerToken, KvsPerToken, Contention,   \* cost model
    BalancingThreshold, \* mooncake_balancing_threshold
    FamilyLimit, HotCount, FamilyDepth   \* 64, 8 and 32 in the code

ASSUME PlacementAssumption ==
    /\ \A q \in Arriving : q.raw \in Seq(ToSet(q.raw))
    /\ PrefillPerToken \in Nat /\ FamilyLimit \in Nat \ {0} /\ FamilyDepth \in Nat

VARIABLES
    strategy,     \* PlacementMode
    kvsOn,        \* kvs_enabled
    resident,     \* cache of each prefill node; nothing is evicted
    waiting,      \* attempts planned for a node and not started, in order
    running,      \* at most one attempt of each node
    placed,       \* the decisions so far, oldest first
    prefixes,     \* _prefix_to_family
    halted        \* the policy has raised

placementVars == <<strategy, kvsOn, resident, waiting, running, placed, prefixes, halted>>

PlacementInit ==
    /\ strategy \in {"HYBRID", "PRICED_SPILL", "S3", "S4", "S5", "S6"}
    /\ kvsOn \in BOOLEAN
    /\ resident = [n \in PNode |-> {}]
    /\ waiting = [n \in PNode |-> <<>>] /\ running = [n \in PNode |-> <<>>]
    /\ placed = <<>> /\ prefixes = <<>> /\ halted = FALSE

-----------------------------------------------------------------------------
\* _namespace_cache_key: blocks of different cohorts are different.
Keys(q) == [i \in 1..Len(q.raw) |-> <<q.cohort, q.raw[i]>>]

PrefixTokens(q, cached) ==
    Max({k \in 0..Len(q.raw) : \A i \in 1..k : Keys(q)[i] \in cached})

Held(q, n) == PrefixTokens(q, resident[n])
Best(q) == Max({Held(q, n) : n \in PNode})

\* The work of the attempts at a node.  A running one counts with what is left of
\* it, which is nothing when it ends at this very moment.
QueueWork(ending) ==
    [n \in PNode |->
        FoldLeft(LAMBDA sum, a : sum + Len(a.request.raw) * PrefillPerToken, 0, waiting[n])
        + (IF n \in ending THEN 0
           ELSE FoldLeft(LAMBDA sum, a : sum + a.charge + a.fetched, 0, running[n]))]

\* _estimated_marginal: whatever any node holds is taken to be transferable.
Marginal(q, queue, n) ==
    LET remote == IF kvsOn THEN Best(q) - Held(q, n) ELSE 0
    IN  queue[n] + (Len(q.raw) - Held(q, n) - remote) * PrefillPerToken
                 + remote * KvsPerToken * Contention

Candidates(q, queue) ==
    {n \in q.eligible : Marginal(q, queue, n) <= q.slack}

-----------------------------------------------------------------------------
\* What a strategy decides: the node, whether the attempt may fetch what the node
\* lacks, and the tokens that the score took for covered.
Decision(n, fetch, covered) == [node |-> n, fetch |-> fetch, covered |-> covered]

\* PricedSpillSelector: the least marginal work, ties to the home of the family.
PricedSpill(q, queue, nodes) ==
    LET least == {n \in nodes : \A k \in nodes : Marginal(q, queue, n) <= Marginal(q, queue, k)}
        remote(n) == kvsOn /\ Best(q) > Held(q, n)
    IN  {Decision(n, remote(n), IF remote(n) THEN Best(q) ELSE Held(q, n)) :
            n \in {Min((least \cap {home}) \cup (IF home \in least THEN {} ELSE least)) :
                       home \in nodes}}

\* The nodes in rising order are a ring; a primary that is well above the mean
\* load gives way to the less loaded of the next two.
BoundedLoad(queue, nodes) ==
    LET ring    == SetToSortSeq(nodes, <)
        total   == FoldSet(LAMBDA n, sum : sum + queue[n], 0, nodes)
        next(i) == {ring[((i + offset - 1) % Len(ring)) + 1] :
                        offset \in 1..Min({2, Len(ring) - 1})}
        heavy(i) == total > 0 /\ 4 * Len(ring) * queue[ring[i]] > 5 * total
        least(set) == CHOOSE n \in set : \A k \in set \ {n} :
                          queue[n] < queue[k] \/ (queue[n] = queue[k] /\ n < k)
    IN  {IF heavy(i) THEN least(IF next(i) = {} THEN nodes ELSE next(i)) ELSE ring[i] :
            i \in 1..Len(ring)}

\* Mooncake's threshold branch.
UsesRemote(q, n) ==
    /\ kvsOn /\ Best(q) > Held(q, n)
    /\ Held(q, n) = 0 \/ Best(q) >= BalancingThreshold * Held(q, n)

\* Variant: the score takes the best prefix for covered although it is not fetched.
HybridCoverIgnoringThreshold(q, n) == IF kvsOn THEN Best(q) ELSE Held(q, n)

HybridCover(q, n) == IF UsesRemote(q, n) THEN Best(q) ELSE Held(q, n)

Score(q, queue, n) ==
    LET input == Len(q.raw)
    IN  CASE strategy = "S5" -> queue[n] + 100 * input - 70 * Held(q, n)
          [] strategy = "S6" -> queue[n] + (input - Held(q, n)) * PrefillPerToken
          [] OTHER -> queue[n] + (input - HybridCover(q, n)) * PrefillPerToken
                      + (HybridCover(q, n) - Held(q, n)) * KvsPerToken * Contention

\* How recently a node was selected; 0 for never.
LastSelected(n) == Max({0} \cup {i \in DOMAIN placed : placed[i].node = n})

\* S5 takes the best of the first three tenths, S6 whatever is near the best, and
\* HYBRID the best; among them the one that was selected longest ago.
Nearest(q, queue, nodes) ==
    LET score(n) == Score(q, queue, n)
        order == SetToSortSeq(nodes, LAMBDA n, k :
                     score(n) < score(k) \/ (score(n) = score(k) /\ n < k))
        near  == {n \in nodes : 10 * (score(n) - score(order[1])) <=
                                    Max({1000, score(order[1])})}
        top   == (3 * Len(order) + 9) \div 10
        eligible == CASE strategy = "S5" -> near \cap ToSet(SubSeq(order, 1, top))
                      [] strategy = "S6" -> near
                      [] OTHER           -> {order[1]}
    IN  CHOOSE n \in eligible : \A k \in eligible \ {n} :
            \/ LastSelected(n) < LastSelected(k)
            \/ LastSelected(n) = LastSelected(k) /\ n < k

Scored(q, n) ==
    IF strategy = "HYBRID" THEN Decision(n, UsesRemote(q, n), HybridCover(q, n))
    ELSE Decision(n, kvsOn /\ Best(q) > Held(q, n), Held(q, n))

-----------------------------------------------------------------------------
\* Session families of S4.  Sizes, counts and homes of the code follow from the
\* decisions so far; family 0 is none.

Members(f) == {i \in DOMAIN placed : placed[i].family = f}

\* Variant: cohorts share their families.
PrefixOfAnyCohort(q, depth) == SubSeq(q.raw, 1, depth)

PrefixOf(q, depth) == <<q.cohort>> \o SubSeq(q.raw, 1, depth)

\* How often a key was in the part of a request that counts.
Count(key) == Cardinality({i \in DOMAIN placed :
    \E k \in 1..Min({FamilyDepth, Len(placed[i].request.raw)}) :
        Keys(placed[i].request)[k] = key})

\* _causal_session_family: the deepest known prefix of two or more blocks whose
\* family has room, unless all of its blocks are hot; else a new family.
FamilyOf(q) ==
    LET depths == {d \in 2..Min({FamilyDepth, Len(q.raw)}) :
                      /\ PrefixOf(q, d) \in DOMAIN prefixes
                      /\ Cardinality(Members(prefixes[PrefixOf(q, d)])) < FamilyLimit
                      /\ \E i \in 1..d : Count(Keys(q)[i]) < HotCount}
    IN  IF depths # {} THEN prefixes[PrefixOf(q, Max(depths))]
        ELSE 1 + Max({0} \cup {placed[i].family : i \in DOMAIN placed})

\* The prefixes of a request point to its family, unless they point to one that
\* has room even after this request joined its own.
Remembered(q, family) ==
    LET size(f) == Cardinality(Members(f)) + (IF f = family THEN 1 ELSE 0)
        own == {PrefixOf(q, d) : d \in 2..Min({FamilyDepth, Len(q.raw)})}
        taken == {x \in own : x \in DOMAIN prefixes => size(prefixes[x]) >= FamilyLimit}
    IN  [x \in DOMAIN prefixes \cup taken |-> IF x \in taken THEN family ELSE prefixes[x]]

\* A family goes to the node of its first request while that is a candidate, and
\* to a node that its name picks otherwise.
SessionAffinity(q, nodes) ==
    LET members == Members(FamilyOf(q))
        home    == IF members = {} THEN {} ELSE {placed[Min(members)].node}
    IN  {Decision(n, FALSE, Held(q, n)) :
            n \in IF home \subseteq nodes /\ home # {} THEN home ELSE nodes}

Decisions(q, queue, nodes) ==
    CASE strategy = "PRICED_SPILL" -> PricedSpill(q, queue, nodes)
      [] strategy = "S3"           ->
             {Decision(n, FALSE, Held(q, n)) : n \in BoundedLoad(queue, nodes)}
      [] strategy = "S4"           -> SessionAffinity(q, nodes)
      [] OTHER                     -> {Scored(q, Nearest(q, queue, nodes))}

-----------------------------------------------------------------------------
\* plan_attempts, at the arrival of a request.
Planned(q, family, decision) ==
    /\ placed' = Append(placed, [request |-> q, node |-> decision.node, family |-> family])
    /\ waiting' = [waiting EXCEPT ![decision.node] =
                     Append(@, [request |-> q, fetch |-> decision.fetch,
                                covered |-> decision.covered])]

\* A request without input goes to the first node.
PlanEmpty(q) ==
    /\ q.raw = <<>>
    /\ Planned(q, 0, Decision(Min(PNode), FALSE, 0))
    /\ UNCHANGED <<prefixes, halted>>

PlanRequest(q, queue) ==
    /\ q.raw # <<>> /\ Candidates(q, queue) # {}
    /\ \E decision \in Decisions(q, queue, Candidates(q, queue)),
          family \in {IF strategy = "S4" THEN FamilyOf(q) ELSE 0} :
           /\ Planned(q, family, decision)
           /\ prefixes' = IF strategy = "S4" THEN Remembered(q, family) ELSE prefixes
    /\ UNCHANGED halted

\* No eligible node can serve the request within its slack: the run ends.
NoCandidate(q, queue) ==
    /\ q.raw # <<>> /\ Candidates(q, queue) = {}
    /\ halted' = TRUE
    /\ UNCHANGED <<waiting, placed, prefixes>>

Arrive ==
    /\ Len(placed) < PlacedRequests
    /\ \E q \in Arriving, ending \in SUBSET {n \in PNode : running[n] # <<>>} :
       \E queue \in {QueueWork(ending)} :
           PlanEmpty(q) \/ PlanRequest(q, queue) \/ NoCandidate(q, queue)
    /\ UNCHANGED <<strategy, kvsOn, resident, running>>

\* _price_prefill: a block is covered when the node has it, or when it may be
\* fetched and any other node has it.
Covered(a, n) ==
    PrefixTokens(a.request,
        IF a.fetch THEN UNION {resident[k] : k \in PNode} ELSE resident[n])

\* The kernel starts the next attempt of a node.
StartPrefill(n) ==
    /\ running[n] = <<>> /\ waiting[n] # <<>>
    /\ LET a == Head(waiting[n])
           fetched == {i \in 1..Covered(a, n) : Keys(a.request)[i] \notin resident[n]}
       IN  running' = [running EXCEPT ![n] =
               <<[request |-> a.request, covered |-> a.covered,
                  charge  |-> (Len(a.request.raw) - Covered(a, n)) * PrefillPerToken,
                  fetched |-> Cardinality(fetched) * KvsPerToken * Contention]>>]
    /\ waiting' = [waiting EXCEPT ![n] = Tail(@)]
    /\ UNCHANGED <<strategy, kvsOn, resident, placed, prefixes, halted>>

\* It ends, and its keys are admitted.
EndPrefill(n) ==
    /\ running[n] # <<>>
    /\ resident' = [resident EXCEPT ![n] = @ \cup ToSet(Keys(running[n][1].request))]
    /\ running' = [running EXCEPT ![n] = <<>>]
    /\ UNCHANGED <<strategy, kvsOn, waiting, placed, prefixes, halted>>

PlacementNext ==
    /\ ~halted
    /\ Arrive \/ \E n \in PNode : StartPrefill(n) \/ EndPrefill(n)

PlacementOver ==
    \/ halted
    \/ /\ Len(placed) = PlacedRequests
       /\ \A n \in PNode : waiting[n] = <<>> /\ running[n] = <<>>

-----------------------------------------------------------------------------
\* An attempt is never charged more prefill work than its placement was scored
\* with, however long it waits and whatever starts and ends in the meantime: what
\* a score took for covered stays where it was, or is fetched
\* (m12_placement.py 344-480, m12_kernel.py 1028-1053).
PlanCoversCharge ==
    \A n \in PNode : \A i \in DOMAIN running[n] :
        running[n][i].charge <=
            (Len(running[n][i].request.raw) - running[n][i].covered) * PrefillPerToken

\* A family of more than one request is of one cohort and shares at least its
\* first two blocks, through whichever prefixes its requests joined, and is never
\* larger than its limit (m12_placement.py 506-547).
FamiliesShareTheirRoot ==
    \A i \in DOMAIN placed : placed[i].family # 0 =>
        /\ Cardinality(Members(placed[i].family)) <= FamilyLimit
        /\ \A j \in Members(placed[i].family) \ {i} :
               /\ placed[i].request.cohort = placed[j].request.cohort
               /\ Len(placed[i].request.raw) >= 2 /\ Len(placed[j].request.raw) >= 2
               /\ \A k \in 1..2 : placed[i].request.raw[k] = placed[j].request.raw[k]

\* A placement keeps what it promised, of work and of company.
PlacementIsSound == PlanCoversCharge /\ FamiliesShareTheirRoot
=============================================================================
