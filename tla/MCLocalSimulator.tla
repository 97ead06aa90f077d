-------------------------- MODULE MCLocalSimulator --------------------------
(* Small clusters and traces for TLC. *)
EXTENDS LocalSimulator

\* A chain of blocks with a common head, and unrelated ones.
MCChains == {<<1>>, <<1, 2>>, <<3>>}

\* Block 3 takes as long as blocks 1 and 2 together: finishes coincide.
MCTokens == 1 :> 1 @@ 2 :> 1 @@ 3 :> 2

Queued(policy, visibility, concurrency, delayed) ==
    [policy |-> policy, visibility |-> visibility, queued |-> TRUE,
     concurrency |-> concurrency, delayed |-> delayed, viewDelay |-> 2]

CacheOnly(policy) ==
    [Queued(policy, "INSERT_AT_COMPLETION", 1, FALSE) EXCEPT !.queued = FALSE]

MCConfigs ==
    {CacheOnly(policy) : policy \in Policy}
       \cup {Queued(policy, "INFLIGHT_DEDUP_WAIT", 3, TRUE) : policy \in Policy}
       \cup {Queued("FIFO", "INSERT_AT_COMPLETION", 2, TRUE)}

\* A fourth block, as short as the first.
FourChains == MCChains \cup {<<4>>}

FourTokens == MCTokens @@ 4 :> 1

DedupConfigs == {Queued("LRU", "INFLIGHT_DEDUP_WAIT", 4, FALSE)}
=============================================================================
