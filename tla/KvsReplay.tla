----------------------------- MODULE KvsReplay -----------------------------
(* The sequential KVS study: run_m5_case (m5_experiment.py) sends each      *)
(* request to the node that Mooncake's Algorithm 1 picks                    *)
(* (mooncake_selector.py), counts what the plan costs and stores the        *)
(* prompt.  All costs are integers.                                         *)
EXTENDS PrefixStore

CONSTANTS
    KvsPrompt,      \* prompts the trace may hold
    Gap,            \* distances between arrivals
    KvsRequests,    \* bound: requests of a trace
    HbmBlocks,      \* local_capacity_blocks
    DramBlocks,     \* local_dram_capacity_blocks
    StoreBlocks,    \* remote_capacity_blocks
    Threshold,      \* kvcache_balancing_threshold
    RecomputeToken                  \* prefill_token_ms

\* The blocks of a prompt are hashes of all before them, so that none repeats.
ASSUME KvsAssumption ==
    /\ {HbmBlocks, DramBlocks, StoreBlocks} \subseteq Nat \ {0}
    /\ Gap \subseteq Nat /\ RecomputeToken \in Nat
    /\ \A prompt \in KvsPrompt :
          /\ prompt.blocks \in Seq(TraceBlock) /\ IsInjective(prompt.blocks)
          /\ prompt.sizes \in Seq(Nat) /\ Len(prompt.sizes) = Len(prompt.blocks)

VARIABLES
    mode,     \* TopologyMode
    hbm,      \* cache of each node
    dram,     \* DRAM cache of each node, used in HYBRID only
    store,    \* the remote store
    work,     \* queue_work of each node
    trace,    \* history: how many requests were served, and the last of them
    books     \* tokens by source, and hotspot migrations

kvsVars == <<mode, hbm, dram, store, work, trace, books>>

NothingServed == [served |-> 0, node |-> 0, prompt |-> [blocks |-> <<>>, sizes |-> <<>>],
                  blocks |-> 0, found |-> 0, tokens |-> 0]

KvsInit ==
    /\ mode = "LOCAL_ONLY"
    /\ hbm = EmptyCaches /\ dram = EmptyCaches /\ store = EmptyStore
    /\ work = [n \in Node |-> 0]
    /\ trace = NothingServed
    /\ books = [input |-> 0, local |-> 0, remote |-> 0, recompute |-> 0, migrations |-> 0]

\* run_m5_case builds its topology.
ChooseMode ==
    /\ trace.served = 0
    /\ mode' \in {"LOCAL_ONLY", "SHARED_KVS", "HYBRID"}
    /\ UNCHANGED <<hbm, dram, store, work, trace, books>>

Local(o) == o.hbm + o.dram

\* One node's entry of the selector.  The cost of a transferred token is that of
\* a transfer of 512, so scores are compared 512 times as large.
Candidate(o, best, queued) ==
    LET local   == Local(o)
        remote  == o.remote > 0 /\ (local = 0 \/ best >= Threshold * local)
        moved   == IF remote THEN Min({best - local, o.remote}) ELSE 0
        input   == local + o.remote + o.recompute
    IN  [remote |-> remote, planned |-> local + moved,
         score  |-> 512 * queued + moved * TransferWork(512)
                       + 512 * (input - local - moved) * RecomputeToken]

\* The smallest score, ties to the smallest node id.
Selected(candidates) ==
    CHOOSE n \in Node : \A k \in Node \ {n} :
        \/ candidates[n].score < candidates[k].score
        \/ candidates[n].score = candidates[k].score /\ n < k

\* The nodes drain their queues while time passes, and one of them takes the
\* request; lookup is the draw of the timeout stream.
Serve(prompt, gap, lookup) ==
    LET queued == [n \in Node |-> Max({0, work[n] - gap})]
        obs    == [n \in Node |-> Observed(hbm[n], dram[n], store, n, prompt, lookup)]
        best   == Max({Local(obs[n]) + obs[n].remote : n \in Node})
        offers == [n \in Node |-> Candidate(obs[n], best, queued[n])]
    IN  \E node \in {Selected(offers)} :
        LET o         == obs[node]
            remote    == IF offers[node].remote THEN offers[node].planned - Local(o) ELSE 0
            recompute == InputTokens(prompt) - Local(o) - remote
            blocks    == IF offers[node].remote THEN o.remoteBlocks ELSE 0
        IN  /\ work' = [queued EXCEPT ![node] =
                            @ + Max({TransferWork(remote), recompute * RecomputeToken})]
            /\ books' = [input      |-> books.input + InputTokens(prompt),
                         local      |-> books.local + Local(o),
                         remote     |-> books.remote + remote,
                         recompute  |-> books.recompute + recompute,
                         migrations |-> books.migrations + (IF blocks > 0 THEN 1 ELSE 0)]
            /\ hbm' = [hbm EXCEPT ![node] =
                        Placed(@, prompt.blocks, {}, [blocks |-> HbmBlocks])]
            /\ dram' = IF mode = "HYBRID"
                       THEN [dram EXCEPT ![node] =
                               Placed(@, prompt.blocks, {}, [blocks |-> DramBlocks])]
                       ELSE dram
            /\ store' = IF mode = "LOCAL_ONLY" THEN store
                        ELSE StorePlaced(Transferred(store, prompt, blocks),
                                         StoreBlocks, node, prompt)
            /\ trace' = [served |-> trace.served + 1, node |-> node, prompt |-> prompt,
                         blocks |-> blocks, found |-> o.remote, tokens |-> remote]

ServeNext ==
    /\ trace.served < KvsRequests
    /\ \E prompt \in KvsPrompt, gap \in Gap, lookup \in BOOLEAN :
           Serve(prompt, gap, lookup)
    /\ UNCHANGED mode

-----------------------------------------------------------------------------
\* A request that fits leaves its whole prompt in every tier of its node: no
\* block it stores or refreshes pushes out another block of the same prompt, in
\* a local cache as in the shared store, where only the new ones are protected
\* (cache.py 106-160, kvs.py 116-154).
PromptStaysWhole ==
    LET whole == Len(trace.prompt.blocks)
    IN  /\ whole <= HbmBlocks =>
               HitBlocks(hbm[trace.node].resident, trace.prompt.blocks) = whole
        /\ mode = "HYBRID" /\ whole <= DramBlocks =>
               HitBlocks(dram[trace.node].resident, trace.prompt.blocks) = whole
        /\ mode # "LOCAL_ONLY" /\ whole <= StoreBlocks =>
               HitBlocks(store.byHolder[trace.node], trace.prompt.blocks) = whole

\* The tokens charged to a transfer, planned from the best prefix anywhere in the
\* cluster, are the tokens of the blocks that are migrated, counted from what
\* the chosen node found at another holder; nothing is transferred otherwise
\* (m5_experiment.py 137-189, mooncake_selector.py 30-65).
ChargedIsMigrated ==
    /\ trace.tokens = IF trace.blocks > 0 THEN trace.found ELSE 0
    /\ books.input = books.local + books.remote + books.recompute
    /\ books.recompute >= 0

\* The store's indices, in every state between two requests.
StoreIndexesAgree == IndexesAgree(store, StoreBlocks)

\* What the tiers hold, what they are charged with and what indexes them.
TiersAreSound == PromptStaysWhole /\ ChargedIsMigrated /\ StoreIndexesAgree
=============================================================================
