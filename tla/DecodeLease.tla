---------------------------- MODULE DecodeLease ----------------------------
(* The decode lease study: simulate_decode_leases (decode_lease.py) serves  *)
(* each request in quanta; at a quantum's end the request becomes a         *)
(* continuation whose prompt holds what was sent (continuation.py), its new *)
(* blocks are stored, and the next node recovers the prompt.                *)
(* Blocks are paths: a trace block is <<k>>, and a generated block extends  *)
(* its parent by the line of its request and its index in its continuation, *)
(* which is what its hash covers.                                           *)
EXTENDS PrefixStore

CONSTANTS
    LeaseRequests,      \* number of requests
    LeasePrompt,        \* their prompts
    LeaseArrival, LeaseOutput,     \* arrivals and output lengths
    LeaseConfig,        \* the configurations of the study
    PrefillNodes,       \* number of prefill nodes
    BlockSize,          \* block_size_tokens
    FixedSchedule, MinQuantum, BaseQuantum, MaxQuantum,
    PrefillWork, DecodeWork,       \* work per token
    CacheBlocks,        \* local_capacity_blocks
    SharedBlocks        \* remote_capacity_blocks

ASSUME LeaseAssumption ==
    /\ BlockSize \in Nat \ {0}
    /\ MinQuantum \in 1..BaseQuantum
    /\ MaxQuantum >= BaseQuantum

VARIABLES
    config,     \* the LeaseConfig of this behaviour
    caches,     \* HBM cache of each decode node
    shared,     \* the remote store
    pfree,      \* p_available
    dfree,      \* d_available
    leases      \* the _State of each request that was read, with its heap entry

leaseVars == <<config, caches, shared, pfree, dfree, leases>>

Sequence == 0..(LeaseRequests - 1)

LeaseInit ==
    /\ config \in LeaseConfig
    /\ caches = EmptyCaches /\ shared = EmptyStore
    /\ pfree = [p \in 1..PrefillNodes |-> 0]
    /\ dfree = [d \in Node |-> 0]
    /\ leases = <<>>

\* seed_local: the blocks are placed in the HBM cache of a node.
Seeded(hbm, node, prompt) ==
    [hbm EXCEPT ![node] = Placed(@, prompt.blocks, {}, [blocks |-> CacheBlocks])]

\* The node that is free first, ties to the smallest index.
FirstFree(free) ==
    CHOOSE i \in DOMAIN free : \A k \in DOMAIN free \ {i} :
        free[i] < free[k] \/ (free[i] = free[k] /\ i < k)

-----------------------------------------------------------------------------
\* The prompt of a continuation.  A partial last block goes, and its tokens are
\* generated again together with the new ones.
Continuation(prompt, sent, line) ==
    LET input    == InputTokens(prompt)
        retained == IF input % BlockSize # 0 THEN input \div BlockSize
                    ELSE Len(prompt.blocks)
        kept     == SubSeq(prompt.blocks, 1, retained)
        pending  == input - Tokens(prompt, 0, retained) + sent
        fresh    == (pending + BlockSize - 1) \div BlockSize
        root     == IF kept = <<>> THEN <<>> ELSE kept[retained]
        path(i)  == FoldLeft(LAMBDA parent, k : parent \o <<line, k>>, root,
                             [k \in 1..i |-> k - 1])
    IN  [blocks |-> kept \o [i \in 1..fresh |-> path(i)],
         sizes  |-> SubSeq(prompt.sizes, 1, retained) \o
                    [i \in 1..fresh |->
                        Min({BlockSize, pending - (i - 1) * BlockSize})]]

Generated(block) == Len(block) > 1

SizeIn(prompt, block) == prompt.sizes[SelectInSeq(prompt.blocks, LAMBDA b : b = block)]

Picked(prompt, Takes(_)) ==
    LET taken == SelectSeq([i \in 1..Len(prompt.blocks) |-> i], Takes)
    IN  [blocks |-> [k \in 1..Len(taken) |-> prompt.blocks[taken[k]]],
         sizes  |-> [k \in 1..Len(taken) |-> prompt.sizes[taken[k]]]]

\* Variant: a block that was there is not published when it is filled.
NewBlocksOnly(previous, current) ==
    Picked(current, LAMBDA i :
        /\ ~Contains(previous.blocks, current.blocks[i])
        /\ Generated(current.blocks[i])
        /\ current.sizes[i] = BlockSize)

\* _new_full_blocks: the generated blocks that the last quantum filled.
NewFullBlocks(previous, current) ==
    Picked(current, LAMBDA i :
        /\ \/ ~Contains(previous.blocks, current.blocks[i])
           \/ SizeIn(previous, current.blocks[i]) < BlockSize
        /\ Generated(current.blocks[i])
        /\ current.sizes[i] = BlockSize)

\* _local_materialized_delta: the new blocks, and a generated tail.
LocalDelta(previous, current) ==
    Picked(current, LAMBDA i :
        \/ ~Contains(previous.blocks, current.blocks[i])
        \/ i = Len(current.blocks) /\ Generated(current.blocks[i]))

\* _quantum.
Quantum(s) ==
    IF config.policy = "D0" \/ ~config.enabled \/ s.downgraded THEN s.remaining
    ELSE IF config.policy = "D1"
         THEN FixedSchedule[Min({s.attempts + 1, Len(FixedSchedule)})]
         ELSE LET pressure == Min({MaxQuantum - BaseQuantum, s.attempts * 4})
              IN  Max({MinQuantum, Min({MaxQuantum, BaseQuantum + pressure})})

-----------------------------------------------------------------------------
\* The loop over the requests in arrival order: each takes the prefill node that
\* is free first, before any request decodes.
ReadRequest(prompt, arrival, output) ==
    /\ Len(leases) < LeaseRequests
    /\ leases # <<>> => arrival >= leases[Len(leases)].arrival
    /\ \E p \in {FirstFree(pfree)} :
       \E done \in {Max({arrival, pfree[p]}) + InputTokens(prompt) * PrefillWork} :
          /\ pfree' = [pfree EXCEPT ![p] = done]
          /\ leases' = Append(leases,
                [original |-> prompt, prompt |-> prompt, arrival |-> arrival,
                 output |-> output, remaining |-> output, attempts |-> 0,
                 downgraded |-> FALSE, node |-> 0, stall |-> 0,
                 ready |-> done, seq |-> Len(leases)])
    /\ UNCHANGED <<config, caches, shared, dfree>>

\* heappop: the first ready time, then the first pushed.
NextLease ==
    LET waiting == {r \in DOMAIN leases : leases[r].remaining > 0}
    IN  {r \in waiting : \A k \in waiting \ {r} :
            \/ leases[r].ready < leases[k].ready
            \/ leases[r].ready = leases[k].ready /\ leases[r].seq < leases[k].seq}

LastPushed == Max({leases[r].seq : r \in DOMAIN leases})

\* A request that goes back into the heap, at the next free sequence number.
Pushed(s, at) == [s EXCEPT !.ready = at, !.seq = LastPushed + 1]

Served(s, sent) == [s EXCEPT !.attempts = @ + 1, !.remaining = @ - sent]

\* The last quantum, or one that lasts to the end.  The drain branch of the code
\* never runs: whatever leads to it makes the quantum the whole remainder.
Finish(r, s, node, end, hbm, store) ==
    /\ s.remaining = 0
    /\ leases' = [leases EXCEPT ![r] = s]
    /\ dfree' = [dfree EXCEPT ![node] = end]
    /\ caches' = hbm /\ shared' = store
    /\ UNCHANGED pfree

\* max_rounds is reached: the rest comes in one quantum, without a continuation
\* and on the node of the last boundary.
RoundsExhausted(r, s, node, end, hbm, store) ==
    /\ s.remaining > 0 /\ s.attempts >= config.rounds
    /\ leases' = [leases EXCEPT ![r] = Pushed([s EXCEPT !.downgraded = TRUE], end)]
    /\ dfree' = [dfree EXCEPT ![node] = end]
    /\ caches' = hbm /\ shared' = store
    /\ UNCHANGED pfree

\* A boundary: the continuation is built, its blocks are stored, and the next
\* node recovers what it lacks behind every prefill booked so far.  A recovery
\* that costs too much is given up, and the request goes on without it.
Boundary(r, s, sent, node, end, hbm, store) ==
    /\ s.remaining > 0 /\ s.attempts < config.rounds
    /\ \E continued \in {Continuation(s.prompt, sent, r)} :
       LET next    == IF config.migrate THEN (node + 1) % Cardinality(Node) ELSE node
           full    == NewFullBlocks(s.prompt, continued)
           local   == Seeded(hbm, node, LocalDelta(s.prompt, continued))
           stored  == IF config.recovery = "R1"
                      THEN StorePlaced(store, SharedBlocks, node, full) ELSE store
           found   == Observed(local[next], NoBlocks, stored, next,
                               continued, config.recovery = "R1")
           again   == found.recompute * PrefillWork
           work    == IF config.recovery = "R1"
                      THEN Max({TransferWork(found.remote), again}) ELSE again
           p       == FirstFree(pfree)
           done    == Max({end, pfree[p]}) + work
           moved   == [s EXCEPT !.prompt = continued, !.node = next]
       IN  /\ \/ /\ work > config.maxRecovery
                 /\ leases' = [leases EXCEPT
                        ![r] = Pushed([moved EXCEPT !.downgraded = TRUE], end)]
                 /\ UNCHANGED pfree
              \/ /\ work \in 1..config.maxRecovery
                 /\ pfree' = [pfree EXCEPT ![p] = done]
                 /\ leases' = [leases EXCEPT
                        ![r] = Pushed([moved EXCEPT !.stall = @ + done - end], done)]
              \/ /\ work = 0
                 /\ leases' = [leases EXCEPT ![r] = Pushed(moved, end)]
                 /\ UNCHANGED pfree
           /\ dfree' = [dfree EXCEPT ![node] = end]
           /\ caches' = local /\ shared' = stored

\* One turn of the loop over the heap.  The first turn of a request stores its
\* prompt on the node that is free first.
ServeQuantum ==
    /\ Len(leases) = LeaseRequests
    /\ \E r \in NextLease :
       LET s     == leases[r]
           first == s.attempts = 0
           node  == IF first THEN FirstFree(dfree) ELSE s.node
           sent  == Min({s.remaining, Quantum(s)})
           end   == Max({s.ready, dfree[node]}) + sent * DecodeWork
       IN  \E hbm \in {IF first THEN Seeded(caches, node, s.original)
                       ELSE caches},
              store \in {IF first /\ config.recovery = "R1"
                         THEN StorePlaced(shared, SharedBlocks, node, s.original)
                         ELSE shared} :
           \/ Finish(r, Served(s, sent), node, end, hbm, store)
           \/ RoundsExhausted(r, Served(s, sent), node, end, hbm, store)
           \/ Boundary(r, Served(s, sent), sent, node, end, hbm, store)
    /\ UNCHANGED config

LeaseNext ==
    \/ \E prompt \in LeasePrompt, arrival \in LeaseArrival, output \in LeaseOutput :
           ReadRequest(prompt, arrival, output)
    \/ ServeQuantum

-----------------------------------------------------------------------------
\* Every request that is between two quanta has, in its continuation, the tokens
\* it had and the tokens it sent, each once, in blocks that are full but for the
\* last; only the quantum that exhausts the rounds leaves them out
\* (decode_lease.py 153-181, continuation.py 38-81).
ContinuationHoldsWhatWasSent ==
    \A r \in DOMAIN leases :
        LET s == leases[r]
        IN  /\ s.attempts < config.rounds /\ s.remaining > 0 =>
                   InputTokens(s.prompt) + s.remaining = InputTokens(s.original) + s.output
            /\ s.attempts <= config.rounds + 1
            /\ IsInjective(s.prompt.blocks)
            /\ \A i \in 1..(Len(s.prompt.sizes) - 1) : s.prompt.sizes[i] = BlockSize

GeneratedIn(store) == {o[2] : o \in ToSet(store.objects)} \ TraceBlock

\* With R1, every generated block that a continuation has filled is in the shared
\* store, whichever quantum filled it, and the store never holds a generated
\* block that is still growing.  When such a block is filled it keeps its name if
\* it was the first of its continuation, and is another block if it was not: the
\* generated indexes start again at 0 (continuation.py 55-69, decode_lease.py
\* 182-189 and 257-283).  The store is large enough to keep them.
FilledBlocksArePublished ==
    LET filled == UNION {{s.prompt.blocks[i] : i \in
                             {k \in 1..Len(s.prompt.blocks) :
                                  /\ Generated(s.prompt.blocks[k])
                                  /\ s.prompt.sizes[k] = BlockSize}} :
                         s \in ToSet(leases)}
    IN  GeneratedIn(shared) = IF config.recovery = "R1" THEN filled ELSE {}

\* A request that stays on its node finds all it needs there and never waits for
\* a recovery, as long as the caches keep everything (decode_lease.py 182-218).
StayingCostsNothing ==
    ~config.migrate => \A r \in DOMAIN leases :
        leases[r].stall = 0

\* No token and no block is lost or kept twice from one quantum to the next.
LeasesKeepTheirTokens ==
    ContinuationHoldsWhatWasSent /\ FilledBlocksArePublished /\ StayingCostsNothing
=============================================================================
