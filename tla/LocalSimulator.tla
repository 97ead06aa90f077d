--------------------------- MODULE LocalSimulator ---------------------------
(***************************************************************************)
(* The replay of a trace over a cluster of prefill nodes with local block  *)
(* caches (simulator.py): the event loop of the queued replay and the      *)
(* one-pass replay.  The trace is drawn one arrival at a time; the         *)
(* selector may place a request on any node.  Time is counted in units of  *)
(* the service time of one uncached token.                                 *)
(***************************************************************************)
EXTENDS BlockCache

CONSTANTS
    Block,              \* block identities
    CacheBlocks,        \* capacity_blocks
    ProtectedBlocks,    \* SlruPolicy.protected_capacity
    GhostBlocks,        \* SecondHitAdmissionPolicy.ghost_capacity_blocks
    Nodes,
    PrefixChains,           \* the block prefixes a request may have
    BlockTokens,        \* block_token_sizes, by block
    Configs,            \* the SimulationConfigs the replay may be run with
    \* Bounds of the instance, not of the code.
    MaxRequests,        \* length of the trace
    MaxArrival          \* latest arrival time

ASSUME CacheAssumption ==
    /\ CacheBlocks \in Nat \ {0}
    /\ ProtectedBlocks \in Nat \ {0}
    /\ GhostBlocks \in Nat \ {0}

ASSUME SimulatorAssumption ==
    /\ PrefixChains \subseteq Seq(Block) \ {<<>>}
    /\ BlockTokens \in [Block -> Nat \ {0}]
    /\ MaxRequests \in Nat
    /\ MaxArrival \in Nat
    /\ \A c \in Configs : /\ c.policy \in Policy
                          /\ c.visibility \in {"INSERT_AT_COMPLETION", "INFLIGHT_DEDUP_WAIT"}
                          /\ c.queued \in BOOLEAN
                          /\ c.concurrency \in Nat \ {0}
                          /\ c.delayed \in BOOLEAN
                          /\ c.viewDelay \in Nat

VARIABLES
    config,             \* the SimulationConfig of this replay
    clock,              \* time of the event processed last
    requests,           \* the trace so far: [prefix, node]
    nodes,              \* the _NodeRuntime of each node
    events,             \* the heap: start and finish events
    sequence,           \* tie breaker of the next event
    decisions,          \* the requests completed
    observed,           \* when the cached view was taken
    history,            \* residency intervals of each node's cache
    residentThen        \* history variable: resident sets when the view was taken

vars == <<config, clock, requests, nodes, events, sequence, decisions,
          observed, history, residentThen>>

\* The cache of every node.
Capacity == [blocks |-> CacheBlocks, protected |-> ProtectedBlocks, ghost |-> GhostBlocks]

Cache == [policy: Policy, resident: SUBSET Block, order: Seq(Block),
          protected: Seq(Block), ghost: Seq(Block)]

None == -1

\* wait_started_ms is None until the request waits; hits belongs to a finish.
\* waited is a history variable: the blocks a start has waited for so far.
Event == [kind: {"start", "finish"}, time: Nat, seq: Nat, req: 1..MaxRequests,
          hits: Nat, waitStarted: Nat \cup {None},
          waited: SUBSET Block]

StartEvent(time, seq, req) ==
    [kind |-> "start", time |-> time, seq |-> seq, req |-> req, hits |-> 0,
     waitStarted |-> None, waited |-> {}]

Init ==
    /\ config \in Configs
    /\ clock = 0
    /\ requests = <<>>
    /\ nodes = [n \in Nodes |->
                  [cache      |-> EmptyCache(config.policy),
                   queue      |-> <<>>,
                   active     |-> 0,
                   activePins |-> [b \in Block |-> 0],
                   waiterPins |-> {},
                   inflight   |-> [b \in Block |-> None]]]
    /\ events = {}
    /\ sequence = 0
    /\ decisions = {}
    /\ observed = None
    /\ history = [n \in Nodes |-> {}]
    /\ residentThen = [n \in Nodes |-> {}]

-----------------------------------------------------------------------------
\* Helpers.

Prefix(r) == requests[r].prefix
HitSet(r, hits) == ToSet(SubSeq(Prefix(r), 1, hits))
MissSet(r, hits) == ToSet(SubSeq(Prefix(r), hits + 1, Len(Prefix(r))))

\* input_tokens less the tokens of the hit blocks.  Blocks of a prefix differ.
Uncached(r, hits) == SumFunctionOnSet(BlockTokens, MissSet(r, hits))

Resident(n) == nodes[n].cache.resident

Before(e, f) ==
    LET Priority(x) == IF x.kind = "finish" THEN 0 ELSE 1
    IN  \/ e.time < f.time
        \/ e.time = f.time /\ Priority(e) < Priority(f)
        \/ e.time = f.time /\ Priority(e) = Priority(f) /\ e.seq < f.seq

\* heappop.
Due(e) == \A f \in events \ {e} : Before(e, f)

ScheduledItems(node) == {i \in 1..Len(node.queue) : node.queue[i].scheduled}

\* Variant: one start too many.
ToScheduleOneMore(node) ==
    LET idle == (1..Len(node.queue)) \ ScheduledItems(node)
    IN  {i \in idle : node.active + Cardinality(ScheduledItems(node))
                         + Cardinality({j \in idle : j < i}) <= config.concurrency}

\* The queue positions _schedule_starts starts: in queue order, while slots
\* are neither running nor promised to an item that waits.
ToSchedule(node) ==
    LET idle == (1..Len(node.queue)) \ ScheduledItems(node)
    IN  {i \in idle : node.active + Cardinality(ScheduledItems(node))
                         + Cardinality({j \in idle : j < i}) < config.concurrency}

\* _schedule_starts: every chosen item gets a start event now.
Rescheduled(node) ==
    [node EXCEPT !.queue = [i \in DOMAIN @ |->
        IF i \in ToSchedule(node) THEN [@[i] EXCEPT !.scheduled = TRUE] ELSE @[i]]]

NewStarts(node, time, seq) ==
    {StartEvent(time, seq + Cardinality({j \in ToSchedule(node) : j < i}),
                node.queue[i].req) : i \in ToSchedule(node)}

\* _close_interval and the new intervals a placement leaves in the history.
HistoryAfter(n, placed) ==
    LET closed == {[h EXCEPT !.to = clock'] :
                      h \in {x \in history[n] : x.to = None /\ x.block \notin placed}}
        open   == {x \in history[n] : x.to # None \/ x.block \in placed}
    IN  [history EXCEPT ![n] = closed \cup open
            \cup {[block |-> b, from |-> clock', to |-> None] : b \in placed \ Resident(n)}]

\* Variant: a block evicted as the view is taken still counts.
HitsInClosedHistory(n, prefix, time) ==
    HitBlocks({h.block : h \in {x \in history[n] : /\ x.from <= time
                                                   /\ x.to = None \/ time <= x.to}},
              prefix)

\* preview_at: the prefix hit according to the history at the time of the view.
HitsInHistory(n, prefix, time) ==
    HitBlocks({h.block : h \in {x \in history[n] : /\ x.from <= time
                                                   /\ x.to = None \/ time < x.to}},
              prefix)
-----------------------------------------------------------------------------
\* Arrivals.

\* _view: a delayed view is taken anew once the cached one is old enough.
Observe(time) ==
    LET cached == /\ observed # None
                  /\ time - observed < config.viewDelay
    IN  IF config.delayed /\ ~cached
        THEN /\ observed' = time
             /\ residentThen' = [n \in Nodes |-> Resident(n)]
        ELSE UNCHANGED <<observed, residentThen>>

\* The trace is in order of arrival, and an arrival is popped after every
\* start and finish that is due at its time.
Arrives(time, prefix, n) ==
    /\ Len(requests) < MaxRequests
    /\ time >= clock
    /\ \A e \in events : e.time > time
    /\ clock' = time
    /\ requests' = Append(requests, [prefix |-> prefix, node |-> n])

\* The selector places the request, which queues at its node.
Arrive(time, prefix, n) ==
    LET item == [req |-> Len(requests) + 1, scheduled |-> FALSE]
        node == [nodes[n] EXCEPT !.queue = Append(@, item)]
    IN  /\ config.queued
        /\ Arrives(time, prefix, n)
        /\ Observe(time)
        /\ nodes' = [nodes EXCEPT ![n] = Rescheduled(node)]
        /\ events' = events \cup NewStarts(node, time, sequence)
        /\ sequence' = sequence + Cardinality(ToSchedule(node))
        /\ UNCHANGED <<config, decisions, history>>

\* CACHE_ONLY replay: looked up and placed at its arrival, no queue.
ReplayAtArrival(time, prefix, n) ==
    LET hits  == HitBlocks(Resident(n), prefix)
        cache == Placed(LookedUp(nodes[n].cache, prefix, Capacity), prefix,
                        ToSet(SubSeq(prefix, 1, hits)), Capacity)
    IN  /\ ~config.queued
        /\ Arrives(time, prefix, n)
        /\ nodes' = [nodes EXCEPT ![n].cache = cache]
        /\ history' = HistoryAfter(n, cache.resident)
        /\ decisions' = decisions \cup {Len(requests')}
        /\ UNCHANGED <<config, events, sequence, observed, residentThen>>

-----------------------------------------------------------------------------
\* Starts.

\* The blocks a start would compute that some running request computes.
WaitedFor(e) ==
    LET n == requests[e.req].node
        hits == HitBlocks(Resident(n), Prefix(e.req))
    IN  {b \in MissSet(e.req, hits) : nodes[n].inflight[b] # None}

Item(n, r) == CHOOSE i \in 1..Len(nodes[n].queue) : nodes[n].queue[i].req = r

\* "event.wait_started_ms or event.time_ms": time 0 reads as None.
WaitStarted(e) == IF e.waitStarted \in {None, 0} THEN e.time ELSE e.waitStarted

\* The start finds its blocks in flight and comes back when the last producer
\* finishes; its queue item keeps the slot.
Wait(e) ==
    LET n       == requests[e.req].node
        waited  == WaitedFor(e)
        again   == [e EXCEPT !.time = Max({nodes[n].inflight[b] : b \in waited}),
                             !.seq = sequence,
                             !.waitStarted = WaitStarted(e),
                             !.waited = @ \cup waited]
    IN  /\ config.visibility = "INFLIGHT_DEDUP_WAIT"
        /\ waited # {}
        /\ nodes' = [nodes EXCEPT ![n].waiterPins = @ \cup waited]
        /\ events' = (events \ {e}) \cup {again}
        /\ sequence' = sequence + 1
        /\ UNCHANGED decisions

HasWaited(e) == e.waitStarted # None

\* The request leaves the queue and computes what its lookup misses.
Run(e) ==
    LET r      == e.req
        n      == requests[r].node
        node   == nodes[n]
        hits   == HitBlocks(Resident(n), Prefix(r))
        finish == e.time + Uncached(r, hits)
    IN  /\ config.visibility = "INFLIGHT_DEDUP_WAIT" => WaitedFor(e) = {}
        /\ nodes' = [nodes EXCEPT ![n] =
              [node EXCEPT
                 !.cache = LookedUp(@, Prefix(r), Capacity),
                 !.queue = RemoveAt(@, Item(n, r)),
                 !.active = @ + 1,
                 !.waiterPins = IF HasWaited(e) THEN @ \ ToSet(Prefix(r)) ELSE @,
                 !.activePins = [b \in Block |->
                                   IF b \in HitSet(r, hits) THEN @[b] + 1 ELSE @[b]],
                 !.inflight = [b \in Block |->
                                 IF b \in MissSet(r, hits) /\ @[b] = None
                                 THEN finish ELSE @[b]]]]
        /\ events' = (events \ {e}) \cup
              {[StartEvent(finish, sequence, r) EXCEPT !.kind = "finish", !.hits = hits]}
        /\ sequence' = sequence + 1
        /\ UNCHANGED decisions

Start(e) ==
    /\ e.kind = "start"
    /\ Due(e)
    /\ clock' = e.time
    /\ Wait(e) \/ Run(e)
    /\ UNCHANGED <<config, requests, observed, history, residentThen>>

-----------------------------------------------------------------------------
\* Finishes.

\* Variant: a running request's hits are not pinned.
PinnedByWaiters(node) == node.waiterPins

Pinned(node) == {b \in Block : node.activePins[b] > 0} \cup node.waiterPins

Unpinned(pins, r, hits) ==
    [b \in Block |-> IF b \in HitSet(r, hits) THEN pins[b] - 1 ELSE pins[b]]

\* The request's own inflight entries: those that carry its finish time.
Landed(inflight, e) ==
    [b \in Block |-> IF b \in MissSet(e.req, e.hits) /\ inflight[b] = e.time
                     THEN None ELSE inflight[b]]

\* Variant: a request that computed nothing keeps its slot.
SlotFreedIfComputed(active, e) ==
    IF MissSet(e.req, e.hits) = {} THEN active ELSE active - 1

SlotFreed(active, e) == active - 1

\* The blocks are placed under the pins of every running and waiting request,
\* then the request gives up its own, its slot and its inflight entries.
Finish(e) ==
    /\ e.kind = "finish"
    /\ Due(e)
    /\ clock' = e.time
    /\ LET n == requests[e.req].node IN
       \E cache \in {Placed(nodes[n].cache, Prefix(e.req), Pinned(nodes[n]), Capacity)} :
          LET node == [nodes[n] EXCEPT
                         !.cache = cache,
                         !.active = SlotFreed(@, e),
                         !.activePins = Unpinned(@, e.req, e.hits),
                         !.inflight = Landed(@, e)]
          IN  /\ nodes' = [nodes EXCEPT ![n] = Rescheduled(node)]
              /\ events' = (events \ {e}) \cup NewStarts(node, e.time, sequence)
              /\ sequence' = sequence + Cardinality(ToSchedule(node))
              /\ history' = HistoryAfter(n, cache.resident)
    /\ decisions' = decisions \cup {e.req}
    /\ UNCHANGED <<config, requests, observed, residentThen>>

PopEvent == \E e \in events : Start(e) \/ Finish(e)

Next ==
    \/ \E time \in 0..MaxArrival, prefix \in PrefixChains, n \in Nodes :
          Arrive(time, prefix, n) \/ ReplayAtArrival(time, prefix, n)
    \/ PopEvent

\* The loop pops events until none is left; what arrives is up to the trace.
Spec == Init /\ [][Next]_vars /\ WF_vars(PopEvent)
-----------------------------------------------------------------------------
\* Properties.

Starts(n) == {e \in events : e.kind = "start" /\ requests[e.req].node = n}
Running(n) == {e \in events : e.kind = "finish" /\ requests[e.req].node = n}

NodeState == [cache: Cache, queue: Seq([req: 1..MaxRequests, scheduled: BOOLEAN]),
              active: Nat, activePins: [Block -> Nat], waiterPins: SUBSET Block,
              inflight: [Block -> Nat \cup {None}]]

\* Every variable stays in the set of values the code gives it; pin counts
\* and running counts never go below zero.
TypeOK ==
    /\ config \in Configs
    /\ clock \in Nat
    /\ requests \in Seq([prefix: PrefixChains, node: Nodes])
    /\ nodes \in [Nodes -> NodeState]
    /\ events \subseteq Event
    /\ sequence \in Nat
    /\ decisions \subseteq 1..MaxRequests
    /\ observed \in Nat \cup {None}
    /\ residentThen \in [Nodes -> SUBSET Block]

\* A running request never loses a block it was counted to hit, whatever the
\* other requests of its node place before it finishes
\* ("pinned blocks are never evicted", DESIGN-v3 section 3.3).
RunningHitsResident ==
    \A n \in Nodes : \A e \in Running(n) : HitSet(e.req, e.hits) \subseteq Resident(n)

\* Pins and inflight entries belong to somebody: an active pin is counted once
\* per running request that hit the block, a waiter's pin stands for a waiting
\* request, and an inflight entry for a running request that computes it.
NothingLeaks ==
    \A n \in Nodes, b \in Block :
        /\ nodes[n].activePins[b] =
              Cardinality({e \in Running(n) : b \in HitSet(e.req, e.hits)})
        /\ b \in nodes[n].waiterPins => \E e \in Starts(n) : b \in e.waited
        /\ nodes[n].inflight[b] # None =>
              \E e \in Running(n) : /\ b \in MissSet(e.req, e.hits)
                                    /\ e.time = nodes[n].inflight[b]

\* A node runs and promises no more requests than it has slots, leaves no slot
\* idle while a request queues, and every queued request that was promised a
\* slot has exactly one start ahead of it.
SlotsFilledExactly ==
    \A n \in Nodes :
        LET node == nodes[n]
            busy == node.active + Cardinality(ScheduledItems(node))
        IN  /\ node.active = Cardinality(Running(n))
            /\ busy <= config.concurrency
            /\ busy < config.concurrency => busy = node.active + Len(node.queue)
            /\ \A i \in 1..Len(node.queue) :
                  Cardinality({e \in Starts(n) : e.req = node.queue[i].req})
                     = (IF node.queue[i].scheduled THEN 1 ELSE 0)

\* With dedup no node computes a block twice at the same time
\* (test_inflight_dedup_waits_for_producer_instead_of_duplicate_compute).
NoDuplicateCompute ==
    config.visibility = "INFLIGHT_DEDUP_WAIT" =>
        \A n \in Nodes : \A e, f \in Running(n) :
            e # f => MissSet(e.req, e.hits) \cap MissSet(f.req, f.hits) = {}

\* What a node believes of its blocks is what its running and waiting requests
\* make of them: no block that one of them was counted to hit is evicted, and
\* none is computed by two of them.
PinsMatchRequests ==
    TypeOK /\ RunningHitsResident /\ NothingLeaks /\ NoDuplicateCompute

\* The cache never exceeds its capacity, and the policy's own lists hold every
\* resident block once and nothing else, so a full cache with an unpinned
\* block always finds a victim.
PolicyTracksResidents ==
    \A n \in Nodes :
        LET c == nodes[n].cache
        IN  /\ Cardinality(c.resident) <= CacheBlocks
            /\ ToSet(c.order \o c.protected) = c.resident
            /\ Len(c.order \o c.protected) = Cardinality(c.resident)

\* What a delayed view reads off the residency history is what the cache held
\* when the view was taken, whatever was placed and evicted since
\* (test_delayed_view_uses_historical_cache_residency).
DelayedViewReadsThePast ==
    observed # None =>
        \A n \in Nodes, prefix \in PrefixChains :
            HitsInHistory(n, prefix, observed) = HitBlocks(residentThen[n], prefix)

\* The replay drains: every request that arrived completes.  Requests that
\* wait for one another's blocks neither deadlock nor wait for ever.
ReplayDrains == []<>(decisions = 1..Len(requests))

\* What the code and its documents disagree on.

\* "inflight / pinned blocks may not be evicted" (DESIGN-v3.md:376): a block a
\* request pinned while it waits is not evicted before that request starts.
WaiterPinsHold ==
    [][\A n \in Nodes : \A e \in Starts(n) \cap events' :
          e.waited \cap (Resident(n) \ nodes'[n].cache.resident) = {}]_vars
=============================================================================
