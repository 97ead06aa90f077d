---------------------------- MODULE CausalKernel ----------------------------
(***************************************************************************)
(* The discrete-event kernel of the M12 experiments (m12_kernel.py,        *)
(* CausalKernel.run): a heap of events over a pool of prefill nodes with   *)
(* caches and a pool of decode nodes.  A policy plans every attempt; what  *)
(* it decides in its hooks is an argument of the action that calls the     *)
(* hook, chosen freely here and by DecodeCapacity where that policy runs.  *)
(* Time is counted in units of the work of one decoded token.              *)
(***************************************************************************)
EXTENDS Integers, SequencesExt

CONSTANTS
    PNodes, DNodes,     \* prefill_node_ids, decode_node_ids
    Key,                \* prefix cache keys
    KeyTokens,          \* prefix_token_sizes, by key
    Workloads,          \* the workloads the kernel may be run on
    Plans,              \* what a policy may plan, by request
    PrefillCost,        \* prefill_work_per_token
    KvsCost,            \* kvs_work_per_token
    CacheEntries,       \* cache_capacity_entries of a prefill node
    RetryBudget,        \* retry_budget
    End,                \* observation_end_work; the window starts at 0
    LeaseTokens         \* how many tokens a policy's decode lease covers

Request == [arrival: Nat, prefix: Seq(Key), output: Nat]

\* missing: the tokens of the true output a failing attempt does not emit;
\* fence: until when the policy holds the decode back.
Plan == [p: PNodes, d: DNodes, delay: Nat, claims: SUBSET Key,
         fails: BOOLEAN, missing: Nat, reusable: BOOLEAN, fence: Nat]

ASSUME KernelAssumption ==
    /\ KeyTokens \in [Key -> Nat \ {0}]
    /\ PrefillCost \in Nat /\ KvsCost \in Nat
    /\ CacheEntries \in Nat \ {0} /\ RetryBudget \in Nat /\ End \in Nat \ {0}
    /\ LeaseTokens \in Nat \ {0}
    /\ Plans \in Seq(SUBSET Plan)
    /\ \A w \in Workloads :
          /\ w \in Seq(Request)
          /\ Len(w) = Len(Plans)
          /\ \A i \in DOMAIN w : \A plan \in Plans[i] :
                /\ plan.missing <= w[i].output
                /\ ~plan.fails => plan.missing = 0
          /\ \A i, j \in DOMAIN w : i <= j => w[i].arrival <= w[j].arrival
          /\ \A i \in DOMAIN w : w[i].arrival < End

VARIABLES
    workload,           \* the requests, in order of arrival
    now,                \* time of the event processed last
    queue,              \* the event heap
    serial,             \* tie breaker of the next event
    attempts,           \* planned and pending, by <<request, attempt index>>
    cache,              \* keys each prefill node holds
    busy,               \* p_busy
    waiting,            \* p_waiting
    queuedWork,         \* queued_work
    dAvailable,         \* d_available
    done                \* history variable: the attempts whose completion was processed

kernelVars == <<workload, now, queue, serial, attempts, cache, busy, waiting,
                queuedWork, dAvailable, done>>

None == -1

-----------------------------------------------------------------------------
\* Helpers.

Tokens(keys) == SumFunctionOnSet(KeyTokens, keys)

PrefixOf(a) == workload[a[1]].prefix

\* Before the attempt starts nothing of it is priced.  A planned attempt is
\* one that is not ready yet; fence is a history variable: the answer its
\* policy gave last.
Attempt(a, plan) ==
    [plan |-> plan, emitted |-> workload[a[1]].output - plan.missing,
     terminal |-> IF plan.fails THEN "FAILED" ELSE "COMPLETED",
     ready |-> None, prefillStart |-> None, prefillFinish |-> None,
     prefillWork |-> 0, kvsWork |-> 0, decodeStart |-> None, finish |-> None,
     fence |-> None]

Event(kind, at, seq, a) == [kind |-> kind, at |-> at, seq |-> seq, attempt |-> a]

Priority(kind) ==
    CASE kind = "COMPLETION"     -> 0
      [] kind = "LEASE_BOUNDARY" -> 1
      [] kind = "PREFILL_FINISH" -> 2
      [] kind = "DECODE_START"   -> 3
      [] kind = "ATTEMPT_READY"  -> 4
      [] kind = "PREFILL_START"  -> 5
      [] kind = "ARRIVAL"        -> 6

Before(e, f) ==
    \/ e.at < f.at
    \/ e.at = f.at /\ Priority(e.kind) < Priority(f.kind)
    \/ e.at = f.at /\ Priority(e.kind) = Priority(f.kind) /\ e.seq < f.seq

\* heappop of an event of this kind inside the observation window.
Pops(e, kind) ==
    /\ e.kind = kind
    /\ e.at <= End
    /\ \A f \in queue \ {e} : Before(e, f)
    /\ now' = e.at

Init ==
    /\ workload \in Workloads
    /\ now = 0
    /\ queue = {Event("ARRIVAL", workload[r].arrival, r - 1, <<r, 0>>) : r \in DOMAIN workload}
    /\ serial = Len(workload)
    /\ attempts = <<>>
    /\ cache = [n \in PNodes |-> {}]
    /\ busy = [n \in PNodes |-> FALSE]
    /\ waiting = [n \in PNodes |-> {}]
    /\ queuedWork = [n \in PNodes |-> 0]
    /\ dAvailable = [n \in DNodes |-> 0]
    /\ done = {}

\* The heap order of p_waiting.
First(entries) ==
    CHOOSE w \in entries : \A v \in entries \ {w} :
        w.at < v.at \/ (w.at = v.at /\ w.seq < v.seq)

\* _maximum_prefill_work: as if nothing were cached.
MaximumPrefillWork(a) == PrefillCost * Tokens(ToSet(PrefixOf(a)))

\* The attempt is recorded and becomes ready at the time it was planned for.
Issue(a, plan, others) ==
    LET at == now' + plan.delay
    IN  /\ a \notin DOMAIN attempts
        /\ attempts' = [b \in DOMAIN attempts \cup {a} |->
                          IF b = a THEN Attempt(a, plan) ELSE attempts[b]]
        /\ queue' = others \cup {Event("ATTEMPT_READY", at, serial, a)}
        /\ serial' = serial + 1

-----------------------------------------------------------------------------
\* Arrival and prefill.

\* The policy plans at most one attempt; without one the request is dropped.
Arrival(e, plans) ==
    /\ Pops(e, "ARRIVAL")
    /\ IF plans = <<>>
       THEN queue' = queue \ {e} /\ UNCHANGED <<attempts, serial>>
       ELSE Issue(e.attempt, plans[1], queue \ {e})
    /\ UNCHANGED <<workload, cache, busy, waiting, queuedWork, dAvailable, done>>

AttemptReady(e) ==
    LET a     == e.attempt
        p     == attempts[a].plan.p
        line  == waiting[p] \cup {[at |-> e.at, seq |-> serial, attempt |-> a]}
        start == Event("PREFILL_START", e.at, serial, First(line).attempt)
    IN  /\ Pops(e, "ATTEMPT_READY")
        /\ attempts' = [attempts EXCEPT ![a].ready = e.at]
        /\ queuedWork' = [queuedWork EXCEPT ![p] = @ + MaximumPrefillWork(a)]
        /\ waiting' = [waiting EXCEPT ![p] = IF busy[p] THEN line ELSE line \ {First(line)}]
        /\ queue' = (queue \ {e}) \cup (IF busy[p] THEN {} ELSE {start})
        /\ busy' = [busy EXCEPT ![p] = TRUE]
        /\ serial' = serial + 1
        /\ UNCHANGED <<workload, cache, dAvailable, done>>

\* The keys a prefix begins with as far as they are all held.
Leading(prefix, held) ==
    LET misses == {i \in DOMAIN prefix : prefix[i] \notin held}
    IN  ToSet(IF misses = {} THEN prefix ELSE SubSeq(prefix, 1, Min(misses) - 1))

\* _price_prefill: the leading keys that are here, or claimed and elsewhere.
Covered(a) ==
    LET p       == attempts[a].plan.p
        claimed == attempts[a].plan.claims \cap UNION {cache[n] : n \in PNodes \ {p}}
    IN  Leading(PrefixOf(a), cache[p] \cup claimed)

\* Variant: what the started attempt was priced at is taken off the proxy.
QueuedLessStarted(p, a) == queuedWork[p] - PrefillCost * Tokens(ToSet(PrefixOf(a)) \ Covered(a))

\* _remaining_queue_work: summed anew over the attempts that wait.
StillQueued(p, a) == SumFunction([w \in waiting[p] |-> MaximumPrefillWork(w.attempt)])

PrefillStart(e) ==
    LET a    == e.attempt
        p    == attempts[a].plan.p
        work == PrefillCost * Tokens(ToSet(PrefixOf(a)) \ Covered(a))
        kvs  == KvsCost * Tokens(Covered(a) \ cache[p])
    IN  /\ Pops(e, "PREFILL_START")
        /\ attempts' = [attempts EXCEPT ![a] =
              [@ EXCEPT !.prefillStart = e.at, !.prefillWork = work, !.kvsWork = kvs,
                        !.prefillFinish = e.at + work + kvs]]
        /\ queuedWork' = [queuedWork EXCEPT ![p] = StillQueued(p, a)]
        /\ queue' = (queue \ {e}) \cup {Event("PREFILL_FINISH", e.at + work + kvs, serial, a)}
        /\ serial' = serial + 1
        /\ UNCHANGED <<workload, cache, busy, waiting, dAvailable, done>>

-----------------------------------------------------------------------------
\* Decode.

\* The decode of a runs from now on; its lease or its completion comes next.
Decodes(a, fence, lease, others, seq) ==
    LET finish == now' + attempts[a].emitted
        next   == IF lease = None THEN Event("COMPLETION", finish, seq, a)
                  ELSE Event("LEASE_BOUNDARY", now' + lease, seq, a)
    IN  /\ lease # None => 0 < lease /\ lease < attempts[a].emitted
        /\ attempts' = [attempts EXCEPT ![a] =
              [@ EXCEPT !.decodeStart = now', !.finish = finish, !.fence = fence]]
        /\ dAvailable' = [dAvailable EXCEPT ![attempts[a].plan.d] = finish]
        /\ queue' = others \cup {next}

\* The decode of a is looked at again when its node is free and its fence open.
Gated(a, fence, others, seq) ==
    /\ attempts' = [attempts EXCEPT ![a].fence = fence]
    /\ queue' = others \cup
          {Event("DECODE_START", Max({now', dAvailable[attempts[a].plan.d], fence}), seq, a)}
    /\ UNCHANGED dAvailable

\* Variant: a decode node may be shared.
AdmissibleAnyNode(a, fence) == fence <= now'

\* d_start is now: the node is free and the fence does not hold.
Admissible(a, fence) == dAvailable[attempts[a].plan.d] <= now' /\ fence <= now'

\* Variant: the node is not handed on.
NotHandedOn(p) == {}

\* The attempt a prefill node turns to when it is done with one.
NextInLine(p) == IF waiting[p] = {} THEN {} ELSE {First(waiting[p])}

\* The prefill node takes its next attempt; the one it finished decodes, or
\* waits for its decode node or its policy.
PrefillFinish(e, fence, lease) ==
    LET a      == e.attempt
        p      == attempts[a].plan.p
        next   == NextInLine(p)
        starts == {Event("PREFILL_START", Max({e.at, w.at}), serial, w.attempt) : w \in next}
        seq    == serial + Cardinality(starts)
        others == (queue \ {e}) \cup starts
    IN  /\ Pops(e, "PREFILL_FINISH")
        /\ fence >= e.at
        /\ busy' = [busy EXCEPT ![p] = next # {}]
        /\ waiting' = [waiting EXCEPT ![p] = @ \ next]
        /\ IF Admissible(a, fence) THEN Decodes(a, fence, lease, others, seq)
                                   ELSE Gated(a, fence, others, seq)
        /\ serial' = seq + 1
        /\ UNCHANGED <<workload, cache, queuedWork, done>>

\* Variant: a wake-up is never taken for stale.
NeverStale(a) == FALSE

Stale(a) == attempts[a].decodeStart # None

\* A wake-up that outlived its attempt's start is dropped.
StaleDecodeStart(e) ==
    /\ Pops(e, "DECODE_START")
    /\ Stale(e.attempt)
    /\ queue' = queue \ {e}
    /\ UNCHANGED <<workload, serial, attempts, cache, busy, waiting, queuedWork,
                   dAvailable, done>>

DecodeStart(e, fence, lease) ==
    /\ Pops(e, "DECODE_START")
    /\ ~Stale(e.attempt)
    /\ IF Admissible(e.attempt, fence)
       THEN Decodes(e.attempt, fence, lease, queue \ {e}, serial)
       ELSE Gated(e.attempt, fence, queue \ {e}, serial)
    /\ serial' = serial + 1
    /\ UNCHANGED <<workload, cache, busy, waiting, queuedWork, done>>

\* Variant: an abort wakes nobody.
NobodyGatedOn(d, time) == {}

\* The attempts that sleep past this time to decode on node d.
GatedOn(d, time) ==
    {a \in DOMAIN attempts :
        /\ attempts[a].plan.d = d
        /\ attempts[a].decodeStart = None
        /\ \E e \in queue : e.kind = "DECODE_START" /\ e.attempt = a /\ e.at > time}

LexBefore(a, b) == a[1] < b[1] \/ (a[1] = b[1] /\ a[2] < b[2])

\* The policy reprices the decode: it goes on to its full output, or it is
\* aborted with what it emitted and everybody gated on its node is woken.
LeaseBoundary(e, aborts) ==
    LET a      == e.attempt
        d      == attempts[a].plan.d
        woken  == GatedOn(d, e.at)
        wakes  == {Event("DECODE_START", e.at,
                         serial + Cardinality({c \in woken : LexBefore(c, b)}), b) : b \in woken}
        others == queue \ {e}
    IN  /\ Pops(e, "LEASE_BOUNDARY")
        /\ IF aborts
           THEN /\ attempts' = [attempts EXCEPT ![a] =
                      [@ EXCEPT !.emitted = e.at - attempts[a].decodeStart, !.terminal = "ABORTED", !.finish = e.at]]
                /\ dAvailable' = [dAvailable EXCEPT ![d] = e.at]
                /\ queue' = others \cup wakes
                      \cup {Event("COMPLETION", e.at, serial + Cardinality(woken), a)}
                /\ serial' = serial + Cardinality(woken) + 1
           ELSE /\ queue' = others \cup {Event("COMPLETION", attempts[a].finish, serial, a)}
                /\ serial' = serial + 1
                /\ UNCHANGED <<attempts, dAvailable>>
        /\ UNCHANGED <<workload, cache, busy, waiting, queuedWork, done>>

-----------------------------------------------------------------------------
\* Completion.

\* Variant: whatever failed is published.
PublishesAlways(a) == TRUE

Publishes(a) == attempts[a].terminal = "COMPLETED" \/ attempts[a].plan.reusable

\* _apply_cache_mutation, for a mutation the kernel accepts.
Mutated(a, admit, evict) ==
    (cache[attempts[a].plan.p] \ evict) \cup (IF admit THEN ToSet(PrefixOf(a)) ELSE {})

Accepts(a, admit, evict) ==
    /\ evict \subseteq cache[attempts[a].plan.p]
    /\ admit => Cardinality(Mutated(a, admit, evict)) <= CacheEntries

Retries(a) == attempts[a].terminal # "COMPLETED"

\* The policy settles the attempt, changes the cache and may retry a failure.
Completion(e, admit, evict, plans) ==
    LET a     == e.attempt
        p     == attempts[a].plan.p
        retry == <<a[1], a[2] + 1>>
    IN  /\ Pops(e, "COMPLETION")
        /\ IF Publishes(a)
           THEN Accepts(a, admit, evict) /\ cache' = [cache EXCEPT ![p] = Mutated(a, admit, evict)]
           ELSE UNCHANGED cache
        /\ done' = done \cup {a}
        /\ IF plans = <<>>
           THEN queue' = queue \ {e} /\ UNCHANGED <<attempts, serial>>
           ELSE /\ Retries(a)
                /\ a[2] < RetryBudget
                /\ Issue(retry, plans[1], queue \ {e})
        /\ UNCHANGED <<workload, busy, waiting, queuedWork, dAvailable>>

-----------------------------------------------------------------------------
\* The kernel under any policy.

\* A policy that leases every decode longer than its lease.
Lease(a) == IF LeaseTokens < attempts[a].emitted THEN LeaseTokens ELSE None

\* What a policy may plan for request r: nothing, or one attempt.
Offers(r) == {<<>>} \cup {<<plan>> : plan \in Plans[r]}

KernelStep(e) ==
    \/ \E plans \in Offers(e.attempt[1]) : Arrival(e, plans)
    \/ AttemptReady(e)
    \/ PrefillStart(e)
    \/ /\ e.kind \in {"PREFILL_FINISH", "DECODE_START"}
       /\ LET fence == Max({e.at, attempts[e.attempt].plan.fence})
          IN  \/ PrefillFinish(e, fence, Lease(e.attempt))
              \/ DecodeStart(e, fence, Lease(e.attempt))
    \/ StaleDecodeStart(e)
    \/ \E aborts \in BOOLEAN : LeaseBoundary(e, aborts)
    \/ /\ e.kind = "COMPLETION"
       /\ \E admit \in BOOLEAN, evict \in SUBSET cache[attempts[e.attempt].plan.p],
             plans \in Offers(e.attempt[1]) : Completion(e, admit, evict, plans)

KernelNext == \E e \in queue : KernelStep(e)

\* run pops events until the heap is empty or past the window.
KernelSpec == Init /\ [][KernelNext]_kernelVars /\ WF_kernelVars(KernelNext)

-----------------------------------------------------------------------------
\* Properties.

Started(a) == attempts[a].decodeStart # None
Pending == {a \in DOMAIN attempts : attempts[a].ready # None}
EventsOf(a) == {e \in queue : e.attempt = a /\ e.kind # "ARRIVAL"}
WaitingFor(p) == {w.attempt : w \in waiting[p]}

AttemptRecord ==
    [plan: Plan, emitted: Nat,
     terminal: {"COMPLETED", "FAILED", "ABORTED"}, ready: Nat \cup {None},
     prefillStart: Nat \cup {None}, prefillFinish: Nat \cup {None},
     prefillWork: Nat, kvsWork: Nat, decodeStart: Nat \cup {None},
     finish: Nat \cup {None}, fence: Nat \cup {None}]

Kinds == {"COMPLETION", "LEASE_BOUNDARY", "PREFILL_FINISH", "DECODE_START",
          "ATTEMPT_READY", "PREFILL_START", "ARRIVAL"}

AttemptKey == (1..Len(workload)) \X (0..RetryBudget)

\* Every variable stays in the set of values the code gives it, and a node's
\* cache within its capacity.
KernelTypeOK ==
    /\ workload \in Workloads
    /\ now \in 0..End
    /\ queue \subseteq [kind: Kinds, at: Nat, seq: Nat, attempt: AttemptKey]
    /\ serial \in Nat
    /\ DOMAIN attempts \subseteq AttemptKey
    /\ \A a \in DOMAIN attempts : attempts[a] \in AttemptRecord
    /\ cache \in [PNodes -> SUBSET Key]
    /\ \A p \in PNodes : Cardinality(cache[p]) <= CacheEntries
    /\ busy \in [PNodes -> BOOLEAN]
    /\ waiting \in [PNodes -> SUBSET [at: Nat, seq: Nat, attempt: AttemptKey]]
    /\ queuedWork \in [PNodes -> Nat]
    /\ dAvailable \in [DNodes -> Nat]
    /\ done \subseteq DOMAIN attempts

\* Two attempts never use one decode node at the same time, aborted ones
\* counted for as long as they ran
\* (test_three_future_gated_attempts_on_one_d_node_never_overlap).
DecodesNeverOverlap ==
    \A a, b \in DOMAIN attempts :
        (a # b /\ Started(a) /\ Started(b) /\ attempts[a].plan.d = attempts[b].plan.d) =>
            \/ attempts[a].finish <= attempts[b].decodeStart
            \/ attempts[b].finish <= attempts[a].decodeStart

\* A prefill node runs one attempt at a time, in the order they became ready,
\* and is never idle while one waits.
PrefillInOrder ==
    \A p \in PNodes :
        LET here == {a \in Pending : attempts[a].plan.p = p}
            ran  == {a \in here : attempts[a].prefillStart # None}
            held == {a \in here : \E e \in EventsOf(a) :
                                     e.kind \in {"PREFILL_START", "PREFILL_FINISH"}}
        IN  /\ Cardinality(held) = (IF busy[p] THEN 1 ELSE 0)
            /\ ~busy[p] => waiting[p] = {}
            /\ \A a, b \in ran : a # b => \/ attempts[a].prefillFinish <= attempts[b].prefillStart
                                         \/ attempts[b].prefillFinish <= attempts[a].prefillStart
            /\ \A a \in ran, b \in here :
                  attempts[b].ready < attempts[a].ready =>
                      b \in ran /\ attempts[b].prefillStart <= attempts[a].prefillStart

\* A node of either kind runs one attempt at a time, and serves them in order.
NodesRunOneAtATime == DecodesNeverOverlap /\ PrefillInOrder

\* An attempt that has not completed has exactly one thing ahead of it: it
\* waits for its prefill node, or one event carries it on.  Wake-ups of a
\* gated decode count as one; those that outlive its start count for nothing.
OneFuturePerAttempt ==
    \A a \in DOMAIN attempts :
        LET wakes == {e \in EventsOf(a) : e.kind = "DECODE_START"}
            next  == EventsOf(a) \ wakes
            gated == IF wakes # {} /\ ~Started(a) THEN 1 ELSE 0
            lined == IF a \in WaitingFor(attempts[a].plan.p) THEN 1 ELSE 0
        IN  Cardinality(next) + gated + lined = (IF a \in done THEN 0 ELSE 1)

\* The queue proxy a policy sees is the work of the attempts that are ready
\* and have not started, at every moment of a tie
\* (test_same_time_later_arrival_observes_kernel_owned_p_queue_work).
QueueProxyExact ==
    \A p \in PNodes :
        LET queued == {a \in Pending : attempts[a].plan.p = p /\ attempts[a].prefillStart = None}
        IN  queuedWork[p] = SumFunction([a \in queued |-> MaximumPrefillWork(a)])

\* No hit on work that was not finished and published before the prefill
\* started (test_future_completion_is_not_visible_and_placement_occurs_only_then).
HitsComeFromPublishedWork ==
    \A a \in DOMAIN attempts :
        (attempts[a].prefillStart # None /\ attempts[a].prefillWork < MaximumPrefillWork(a)) =>
            \E b \in done \ {a} :
                /\ attempts[b].finish <= attempts[a].prefillStart
                /\ attempts[b].terminal = "COMPLETED" \/ attempts[b].plan.reusable
                /\ PrefixOf(a)[1] \in ToSet(PrefixOf(b))

\* A request has one attempt under way at a time, none after one completed,
\* and so at most one winner, whatever the retries
\* (test_retries_charge_all_work_but_get_useful_credit_once).
OneAttemptAtATime ==
    \A a, b \in DOMAIN attempts :
        (a[1] = b[1] /\ a[2] < b[2]) => a \in done /\ attempts[a].terminal # "COMPLETED"

\* Every request goes forward on exactly one path, until it is done.
AttemptsAdvance == KernelTypeOK /\ OneFuturePerAttempt /\ OneAttemptAtATime

\* A gated decode is looked at again no later than its node is free and the
\* fence it was given opens, also when an abort frees the node early
\* (test_early_abort_wakes_d_waiter_from_stale_future_start).
NobodyOversleeps ==
    \A a \in DOMAIN attempts :
        (~Started(a) /\ \E e \in EventsOf(a) : e.kind = "DECODE_START") =>
            \E e \in EventsOf(a) :
                e.at <= Max({now, dAvailable[attempts[a].plan.d], attempts[a].fence})

Stopped == \A e \in queue : e.at > End

\* The run ends: every attempt completed, or the window closed on what is left
\* of them; no attempt is forgotten at a node.
RunEnds == <>[](Stopped /\ (queue = {} => done = DOMAIN attempts))

\* What the code and its tests disagree on.

\* "issued GPU work exceeds normalized pool capacity" (m12_metrics.py:407) is
\* never raised on what the kernel hands over: the decode work charged to the
\* attempts of a run fits its decode nodes and its window.
IssuedWorkFits ==
    Stopped => SumFunction([a \in Pending |-> attempts[a].emitted])
                  <= End * Cardinality(DNodes)
=============================================================================
