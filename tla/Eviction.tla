------------------------------- MODULE Eviction -------------------------------
(***************************************************************************)
(* The cache side of an M12 run with bounded caches: the policy that       *)
(* proposes evictions (M12EvictionPolicy, least recently used or by        *)
(* census), the census of who holds what, possibly visible only after a    *)
(* delay, the digest ledger that the final grid keeps beside it, and the   *)
(* kernel, which has the last word on every proposal.                      *)
(*                                                                         *)
(* A request is planned once, on a node the placement picks, and finishes  *)
(* at some later moment: requests of a node finish in any order, because   *)
(* decode follows.  The policy, the census and the ledger keep their books *)
(* when a mutation is proposed; the kernel drops the proposals of attempts *)
(* that failed without reusable prefill, and refuses by an exception,      *)
(* which ends the run.                                                     *)
(***************************************************************************)
EXTENDS Integers, FiniteSets, SequencesExt

CONSTANTS
    Nodes,          \* prefill nodes, natural numbers: they have an order
    Keys,           \* cache keys, a set of integers: sorted() orders them
    Requests,       \* the workload
    Arrival,        \* request |-> when it arrives
    Prefix,         \* request |-> its prefix cache keys, in order
    Capacity,       \* KernelConfig.cache_capacity_entries
    Modes,          \* the eviction modes of the runs considered
    MaxEntries,     \* CensusConfig.max_entries
    MaxStaleness,   \* CensusConfig.max_staleness_work
    RefreshWork,    \* M12EvictionConfig.census_refresh_work
    DelayWork,      \* _DelayedCensus.delay_work, 0 for the plain census
    HistoryLimit,   \* PastOnlyReuseEstimator.history_limit
    DecayWindow,    \* PastOnlyReuseEstimator.decay_window_work
    MaxWork         \* bound on the clock

ASSUME BoundsAssumption ==
    /\ Nodes \subseteq Nat /\ IsFiniteSet(Nodes) /\ Keys \subseteq Int
    /\ Modes \subseteq {"LRU", "CENSUS_REGRET"}
    /\ {Capacity, MaxEntries, RefreshWork, DecayWindow} \subseteq Nat \ {0}
    /\ {MaxStaleness, DelayWork, MaxWork} \subseteq Nat
    /\ Arrival \in [Requests -> 0..MaxWork]
    /\ HistoryLimit \in Nat \ {0, 1}

\* No prefix is longer than a cache, and none names a key twice.
ASSUME PrefixAssumption ==
    \A r \in Requests : /\ Prefix[r] \in Seq(Keys)
                        /\ Len(Prefix[r]) <= Capacity
                        /\ IsInjective(Prefix[r])

VARIABLES
    mode,           \* config.mode
    now,            \* the kernel's clock
    attempt,        \* request |-> [state, node]
    cache,          \* node |-> the keys resident, as the kernel knows them
    lru,            \* node |-> the policy's order, least recent first
    census,         \* _entries: a sequence of [key, holders, at]
    pending,        \* observations not visible yet: [visible, at, key, holder]
    history,        \* reuse._history: key |-> the times it was referenced
    refreshed,      \* _last_census_refresh
    digest,         \* node |-> [count, keys]: the digest ledger
    dropped,        \* the kernel has dropped a proposal
    failed          \* the exception that ended the run

vars == <<mode, now, attempt, cache, lru, census, pending, history, refreshed,
          digest, dropped, failed>>

Never == -(MaxWork + RefreshWork)          \* -math.inf
NoNode == -1

\* The members of s that are in S, in their order.
Kept(s, S) == FlattenSeq([i \in DOMAIN s |-> IF s[i] \in S THEN <<s[i]>> ELSE <<>>])

\* A finite set of keys, the cheapest first and equals by their value.
Arranged(S, cost) ==
    CHOOSE s \in [1..Cardinality(S) -> S] :
        /\ ToSet(s) = S
        /\ \A i, j \in DOMAIN s :
              i < j => \/ cost[s[i]] < cost[s[j]]
                       \/ cost[s[i]] = cost[s[j]] /\ s[i] < s[j]
Sorted(S) == Arranged(S, [k \in S |-> 0])

\* No more than the newest members of s, which is appended to.
Newest(s, limit) == IF Len(s) <= limit THEN s ELSE SubSeq(s, Len(s) - limit + 1, Len(s))

Init ==
    /\ mode \in Modes
    /\ now = 0
    /\ attempt = [r \in Requests |-> [state |-> "offered", node |-> NoNode]]
    /\ cache = [n \in Nodes |-> {}]
    /\ lru = [n \in Nodes |-> <<>>]
    /\ census = <<>>
    /\ pending = <<>>
    /\ history = [k \in Keys |-> <<>>]
    /\ refreshed = Never
    /\ digest = [n \in Nodes |-> [count |-> 0, keys |-> {}]]
    /\ dropped = FALSE
    /\ failed = "no"
-----------------------------------------------------------------------------
\* The census.

\* ClusterCacheCensus.observe: the holder joins the entry, which becomes the
\* newest one; the oldest entries leave when there are too many.
Observe(entries, obs) ==
    LET old     == {e \in ToSet(entries) : e.key = obs.key}
        holders == {obs.holder} \cup UNION {e.holders : e \in old}
    IN  Newest(Append(Kept(entries, ToSet(entries) \ old),
                      [key |-> obs.key, at |-> obs.at, holders |-> holders]),
               MaxEntries)

\* One observation after the other.
Observed(entries, obs) ==
    LET upto[i \in 0..Len(obs)] == IF i = 0 THEN entries ELSE Observe(upto[i - 1], obs[i])
    IN  upto[Len(obs)]

\* ClusterCacheCensus.remove of the keys that leave node n: the holder leaves
\* the entry, and an entry nobody holds leaves the census.
Strikes(entries, gone, n) ==
    LET left == [i \in DOMAIN entries |->
                    IF entries[i].key \in gone
                    THEN [entries[i] EXCEPT !.holders = @ \ {n}] ELSE entries[i]]
    IN  Kept(left, {e \in ToSet(left) : e.holders # {}})

\* A removal that forgets what has not become visible yet.
StrikesPendingNothing(waiting, gone, n) == waiting

\* _DelayedCensus.remove drops what is pending of the holder as well.
StrikesPending(waiting, gone, n) ==
    Kept(waiting, {o \in ToSet(waiting) : ~(o.key \in gone /\ o.holder = n)})

\* What an observation of the keys ks on node n made now looks like.
Observations(ks, n) ==
    [i \in DOMAIN ks |-> [visible |-> now + DelayWork, at |-> now,
                          key |-> ks[i], holder |-> n]]

\* The plain census applies an observation at once, the delayed one queues it.
Note(entries, obs) ==
    IF DelayWork = 0 THEN Observed(entries, obs) ELSE entries

NotePending(waiting, obs) ==
    IF DelayWork = 0 THEN waiting ELSE waiting \o obs

\* _DelayedCensus._flush: what a lookup finds visible joins the census first.
Due == {o \in ToSet(pending) : o.visible <= now}
Flushed == Observed(census, Kept(pending, Due))
StillPending == Kept(pending, ToSet(pending) \ Due)

\* ClusterCacheCensus.lookup: the holders of an entry that is recent enough.
VisibleHolders(entries, k) ==
    UNION {e.holders : e \in {x \in ToSet(entries) :
              x.key = k /\ x.at <= now /\ now - x.at <= MaxStaleness}}
-----------------------------------------------------------------------------
\* PastOnlyReuseEstimator.

\* observe: the newest HistoryLimit references are kept.
Referenced(past) == Newest(Append(past, now), HistoryLimit)

\* estimate, in units of 1 / (HistoryLimit - 1).
Reuse(k) ==
    LET count == Cardinality({i \in DOMAIN history[k] : history[k][i] >= now - DecayWindow})
    IN  IF count < 2 THEN 0 ELSE Min({HistoryLimit, count}) - 1
-----------------------------------------------------------------------------
\* M12EvictionPolicy.

\* A candidate that counts the node itself among the other holders.
UniqueHotSelf(entries, k, n) == VisibleHolders(entries, k) = {} /\ Reuse(k) > 0

\* _candidate().unique_hot: no other node is known to hold a key that is
\* referenced again and again.
UniqueHot(entries, k, n) ==
    VisibleHolders(entries, k) \ {n} = {} /\ Reuse(k) > 0

\* choose_eviction_victims sorts by regret, then by key.  All keys have one
\* size, and the cheapest recovery is the tier's for every key, since every
\* holder is observed at that price and congestion only adds to it.
Regrets(entries, n) ==
    Arranged({k \in cache[n] : ~UniqueHot(entries, k, n)}, [k \in Keys |-> Reuse(k)])

\* The keys of the request that a node lacks, and the room they need.
Additions(r, n) == ToSet(Prefix[r]) \ cache[n]

Required(r, n) ==
    Max({0, Cardinality(cache[n]) + Cardinality(Additions(r, n)) - Capacity})

\* The keys of a node from which its victims are taken, best victim first.
Eligible(entries, n) ==
    IF mode = "LRU" THEN Kept(lru[n], cache[n])
                    ELSE Regrets(entries, n)

\* The order of a node after the keys ks are used: those it knows move last.
Touched(order, ks) ==
    Kept(order, ToSet(order) \ ToSet(ks)) \o Kept(ks, ToSet(order))

\* The order of a node to which the keys ks come: those it knows stay put.
Joined(order, ks) == order \o Kept(ks, ToSet(ks) \ ToSet(order))

\* The longest prefix of the request that is resident on node n.
Hits(r, n) ==
    LET miss == {i \in DOMAIN Prefix[r] : Prefix[r][i] \notin cache[n]}
    IN  SubSeq(Prefix[r], 1, IF miss = {} THEN Len(Prefix[r]) ELSE Min(miss) - 1)
-----------------------------------------------------------------------------
\* plan_attempts first refreshes the census from the view, if it is due: what
\* every node holds, node by node.
RefreshDue == now - refreshed >= RefreshWork

Snapshot == FlattenSeq([i \in 1..Cardinality(Nodes) |->
                           LET n == Sorted(Nodes)[i]
                           IN  Observations(Sorted(cache[n]), n)])

Refresh ==
    IF RefreshDue
    THEN /\ census' = Note(census, Snapshot)
         /\ pending' = NotePending(pending, Snapshot)
         /\ refreshed' = now
    ELSE UNCHANGED <<census, pending, refreshed>>

\* plan_attempts: the placement picks node n; the hits become recently used
\* there, and the hits and the first miss count as references.
Plan(r, n) ==
    /\ failed = "no"
    /\ attempt[r].state = "offered"
    /\ Arrival[r] = now
    /\ Refresh
    /\ LET hits == Hits(r, n)
           seen == ToSet(SubSeq(Prefix[r], 1, Min({Len(Prefix[r]), Len(hits) + 1})))
       IN  /\ lru' = [m \in Nodes |->
                         LET known == IF RefreshDue THEN Joined(lru[m], Sorted(cache[m]))
                                                    ELSE lru[m]
                         IN  IF m = n THEN Touched(known, hits) ELSE known]
           /\ history' = [k \in Keys |-> IF k \in seen THEN Referenced(history[k])
                                                       ELSE history[k]]
    /\ attempt' = [attempt EXCEPT ![r] = [state |-> "running", node |-> n]]
    /\ UNCHANGED <<mode, now, cache, digest, dropped, failed>>

\* The books after the victims leave node n and the additions come to it.
Propose(n, entries, waiting, victims, additions) ==
    LET obs == Observations(additions, n)
    IN  /\ lru' = [lru EXCEPT ![n] = Joined(Kept(@, ToSet(@) \ victims), additions)]
        /\ census' = Note(Strikes(entries, victims, n), obs)
        /\ pending' = NotePending(StrikesPending(waiting, victims, n), obs)

\* _CacheDigestLedger.apply of a mutation that admits: the digest is the set
\* of the keys that were xor-ed into it an odd number of times.
Digested(d, r, n, victims) ==
    LET added == {k \in ToSet(Prefix[r]) : k \notin cache[n] \/ k \in victims}
        flip(S, T) == (S \ T) \cup (T \ S)
    IN  [count |-> d.count - Cardinality(victims) + Cardinality(added),
         keys  |-> flip(flip(d.keys, victims), added)]

\* CausalKernel._apply_cache_mutation: every key of the request that is
\* missing once the victims are gone is admitted, if there is room.
Admitted(r, n, victims) == (cache[n] \ victims) \cup ToSet(Prefix[r])

\* The completion of request r: the policy proposes, the ledger records, and
\* the kernel applies the proposal of an attempt whose prefill can be reused
\* ("applies").  Each way it can end is a disjunct; an exception ends the run.
Raise(reason) ==
    /\ failed' = reason
    /\ UNCHANGED <<lru, census, pending, cache, digest, dropped>>

Settle(r, n, applies, entries, waiting, eligible, required) ==
    LET short    == Len(eligible) < required
        diverged == digest[n].count # Cardinality(cache[n])
        victims  == ToSet(SubSeq(eligible, 1, required))
    IN  \/ mode = "LRU" /\ short /\ Raise("invalid victims")
        \/ ~(mode = "LRU" /\ short) /\ diverged /\ Raise("diverged")
        \* unique-hot entries are protected: nothing is admitted
        \/ /\ mode = "CENSUS_REGRET" /\ short /\ ~diverged
           /\ census' = entries
           /\ pending' = waiting
           /\ UNCHANGED <<lru, cache, digest, dropped, failed>>
        \/ /\ ~short /\ ~diverged /\ ~applies
           /\ Propose(n, entries, waiting, victims, Sorted(Additions(r, n)))
           /\ digest' = [digest EXCEPT ![n] = Digested(@, r, n, victims)]
           /\ dropped' = TRUE
           /\ UNCHANGED <<cache, failed>>
        \/ /\ ~short /\ ~diverged /\ applies
           /\ Cardinality(Admitted(r, n, victims)) > Capacity
           /\ Raise("exceeds capacity")
        \/ /\ ~short /\ ~diverged /\ applies
           /\ Cardinality(Admitted(r, n, victims)) <= Capacity
           /\ Propose(n, entries, waiting, victims, Sorted(Additions(r, n)))
           /\ digest' = [digest EXCEPT ![n] = Digested(@, r, n, victims)]
           /\ cache' = [cache EXCEPT ![n] = Admitted(r, n, victims)]
           /\ UNCHANGED <<dropped, failed>>

\* A census decision looks every resident key up, which makes the delayed
\* observations that are due visible first.
Finish(r, applies) ==
    /\ failed = "no"
    /\ attempt[r].state = "running"
    /\ LET n     == attempt[r].node
           looks == mode = "CENSUS_REGRET" /\ cache[n] # {}
       IN  \E entries \in {IF looks THEN Flushed ELSE census} :
              Settle(r, n, applies, entries,
                     IF looks THEN StillPending ELSE pending,
                     Eligible(entries, n), Required(r, n))
    /\ attempt' = [attempt EXCEPT ![r].state = "finished"]
    /\ UNCHANGED <<mode, now, history, refreshed>>

Advance ==
    /\ failed = "no"
    /\ now < MaxWork
    /\ \A r \in Requests : Arrival[r] = now => attempt[r].state # "offered"
    /\ now' = now + 1
    /\ UNCHANGED <<mode, attempt, cache, lru, census, pending, history, refreshed,
                   digest, dropped, failed>>

\* The run has returned its result, or an exception.
Over ==
    /\ failed # "no" \/ \A r \in Requests : attempt[r].state = "finished"
    /\ UNCHANGED vars

Next ==
    \/ \E r \in Requests, n \in Nodes : Plan(r, n)
    \/ \E r \in Requests, applies \in BOOLEAN : Finish(r, applies)
    \/ Advance
    \/ Over

Spec == Init /\ [][Next]_vars
-----------------------------------------------------------------------------
\* As long as the kernel has applied every proposal, the policy's own order
\* of a node names exactly the keys that are resident there: it is kept by
\* three pieces of code, the refresh, the hits of a plan and the mutation,
\* at other moments than the cache changes, and a key it lacks can never
\* be a victim.
OrderNamesTheCache ==
    failed = "no" /\ ~dropped => \A n \in Nodes : ToSet(lru[n]) = cache[n]

\* As long as every proposal was applied, whoever the census names, or will
\* name once an observation is visible, holds the key: an eviction overtakes
\* the observations made before it, however long they are delayed.
CensusNamesHolders ==
    failed = "no" /\ ~dropped =>
        /\ \A e \in ToSet(census) : \A n \in e.holders : e.key \in cache[n]
        /\ \A o \in ToSet(pending) : o.key \in cache[o.holder]

\* As long as every proposal was applied, the input digest a decision is
\* logged with is the one of the cache that the kernel holds.
DigestIsTheCache ==
    failed = "no" /\ ~dropped =>
        \A n \in Nodes : digest[n] = [count |-> Cardinality(cache[n]), keys |-> cache[n]]

\* The policy's three views of a cache, each kept by code of its own, agree with it.
ViewsNameTheCache == OrderNamesTheCache /\ CensusNamesHolders /\ DigestIsTheCache

\* By census, the last copy that the cluster holds of a key referenced again
\* and again within the window is never evicted, however old or incomplete
\* the view of the other nodes is, as long as every mutation the policy proposed
\* was applied: its books are changed with the proposal, the cache when the
\* kernel takes it.
LastHotCopyStays ==
    [][\A k \in Keys :
          /\ mode = "CENSUS_REGRET" /\ ~dropped /\ Reuse(k) > 0
          /\ \E n \in Nodes : k \in cache[n]
          => \E n \in Nodes : k \in cache'[n]]_vars

\* What CausalKernel._apply_cache_mutation raises for (m12_kernel.py 1063):
\* "cache admission exceeds bounded capacity" -- the victims the policy
\* reports make room for what the request brings.
AdmissionFits == failed # "exceeds capacity"
=============================================================================
