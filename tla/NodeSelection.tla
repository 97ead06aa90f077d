---------------------------- MODULE NodeSelection ----------------------------
(* The two affinity selectors of phase A: S3 sends a request where a block  *)
(* of its prefix hashes to, S4 where its conversation went (selectors.py,   *)
(* affinity.py).  The reuse-time analysis (reuse_time.py) reads the same    *)
(* trace with its own copy of the linker's rule for hot blocks.  Views are  *)
(* the simulator's; all nodes are alive, and every block is one token.      *)
EXTENDS Integers, Bags, SequencesExt

CONSTANTS
    SNodes,           \* number of nodes, which are 0, 1, ...
    Views,            \* what views may say of loads, full nodes and selections
    RoutedPrompt,     \* prompts, sequences of blocks
    RoutedGap,        \* distances between arrivals
    RoutedRequests,   \* bound: requests of a trace
    AnchorDepth,      \* prefix_anchor_k
    MinShared, FamilyCap, LinkDepth,    \* OnlineConversationLinker
    HotFloor, HotRefresh, HotPercent,   \* 8, 256 and 99 in the code
    ReuseWindow,      \* GATE_WINDOW_MS
    Owner(_)          \* the node that a key hashes to

SNode == 0..(SNodes - 1)

\* What S3 and S4 hash: blocks, and the families of a trace.
RoutedKey == (UNION {ToSet(p) : p \in RoutedPrompt}) \cup 1..RoutedRequests

ASSUME SelectionAssumption ==
    /\ SNodes \in Nat \ {0} /\ RoutedRequests \in Nat
    /\ \A v \in Views : /\ v.full \subseteq SNode
                        /\ v.load \in [SNode -> Nat] /\ v.since \in [SNode -> Int]
    /\ \A p \in RoutedPrompt : p \in Seq(ToSet(p)) \ {<<>>} /\ IsInjective(p)
    /\ \A key \in RoutedKey : Owner(key) \in SNode
    /\ RoutedGap \subseteq Int /\ ReuseWindow \in Int
    /\ {AnchorDepth, MinShared, FamilyCap, HotRefresh} \subseteq Nat \ {0}
    /\ {LinkDepth, HotFloor} \subseteq Nat /\ HotPercent \in 1..100

VARIABLES
    router,     \* the selector: S3 or S4
    families,   \* _prefix_to_family
    sizes,      \* _family_sizes; families are numbered from 1
    homes,      \* _last_node, of S4
    linked,     \* counts, histogram and threshold of the linker
    tracked,    \* the same of the analysis' _CausalHotTracker
    reuse,      \* its accumulator that excludes hot blocks
    routed,     \* history: the requests, with their families
    latest,     \* history: the last selection, and the view it was made on
    kept        \* history: per key, the nodes it went to without a fallback

selectionVars ==
    <<router, families, sizes, homes, linked, tracked, reuse, routed, latest, kept>>

Cold == [counts |-> <<>>, histogram |-> EmptyBag, threshold |-> HotFloor]

SelectionInit ==
    /\ router \in {"S3", "S4"}
    /\ families = <<>> /\ sizes = <<>> /\ homes = <<>>
    /\ linked = Cold /\ tracked = Cold
    /\ reuse = [denominator |-> 0, within |-> 0]
    /\ routed = <<>> /\ latest = <<>> /\ kept = <<>>

-----------------------------------------------------------------------------
\* Hot blocks, as both modules find them.

At(f, x) == IF x \in DOMAIN f THEN f[x] ELSE 0

\* A dictionary after an entry was set.
With(f, x, y) == [k \in DOMAIN f \cup {x} |-> IF k = x THEN y ELSE f[k]]

\* _update_counts and observe.
Observe(hot, block) ==
    LET n == At(hot.counts, block)
    IN  [hot EXCEPT !.counts    = With(@, block, n + 1),
                    !.histogram = (@ (-) SetToBag({n})) (+) SetToBag({n + 1})]

\* The least frequency that so many of the blocks do not exceed.
Percentile(histogram, population) ==
    Min({f \in BagToSet(histogram) :
            SumFunctionOnSet(histogram, {g \in BagToSet(histogram) : g <= f})
                > (HotPercent * (population - 1)) \div 100})

\* _refresh_hot_threshold and refresh, after every HotRefresh requests.
Refresh(hot, requests) ==
    IF requests % HotRefresh # 0 \/ hot.counts = <<>> THEN hot
    ELSE [hot EXCEPT !.threshold =
             Max({HotFloor, Percentile(hot.histogram, Cardinality(DOMAIN hot.counts))})]

\* The blocks of a request, one after the other.
AllObserved(hot, blocks) ==
    LET seen[i \in 0..Len(blocks)] == IF i = 0 THEN hot ELSE Observe(seen[i - 1], blocks[i])
    IN  seen[Len(blocks)]

\* Variant: what was refreshed lacks the request that brought it about.
RefreshFirst(hot, blocks, requests) ==
    AllObserved(Refresh(hot, requests), blocks)

Learn(hot, blocks, requests) == Refresh(AllObserved(hot, blocks), requests)

-----------------------------------------------------------------------------
\* OnlineConversationLinker.

Linkable(blocks) == SubSeq(blocks, 1, Min({LinkDepth, Len(blocks)}))

LinksOf(blocks) == {SubSeq(blocks, 1, d) : d \in MinShared..Len(blocks)}

HotOnly(prefix) == \A b \in ToSet(prefix) : At(linked.counts, b) >= linked.threshold

\* key_for: the family of the deepest known prefix that is not all hot; a new one
\* when there is none, or when it is full.
FamilyFor(blocks) ==
    LET known == {x \in LinksOf(blocks) : x \in DOMAIN families /\ ~HotOnly(x)}
        deepest == CHOOSE x \in known : \A y \in known : Len(y) <= Len(x)
    IN  IF known # {} /\ sizes[families[deepest]] < FamilyCap THEN families[deepest]
        ELSE Len(sizes) + 1

Joined(family) ==
    IF family > Len(sizes) THEN Append(sizes, 1) ELSE [sizes EXCEPT ![family] = @ + 1]

\* _register: a prefix points to this family unless to one that is not full.
Registered(blocks, family) ==
    LET taken == {x \in LinksOf(blocks) :
                     x \in DOMAIN families => Joined(family)[families[x]] >= FamilyCap}
    IN  [x \in DOMAIN families \cup taken |-> IF x \in taken THEN family ELSE families[x]]

-----------------------------------------------------------------------------
\* AffinitySelector.

Overloaded(v, n) ==
    LET total == SumFunctionOnSet(v.load, SNode)
    IN  total > 0 /\ 4 * SNodes * v.load[n] > 5 * total

LeastWork(v, nodes) ==
    CHOOSE n \in nodes : \A k \in nodes \ {n} :
        \/ v.load[n] < v.load[k]
        \/ v.load[n] = v.load[k] /\ v.since[n] < v.since[k]
        \/ v.load[n] = v.load[k] /\ v.since[n] = v.since[k] /\ n < k

Broken(v, n) == n \in v.full \/ Overloaded(v, n)

Secondaries(primary) == {(primary + k) % SNodes : k \in 1..Min({2, SNodes - 1})}

\* BoundedFallback.choose: the less loaded of the next two nodes; of all nodes
\* when those are full or overloaded, and of the full ones when all are full.
Fallback(v, primary) ==
    LET eligible == Secondaries(primary) \ v.full
        cluster  == IF SNode \subseteq v.full THEN SNode ELSE SNode \ v.full
    IN  IF \A n \in eligible : Overloaded(v, n)
        THEN [node |-> LeastWork(v, cluster), open |-> TRUE]
        ELSE [node |-> LeastWork(v, eligible), open |-> FALSE]

Primary(key) == IF key \in DOMAIN homes THEN homes[key] ELSE Owner(key)

Chosen(v, primary) ==
    IF Broken(v, primary) THEN Fallback(v, primary) ELSE [node |-> primary, open |-> FALSE]

HomeAfter(key, node, broken) ==
    IF router = "S4" /\ ~broken THEN With(homes, key, node) ELSE homes

-----------------------------------------------------------------------------
\* analyze_reuse_time: a block that comes again counts with the time since it came
\* last, unless it was hot before.
LastAt(block) ==
    Max({routed[i].at : i \in {k \in DOMAIN routed : block \in ToSet(routed[k].blocks)}})

Reused(blocks, at) ==
    LET again == {b \in ToSet(blocks) : b \in DOMAIN tracked.counts
                                        /\ tracked.counts[b] < tracked.threshold}
    IN  [denominator |-> reuse.denominator + Cardinality(again),
         within |-> reuse.within
                    + Cardinality({b \in again : at - LastAt(b) <= ReuseWindow})]

\* A request is selected for, and the analysis reads it.
Route ==
    /\ Len(routed) < RoutedRequests
    /\ \E blocks \in RoutedPrompt, v \in Views, gap \in RoutedGap :
       \E family \in {IF router = "S4" THEN FamilyFor(Linkable(blocks)) ELSE 0} :
       \E key \in {IF router = "S4" THEN family ELSE blocks[Min({AnchorDepth, Len(blocks)})]} :
       \E choice \in {Chosen(v, Primary(key))} :
       LET broken == Broken(v, Primary(key))
           at == gap + (IF routed = <<>> THEN 0 ELSE Last(routed).at)
           requests == Len(routed) + 1
       IN  /\ homes' = HomeAfter(key, choice.node, broken)
           /\ IF router = "S4"
              THEN /\ sizes' = Joined(family)
                   /\ families' = Registered(Linkable(blocks), family)
                   /\ linked' = Learn(linked, Linkable(blocks), requests)
              ELSE UNCHANGED <<sizes, families, linked>>
           /\ reuse' = Reused(blocks, at)
           /\ tracked' = Learn(tracked, blocks, requests)
           /\ routed' = Append(routed, [blocks |-> blocks, at |-> at, family |-> family])
           /\ latest' = <<[view |-> v, primary |-> Primary(key), choice |-> choice]>>
           /\ kept' = IF broken THEN kept
                      ELSE With(kept, key, {choice.node} \cup
                                     (IF key \in DOMAIN kept THEN kept[key] ELSE {}))
    /\ UNCHANGED router

-----------------------------------------------------------------------------
\* How often a block came in the first n requests, and the threshold that follows
\* from them, as it was at the last refresh.
CountIn(n, block) == Cardinality({i \in 1..n : block \in ToSet(routed[i].blocks)})

ThresholdAt(n) ==
    LET m == (n \div HotRefresh) * HotRefresh
        blocks == UNION {ToSet(routed[i].blocks) : i \in 1..m}
        below(f) == Cardinality({b \in blocks : CountIn(m, b) <= f})
    IN  IF m = 0 THEN HotFloor
        ELSE Max({HotFloor, Min({f \in 1..m :
                 below(f) > (HotPercent * (Cardinality(blocks) - 1)) \div 100})})

\* What comes again, in the i-th request, before it was hot.
ColdReuses ==
    UNION {{<<i, b>> : b \in {x \in ToSet(routed[i].blocks) :
                CountIn(i - 1, x) \in 1..(ThresholdAt(i - 1) - 1)}} : i \in DOMAIN routed}

\* The analysis finds the blocks hot that S4 finds hot, from past requests only, as
\* long as no prompt is longer than the linker reads ("Match S4's history-only p99
\* rule", reuse_time.py 53-84 and affinity.py 93-114), and weighs a reuse by it.
HotRuleIsShared ==
    /\ tracked.threshold = ThresholdAt(Len(routed))
    /\ router = "S4" /\ (\A i \in DOMAIN routed : Len(routed[i].blocks) <= LinkDepth)
          => linked = tracked
    /\ reuse = [denominator |-> Cardinality(ColdReuses),
                within |-> Cardinality({r \in ColdReuses : \E k \in 1..(r[1] - 1) :
                    /\ r[2] \in ToSet(routed[k].blocks)
                    /\ routed[r[1]].at - routed[k].at <= ReuseWindow})]

\* Conversations stay within the cap and share the least prefix, through whichever
\* prefixes their requests joined (affinity.py 59-88).
ConversationsShareTheirRoot ==
    /\ \A f \in DOMAIN sizes :
          sizes[f] <= FamilyCap
          /\ sizes[f] = Cardinality({i \in DOMAIN routed : routed[i].family = f})
    /\ \A i, j \in DOMAIN routed :
          i # j /\ routed[i].family # 0 /\ routed[i].family = routed[j].family =>
              /\ Len(routed[i].blocks) >= MinShared /\ Len(routed[j].blocks) >= MinShared
              /\ SubSeq(routed[i].blocks, 1, MinShared) = SubSeq(routed[j].blocks, 1, MinShared)

\* A key has one home, whatever fallbacks come in between (selectors.py 143-158).
KeysKeepTheirHome == \A key \in DOMAIN kept : Cardinality(kept[key]) = 1

\* A selection that did not fail open is neither full nor overloaded.  One that did
\* had no such node among its primary and the next two, and is full only when all
\* are (selectors.py 99-158).
FallbackSparesLoad ==
    \A i \in DOMAIN latest :
        LET v == latest[i].view  n == latest[i].choice.node
            near == Secondaries(latest[i].primary) \cup {latest[i].primary}
        IN  IF ~latest[i].choice.open THEN ~Broken(v, n) /\ n \in near
            ELSE /\ \A k \in near : Broken(v, k)
                 /\ n \in v.full => SNode = v.full

\* Affinity holds together, and gives way only under load.
AffinityIsSound ==
    /\ HotRuleIsShared /\ ConversationsShareTheirRoot
    /\ KeysKeepTheirHome /\ FallbackSparesLoad
=============================================================================
