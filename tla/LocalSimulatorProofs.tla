------------------------ MODULE LocalSimulatorProofs ------------------------
(* The replay of a trace, for any nodes, prefixes, block sizes, capacities,  *)
(* configurations and lengths.                                               *)
EXTENDS LocalSimulator, SumTheorems, SequenceTheorems

Distinct(list) == \A i, j \in DOMAIN list : list[i] = list[j] => i = j

\* The policy's lists hold every resident block once, and the cache its size.
ListsFit(order, protected, blocks) ==
    /\ order \in Seq(Block) /\ Distinct(order)
    /\ protected \in Seq(Block) /\ Distinct(protected)
    /\ ToSet(order) \cap ToSet(protected) = {}
    /\ ToSet(order) \cup ToSet(protected) = blocks

CacheFits(c) ==
    /\ c \in Cache
    /\ IsFiniteSet(c.resident) /\ Cardinality(c.resident) <= CacheBlocks
    /\ ListsFit(c.order, c.protected, c.resident)

\* A request has at most one event ahead of it, and what it waits for is of
\* its prefix.
EventsInv ==
    /\ IsFiniteSet(events)
    /\ \A e \in events :
          /\ e.req \in DOMAIN requests /\ clock <= e.time
          /\ e.kind = "start" => e.waited \subseteq ToSet(Prefix(e.req))
          /\ e.waitStarted = None => e.waited = {}
          /\ e.hits <= Len(Prefix(e.req))
    /\ \A e, f \in events : e.req = f.req => e = f

\* The scheduled items of a queue are those with a start ahead of them, and
\* nobody runs who queues.
QueueHolds(q, starts, running) ==
    /\ \A i, j \in DOMAIN q : q[i].req = q[j].req => i = j
    /\ \A i \in DOMAIN q : q[i].scheduled <=> \E e \in starts : e.req = q[i].req
    /\ \A e \in starts : \E i \in DOMAIN q : q[i].req = e.req
    /\ \A e \in running : \A i \in DOMAIN q : q[i].req # e.req

\* No two events of a set are about the same request.
OneEach(es) == \A e, f \in es : e.req = f.req => e = f

\* The items of a queue that were promised a slot.
Promised(q) == {i \in 1..Len(q) : q[i].scheduled}

\* What is left of a queue.
DrawnFrom(less, q) == \A i \in DOMAIN less : \E j \in DOMAIN q : less[i] = q[j]

QueueFits(n) ==
    LET q == nodes[n].queue IN
    /\ \A i \in DOMAIN q : q[i].req \in DOMAIN requests /\ requests[q[i].req].node = n
    /\ QueueHolds(q, Starts(n), Running(n))

\* The slots are taken by those who run and those who were promised one, and
\* none is left while somebody queues.
SlotsHold(node, running) ==
    LET busy == node.active + Cardinality(ScheduledItems(node)) IN
    /\ node.active = Cardinality(running)
    /\ busy <= config.concurrency
    /\ busy < config.concurrency => ScheduledItems(node) = DOMAIN node.queue

SlotsFit(n) == SlotsHold(nodes[n], Running(n))

\* The hits of a running request are resident and pinned once each, a waiter's
\* pin and an inflight entry stand for somebody, and with dedup what a running
\* request computes is in flight and computed by nobody else.
PinsFit(n) ==
    LET node == nodes[n] IN
    /\ \A e \in Running(n) : HitSet(e.req, e.hits) \subseteq node.cache.resident
    /\ \A b \in Block :
          /\ node.activePins[b] = Cardinality({e \in Running(n) : b \in HitSet(e.req, e.hits)})
          /\ b \in node.waiterPins => \E e \in Starts(n) : b \in e.waited
          /\ node.inflight[b] # None =>
                \E e \in Running(n) : b \in MissSet(e.req, e.hits) /\ e.time = node.inflight[b]
    /\ config.visibility = "INFLIGHT_DEDUP_WAIT" =>
          /\ \A e \in Running(n) : \A b \in MissSet(e.req, e.hits) : node.inflight[b] # None
          /\ \A e, f \in Running(n) :
                e # f => MissSet(e.req, e.hits) \cap MissSet(f.req, f.hits) = {}

\* The intervals of the history are past or of resident blocks; the view is of
\* an earlier time, and a request that ends at the very time of the view
\* computes nothing.
Interval == [block: Block, from: Nat, to: Nat \cup {None}]

Covers(x, time) == x.from <= time /\ (x.to = None \/ time < x.to)

HistoryFits(n) ==
    /\ \A x \in history[n] :
          x.from <= clock /\ x.to <= clock
    /\ {x.block : x \in {y \in history[n] : y.to = None}} = Resident(n)
    /\ observed # None =>
          residentThen[n] = {x.block : x \in {y \in history[n] : Covers(y, observed)}}

ViewInv ==
    /\ observed <= clock
    /\ observed # None =>
          \A e \in events : (e.kind = "finish" /\ e.time <= observed) =>
                MissSet(e.req, e.hits) = {}

\* A replay without queues leaves no event and takes no view.
OnePass == ~config.queued =>
    /\ events = {} /\ observed = None
    /\ \A n \in Nodes : nodes[n].queue = <<>>

NodeInv(n) ==
    /\ CacheFits(nodes[n].cache) /\ QueueFits(n) /\ SlotsFit(n)
    /\ PinsFit(n) /\ HistoryFits(n)

\* What the replay keeps from event to event.
SimInv ==
    /\ TypeOK
    /\ Len(requests) <= MaxRequests
    /\ history \in [Nodes -> SUBSET Interval]
    /\ EventsInv /\ ViewInv /\ OnePass
    /\ \A n \in Nodes : NodeInv(n)
-----------------------------------------------------------------------------
(* Lists of distinct blocks.                                                 *)

\* A block that is taken out of a list of distinct blocks is gone from it.
LEMMA BlockTakenOut ==
    ASSUME NEW S, NEW list \in Seq(S), Distinct(list), NEW block
    PROVE  LET less == Without(list, block)
           IN  less \in Seq(S) /\ Distinct(less) /\ ToSet(less) = ToSet(list) \ {block}
<1>1. CASE ~Contains(list, block)
  BY <1>1 DEF Without, Contains, ToSet
<1>2. CASE Contains(list, block)
  <2>1. PICK k : k = CHOOSE i \in DOMAIN list : list[i] = block
    OBVIOUS
  <2>2. k \in 1..Len(list) /\ list[k] = block
    BY <1>2, <2>1 DEF Contains
  <2>3. PICK less : less = Without(list, block)
    OBVIOUS
  <2>4. less = RemoveAt(list, k)
    BY <1>2, <2>1, <2>3 DEF Without
  <2>5. /\ less \in Seq(S) /\ Len(less) = Len(list) - 1
        /\ \A i \in 1..(Len(list) - 1) :
              less[i] = IF i < k THEN list[i] ELSE list[i + 1]
    BY <2>2, <2>4, EntryRemoved
  <2>6. \A i, j \in 1..Len(list) : list[i] = list[j] => i = j
    BY DEF Distinct
  <2>7. Distinct(less)
    BY <2>2, <2>5, <2>6 DEF Distinct
  <2>8. ASSUME NEW x \in ToSet(less) PROVE x \in ToSet(list) \ {block}
    <3>1. PICK i \in 1..(Len(list) - 1) : x = less[i]
      BY <2>5 DEF ToSet
    <3>2. CASE i < k
      BY <2>2, <2>5, <2>6, <3>1, <3>2, SMTT(30) DEF ToSet
    <3>3. CASE ~(i < k)
      <4>1. x = list[i + 1] /\ i + 1 \in 1..Len(list) /\ i + 1 # k
        BY <2>2, <2>5, <3>1, <3>3
      <4> QED  BY <2>2, <2>6, <4>1 DEF ToSet
    <3> QED  BY <3>2, <3>3
  <2>9. ASSUME NEW x \in ToSet(list), x # block PROVE x \in ToSet(less)
    <3>1. PICK i \in 1..Len(list) : x = list[i]
      BY DEF ToSet
    <3>2. CASE i < k
      <4>1. i \in 1..(Len(list) - 1) /\ less[i] = x
        BY <2>2, <2>5, <3>1, <3>2
      <4> QED  BY <2>5, <4>1 DEF ToSet
    <3>3. CASE i > k
      <4>1. i - 1 \in 1..(Len(list) - 1) /\ less[i - 1] = x
        BY <2>2, <2>5, <3>1, <3>3
      <4> QED  BY <2>5, <4>1 DEF ToSet
    <3> QED  BY <2>2, <2>9, <3>1, <3>2, <3>3
  <2> QED  BY <2>3, <2>5, <2>7, <2>8, <2>9
<1> QED  BY <1>1, <1>2

\* A block that is appended to a list without it.
LEMMA BlockAppended ==
    ASSUME NEW S, NEW list \in Seq(S), Distinct(list), NEW block \in S,
           block \notin ToSet(list)
    PROVE  LET more == Append(list, block)
           IN  more \in Seq(S) /\ Distinct(more) /\ ToSet(more) = ToSet(list) \cup {block}
<1>1. PICK more : more = Append(list, block)
  OBVIOUS
<1>2. /\ more \in Seq(S) /\ Len(more) = Len(list) + 1 /\ more[Len(list) + 1] = block
      /\ \A i \in 1..Len(list) : more[i] = list[i]
  BY <1>1
<1>3. Distinct(more)
  BY <1>2 DEF Distinct, ToSet
<1>4. ToSet(more) = ToSet(list) \cup {block}
  <2>1. ASSUME NEW i \in 1..(Len(list) + 1) PROVE more[i] \in ToSet(list) \cup {block}
    BY <1>2, <2>1 DEF ToSet
  <2>2. ToSet(list) \subseteq ToSet(more) /\ block \in ToSet(more)
    BY <1>2 DEF ToSet
  <2>3. ToSet(more) \subseteq ToSet(list) \cup {block}
    BY <1>2, <2>1 DEF ToSet
  <2> QED  BY <2>2, <2>3
<1> QED  BY <1>1, <1>2, <1>3, <1>4

\* The oldest entry leaves.
LEMMA OldestLeaves ==
    ASSUME NEW S, NEW list \in Seq(S), Distinct(list), list # <<>>
    PROVE  /\ Tail(list) \in Seq(S) /\ Distinct(Tail(list)) /\ list[1] \in S
           /\ ToSet(Tail(list)) = ToSet(list) \ {list[1]} /\ list[1] \in ToSet(list)
<1>1. PICK less : less = Tail(list)
  OBVIOUS
<1>2. /\ less \in Seq(S) /\ Len(less) = Len(list) - 1 /\ 1 \in 1..Len(list)
      /\ \A i \in 1..(Len(list) - 1) : less[i] = list[i + 1]
  BY <1>1, HeadTailProperties
<1>3. \A i, j \in 1..Len(list) : list[i] = list[j] => i = j
  BY DEF Distinct
<1>4. Distinct(less)
  BY <1>2, <1>3 DEF Distinct
<1>5. ASSUME NEW x \in ToSet(less) PROVE x \in ToSet(list) \ {list[1]}
  <2>1. PICK i \in 1..(Len(list) - 1) : x = list[i + 1]
    BY <1>2 DEF ToSet
  <2>2. i + 1 \in 1..Len(list) /\ i + 1 # 1
    BY <1>2
  <2> QED  BY <1>2, <1>3, <2>1, <2>2 DEF ToSet
<1>6. ASSUME NEW x \in ToSet(list), x # list[1] PROVE x \in ToSet(less)
  <2>1. PICK i \in 1..Len(list) : x = list[i]
    BY DEF ToSet
  <2>2. i - 1 \in 1..(Len(list) - 1) /\ less[i - 1] = x
    BY <1>2, <1>6, <2>1
  <2> QED  BY <1>2, <2>2 DEF ToSet
<1>7. list[1] \in S /\ list[1] \in ToSet(list)
  BY <1>2 DEF ToSet
<1> QED  BY <1>1, <1>2, <1>4, <1>5, <1>6, <1>7

\* Moved to the end, a block is there once.
LEMMA BlockMoved ==
    ASSUME NEW S, NEW list \in Seq(S), Distinct(list), NEW block \in S
    PROVE  LET moved == MovedToEnd(list, block)
           IN  moved \in Seq(S) /\ Distinct(moved) /\ ToSet(moved) = ToSet(list) \cup {block}
<1>1. PICK less : less = Without(list, block)
  OBVIOUS
<1>2. less \in Seq(S) /\ Distinct(less) /\ ToSet(less) = ToSet(list) \ {block}
  BY <1>1, BlockTakenOut
<1>3. PICK moved : moved = Append(less, block)
  OBVIOUS
<1>4. moved \in Seq(S) /\ Distinct(moved) /\ ToSet(moved) = ToSet(less) \cup {block}
  BY <1>2, <1>3, BlockAppended
<1> QED  BY <1>1, <1>2, <1>3, <1>4 DEF MovedToEnd

\* A segment that overflows gives up its oldest block; what it gives up may be
\* appended to a list without it.
LEMMA OverflowMoves ==
    ASSUME NEW S, NEW list \in Seq(S), Distinct(list), NEW capacity \in Nat,
           NEW other \in Seq(S), Distinct(other), ToSet(list) \cap ToSet(other) = {}
    PROVE  LET kept == Trimmed(list, capacity)
               more == other \o SubSeq(list, 1, Len(list) - Len(kept))
           IN  /\ kept \in Seq(S) /\ Distinct(kept) /\ more \in Seq(S) /\ Distinct(more)
               /\ ToSet(kept) \cap ToSet(more) = {}
               /\ ToSet(kept) \cup ToSet(more) = ToSet(list) \cup ToSet(other)
<1>1. PICK kept, more : /\ kept = Trimmed(list, capacity)
                        /\ more = other \o SubSeq(list, 1, Len(list) - Len(kept))
  OBVIOUS
<1>2. CASE ~(Len(list) > capacity)
  <2>1. kept = list
    BY <1>1, <1>2 DEF Trimmed
  <2>2. SubSeq(list, 1, Len(list) - Len(kept)) = <<>>
    BY <2>1, SubSeqEmpty
  <2>3. more = other
    BY <1>1, <2>2, ConcatEmptySeq
  <2> QED  BY <1>1, <2>1, <2>3
<1>3. CASE Len(list) > capacity
  <2>1. list # <<>> /\ Len(list) \in Nat \ {0}
    BY <1>3
  <2>2. kept = Tail(list)
    BY <1>1, <1>3 DEF Trimmed
  <2>3. Len(kept) = Len(list) - 1
    BY <2>1, <2>2, HeadTailProperties
  <2>4. PICK out : out = SubSeq(list, 1, 1)
    OBVIOUS
  <2>5. out \in Seq(S) /\ Len(out) = 1 /\ out[1] = list[1]
    BY <2>1, <2>4, SubSeqProperties
  <2>6. more = other \o out
    BY <1>1, <2>1, <2>3, <2>4
  <2>7. more = Append(other, list[1])
    <3>1. list[1] \in S
      BY <2>1
    <3>2. /\ more \in Seq(S) /\ Len(more) = Len(other) + 1
          /\ \A i \in 1..(Len(other) + 1) :
                more[i] = IF i <= Len(other) THEN other[i] ELSE out[i - Len(other)]
      <4>1. /\ more \in Seq(S) /\ Len(more) = Len(other) + Len(out)
            /\ \A i \in 1..(Len(other) + Len(out)) :
                  more[i] = IF i <= Len(other) THEN other[i] ELSE out[i - Len(other)]
        BY <2>5, <2>6, ConcatProperties
      <4> QED  BY <2>5, <4>1
    <3>3. Append(other, list[1]) \in Seq(S) /\ Len(Append(other, list[1])) = Len(other) + 1
      BY <3>1
    <3>4. \A i \in 1..(Len(other) + 1) : more[i] = Append(other, list[1])[i]
      BY <2>5, <3>1, <3>2
    <3> QED  BY <3>2, <3>3, <3>4, SeqEqual
  <2>8. /\ kept \in Seq(S) /\ Distinct(kept) /\ list[1] \in S
        /\ ToSet(kept) = ToSet(list) \ {list[1]} /\ list[1] \in ToSet(list)
    BY <2>1, <2>2, OldestLeaves
  <2>9. more \in Seq(S) /\ Distinct(more) /\ ToSet(more) = ToSet(other) \cup {list[1]}
    <3>1. list[1] \notin ToSet(other)
      BY <2>8
    <3> QED  BY <2>7, <2>8, <3>1, BlockAppended
  <2> QED  BY <1>1, <2>8, <2>9
<1> QED  BY <1>2, <1>3
-----------------------------------------------------------------------------
(* The cache and its policy.                                                 *)

\* What on_lookup does to the lists.
LEMMA TouchedIs ==
    ASSUME NEW c, NEW block
    PROVE  \/ Touched(c, block, Capacity) = c
           \/ /\ Contains(c.order, block)
              /\ Touched(c, block, Capacity) = [c EXCEPT !.order = MovedToEnd(c.order, block)]
           \/ /\ Contains(c.protected, block)
              /\ Touched(c, block, Capacity)
                    = [c EXCEPT !.protected = MovedToEnd(c.protected, block)]
           \/ /\ Contains(c.order, block)
              /\ LET promoted == Append(c.protected, block)
                     kept     == Trimmed(promoted, Capacity.protected)
                     demoted  == SubSeq(promoted, 1, Len(promoted) - Len(kept))
                 IN  Touched(c, block, Capacity) =
                        [c EXCEPT !.protected = kept,
                                  !.order = Without(c.order, block) \o demoted]
<1> DEFINE promoted == Append(c.protected, block)
           kept     == Trimmed(promoted, Capacity.protected)
           demoted  == SubSeq(promoted, 1, Len(promoted) - Len(kept))
           G1 == c.policy = "FIFO"
           G2 == c.policy \in {"LRU", "SECOND_HIT"} /\ Contains(c.order, block)
           G3 == c.policy = "SLRU" /\ Contains(c.protected, block)
           G4 == c.policy = "SLRU" /\ Contains(c.order, block)
           E2 == [c EXCEPT !.order = MovedToEnd(c.order, block)]
           E3 == [c EXCEPT !.protected = MovedToEnd(c.protected, block)]
           E4 == [c EXCEPT !.protected = kept, !.order = Without(c.order, block) \o demoted]
<1>1. Touched(c, block, Capacity) = CASE G1 -> c [] G2 -> E2 [] G3 -> E3 [] G4 -> E4 [] OTHER -> c
  BY Zenon DEF Touched
<1>2. (G2 => Contains(c.order, block)) /\ (G3 => Contains(c.protected, block))
      /\ (G4 => Contains(c.order, block))
  OBVIOUS
<1> HIDE DEF G1, G2, G3, G4, E2, E3, E4
<1>3. \/ Touched(c, block, Capacity) = c
      \/ G2 /\ Touched(c, block, Capacity) = E2
      \/ G3 /\ Touched(c, block, Capacity) = E3
      \/ G4 /\ Touched(c, block, Capacity) = E4
  BY Zenon, <1>1
<1> QED  BY <1>2, <1>3 DEF E2, E3, E4

\* A lookup reorders the lists and keeps what they hold.
LEMMA TouchedFits ==
    ASSUME NEW c, CacheFits(c), NEW block \in Block
    PROVE  /\ CacheFits(Touched(c, block, Capacity))
           /\ Touched(c, block, Capacity).resident = c.resident
<1>1. /\ c \in Cache /\ c.order \in Seq(Block) /\ c.protected \in Seq(Block)
      /\ Distinct(c.order) /\ Distinct(c.protected)
      /\ ToSet(c.order) \cap ToSet(c.protected) = {}
      /\ ToSet(c.order) \cup ToSet(c.protected) = c.resident
  BY DEF CacheFits, ListsFit
<1>2. ASSUME NEW order, NEW protected, ListsFit(order, protected, c.resident),
             Touched(c, block, Capacity) = [c EXCEPT !.order = order, !.protected = protected]
      PROVE  /\ CacheFits(Touched(c, block, Capacity))
             /\ Touched(c, block, Capacity).resident = c.resident
  <2>1. PICK d : d = [c EXCEPT !.order = order, !.protected = protected]
    OBVIOUS
  <2>2. /\ d \in Cache /\ d.resident = c.resident
        /\ d.order = order /\ d.protected = protected
    BY <1>1, <1>2, <2>1 DEF Cache, ListsFit
  <2> QED  BY <1>2, <2>1, <2>2 DEF CacheFits
<1>3. CASE Touched(c, block, Capacity) = c
  BY <1>3
<1>4. CASE /\ Contains(c.order, block)
           /\ Touched(c, block, Capacity) = [c EXCEPT !.order = MovedToEnd(c.order, block)]
  <2>1. PICK moved : moved = MovedToEnd(c.order, block)
    OBVIOUS
  <2>2. moved \in Seq(Block) /\ Distinct(moved) /\ ToSet(moved) = ToSet(c.order) \cup {block}
    BY <1>1, <2>1, BlockMoved
  <2>3. block \in ToSet(c.order)
    BY <1>1, <1>4 DEF Contains, ToSet
  <2>4. ListsFit(moved, c.protected, c.resident)
    BY <1>1, <2>2, <2>3 DEF ListsFit
  <2>5. [c EXCEPT !.order = moved] = [c EXCEPT !.order = moved, !.protected = c.protected]
    BY <1>1 DEF Cache
  <2> QED  BY <1>2, <1>4, <2>1, <2>4, <2>5, Zenon
<1>5. CASE /\ Contains(c.protected, block)
           /\ Touched(c, block, Capacity) = [c EXCEPT !.protected = MovedToEnd(c.protected, block)]
  <2>1. PICK moved : moved = MovedToEnd(c.protected, block)
    OBVIOUS
  <2>2. moved \in Seq(Block) /\ Distinct(moved) /\ ToSet(moved) = ToSet(c.protected) \cup {block}
    BY <1>1, <2>1, BlockMoved
  <2>3. block \in ToSet(c.protected)
    BY <1>1, <1>5 DEF Contains, ToSet
  <2>4. ListsFit(c.order, moved, c.resident)
    BY <1>1, <2>2, <2>3 DEF ListsFit
  <2>5. [c EXCEPT !.protected = moved] = [c EXCEPT !.order = c.order, !.protected = moved]
    BY <1>1 DEF Cache
  <2> QED  BY <1>2, <1>5, <2>1, <2>4, <2>5, Zenon
<1>6. CASE /\ Contains(c.order, block)
           /\ LET promoted == Append(c.protected, block)
                  kept     == Trimmed(promoted, Capacity.protected)
                  demoted  == SubSeq(promoted, 1, Len(promoted) - Len(kept))
              IN  Touched(c, block, Capacity) =
                     [c EXCEPT !.protected = kept,
                               !.order = Without(c.order, block) \o demoted]
  <2>1. PICK promoted, kept, less, more :
              /\ promoted = Append(c.protected, block)
              /\ kept = Trimmed(promoted, Capacity.protected)
              /\ less = Without(c.order, block)
              /\ more = less \o SubSeq(promoted, 1, Len(promoted) - Len(kept))
    OBVIOUS
  <2>2. Touched(c, block, Capacity) = [c EXCEPT !.order = more, !.protected = kept]
    <3>1. Touched(c, block, Capacity) = [c EXCEPT !.protected = kept, !.order = more]
      BY <1>6, <2>1
    <3>2. [c EXCEPT !.protected = kept, !.order = more]
             = [c EXCEPT !.order = more, !.protected = kept]
      BY <1>1 DEF Cache
    <3> QED  BY <3>1, <3>2
  <2>3. block \in ToSet(c.order) /\ block \notin ToSet(c.protected)
    <3>1. Contains(c.order, block)
      BY <1>6
    <3>2. block \in ToSet(c.order)
      BY <1>1, <3>1 DEF Contains, ToSet
    <3> QED  BY <1>1, <3>2
  <2>4. /\ promoted \in Seq(Block) /\ Distinct(promoted)
        /\ ToSet(promoted) = ToSet(c.protected) \cup {block}
    BY <1>1, <2>1, <2>3, BlockAppended
  <2>5. less \in Seq(Block) /\ Distinct(less) /\ ToSet(less) = ToSet(c.order) \ {block}
    BY <1>1, <2>1, BlockTakenOut
  <2>6. Capacity.protected \in Nat /\ ToSet(promoted) \cap ToSet(less) = {}
    BY <1>1, <2>4, <2>5, CacheAssumption DEF Capacity
  <2>7. /\ kept \in Seq(Block) /\ Distinct(kept) /\ more \in Seq(Block) /\ Distinct(more)
        /\ ToSet(kept) \cap ToSet(more) = {}
        /\ ToSet(kept) \cup ToSet(more) = ToSet(promoted) \cup ToSet(less)
    BY <2>1, <2>4, <2>5, <2>6, OverflowMoves
  <2>8. ListsFit(more, kept, c.resident)
    BY <1>1, <2>3, <2>4, <2>5, <2>7 DEF ListsFit
  <2> QED  BY <1>2, <2>2, <2>8, Zenon
<1> QED  BY <1>3, <1>4, <1>5, <1>6, TouchedIs, Zenon

\* What admit does to the ghost list.
LEMMA ConsultedFits ==
    ASSUME NEW c, CacheFits(c), NEW block \in Block
    PROVE  /\ CacheFits(Consulted(c, block, Capacity))
           /\ Consulted(c, block, Capacity).resident = c.resident
<1>1. c \in Cache /\ c.ghost \in Seq(Block)
  BY DEF CacheFits, Cache
<1>2. PICK ghost : ghost = IF Contains(c.ghost, block) THEN Without(c.ghost, block)
                           ELSE Trimmed(Append(c.ghost, block), Capacity.ghost)
  OBVIOUS
<1>3. ghost \in Seq(Block)
  <2>1. CASE ~Contains(c.ghost, block)
    <3>1. PICK more : more = Append(c.ghost, block)
      OBVIOUS
    <3>2. more \in Seq(Block) /\ more # <<>>
      BY <1>1, <3>1
    <3>3. Tail(more) \in Seq(Block)
      BY <3>2
    <3> QED  BY <1>2, <2>1, <3>1, <3>2, <3>3 DEF Trimmed
  <2>2. CASE Contains(c.ghost, block)
    <3>1. PICK k : k = CHOOSE i \in DOMAIN c.ghost : c.ghost[i] = block
      OBVIOUS
    <3>2. k \in 1..Len(c.ghost)
      BY <1>1, <2>2, <3>1 DEF Contains
    <3>3. RemoveAt(c.ghost, k) \in Seq(Block)
      BY <1>1, <3>2, EntryRemoved
    <3> QED  BY <1>2, <2>2, <3>1, <3>3 DEF Without
  <2> QED  BY <2>1, <2>2
<1>4. PICK d : d = [c EXCEPT !.ghost = ghost]
  OBVIOUS
<1>5. /\ d \in Cache /\ d.resident = c.resident
      /\ d.order = c.order /\ d.protected = c.protected
  BY <1>1, <1>3, <1>4 DEF Cache
<1>6. CacheFits(d)
  BY <1>5 DEF CacheFits
<1>7. Consulted(c, block, Capacity) = c \/ Consulted(c, block, Capacity) = d
  BY <1>2, <1>4 DEF Consulted
<1> QED  BY <1>5, <1>6, <1>7

\* A victim is resident and not pinned.
LEMMA VictimsMayGo ==
    ASSUME NEW c, NEW pinned, NEW v \in Victims(c, pinned)
    PROVE  v \in c.resident \ pinned
BY DEF Victims

\* An evicted block is out of the cache and of both lists.
LEMMA EvictedFits ==
    ASSUME NEW c, CacheFits(c), NEW v \in c.resident
    PROVE  /\ CacheFits(Evicted(c, v)) /\ Evicted(c, v).resident = c.resident \ {v}
           /\ Cardinality(Evicted(c, v).resident) + 1 <= CacheBlocks
<1>1. /\ c \in Cache /\ c.order \in Seq(Block) /\ c.protected \in Seq(Block)
      /\ Distinct(c.order) /\ Distinct(c.protected)
      /\ ToSet(c.order) \cap ToSet(c.protected) = {}
      /\ ToSet(c.order) \cup ToSet(c.protected) = c.resident
      /\ IsFiniteSet(c.resident) /\ Cardinality(c.resident) <= CacheBlocks
  BY DEF CacheFits, ListsFit
<1>2. PICK order, protected : /\ order = Without(c.order, v)
                              /\ protected = Without(c.protected, v)
  OBVIOUS
<1>3. order \in Seq(Block) /\ Distinct(order) /\ ToSet(order) = ToSet(c.order) \ {v}
  BY <1>1, <1>2, BlockTakenOut
<1>4. /\ protected \in Seq(Block) /\ Distinct(protected)
      /\ ToSet(protected) = ToSet(c.protected) \ {v}
  BY <1>1, <1>2, BlockTakenOut
<1>5. ListsFit(order, protected, c.resident \ {v})
  BY <1>1, <1>3, <1>4 DEF ListsFit
<1>6. PICK d : d = [c EXCEPT !.resident = c.resident \ {v}, !.order = order,
                             !.protected = protected]
  OBVIOUS
<1>7. /\ d \in Cache /\ d.resident = c.resident \ {v}
      /\ d.order = order /\ d.protected = protected
  <2>1. c.resident \ {v} \in SUBSET Block
    BY <1>1 DEF Cache
  <2> QED  BY <1>1, <1>3, <1>4, <1>6, <2>1 DEF Cache
<1>8. /\ IsFiniteSet(c.resident \ {v}) /\ Cardinality(c.resident) \in Nat
      /\ Cardinality(c.resident \ {v}) = Cardinality(c.resident) - 1
  BY <1>1, FS_RemoveElement, FS_CardinalityType
<1>9. CacheBlocks \in Nat
  BY CacheAssumption
<1>10. CacheFits(d) /\ Cardinality(d.resident) + 1 <= CacheBlocks
  BY <1>1, <1>5, <1>7, <1>8, <1>9 DEF CacheFits
<1>11. Evicted(c, v) = d
  BY <1>2, <1>6 DEF Evicted
<1> QED  BY <1>7, <1>10, <1>11

\* A block goes in at the end of the order of a cache with room for it.
LEMMA InsertedFits ==
    ASSUME NEW c, CacheFits(c), NEW block \in Block, block \notin c.resident,
           Cardinality(c.resident) + 1 <= CacheBlocks
    PROVE  /\ CacheFits(Inserted(c, block))
           /\ Inserted(c, block).resident = c.resident \cup {block}
<1>1. /\ c \in Cache /\ c.order \in Seq(Block) /\ c.protected \in Seq(Block)
      /\ Distinct(c.order) /\ Distinct(c.protected)
      /\ ToSet(c.order) \cap ToSet(c.protected) = {}
      /\ ToSet(c.order) \cup ToSet(c.protected) = c.resident
      /\ IsFiniteSet(c.resident)
  BY DEF CacheFits, ListsFit
<1>2. PICK order : order = Append(c.order, block)
  OBVIOUS
<1>3. order \in Seq(Block) /\ Distinct(order) /\ ToSet(order) = ToSet(c.order) \cup {block}
  BY <1>1, <1>2, BlockAppended
<1>4. ListsFit(order, c.protected, c.resident \cup {block})
  BY <1>1, <1>3 DEF ListsFit
<1>5. PICK d : d = [c EXCEPT !.resident = c.resident \cup {block}, !.order = order]
  OBVIOUS
<1>6. /\ d \in Cache /\ d.resident = c.resident \cup {block}
      /\ d.order = order /\ d.protected = c.protected
  <2>1. c.resident \cup {block} \in SUBSET Block
    BY <1>1 DEF Cache
  <2> QED  BY <1>1, <1>3, <1>5, <2>1 DEF Cache
<1>7. /\ IsFiniteSet(c.resident \cup {block})
      /\ Cardinality(c.resident \cup {block}) = Cardinality(c.resident) + 1
  BY <1>1, FS_AddElement
<1>8. CacheFits(d)
  BY <1>4, <1>6, <1>7 DEF CacheFits
<1>9. Inserted(c, block) = d
  BY <1>2, <1>5 DEF Inserted
<1> QED  BY <1>6, <1>8, <1>9

\* One block placed: what is pinned stays, and a resident block moves nothing.
LEMMA BlockPlaced ==
    ASSUME NEW st, CacheFits(st.cache), st = [cache |-> st.cache, inserted |-> st.inserted],
           NEW block \in Block, NEW pinned
    PROVE  LET r == PlaceBlock(st, block, pinned, Capacity)
           IN  /\ r = [cache |-> r.cache, inserted |-> r.inserted] /\ CacheFits(r.cache)
               /\ st.cache.resident \cap pinned \subseteq r.cache.resident
               /\ block \in st.cache.resident => r.cache.resident = st.cache.resident
<1>1. PICK r, c, asked, victim :
            /\ r = PlaceBlock(st, block, pinned, Capacity) /\ c = st.cache
            /\ asked = Consulted(c, block, Capacity)
            /\ victim = Victims(c, pinned \cup st.inserted)
  OBVIOUS
<1> DEFINE full == Cardinality(c.resident) + 1 > Capacity.blocks
           chosen == CHOOSE v \in victim : TRUE
           inserted == st.inserted \cup {block}
<1>2. /\ CacheFits(c) /\ CacheFits(asked) /\ asked.resident = c.resident
      /\ Cardinality(c.resident) \in Nat
      /\ CacheBlocks \in Nat /\ Capacity.blocks = CacheBlocks
  BY <1>1, ConsultedFits, FS_CardinalityType, CacheAssumption DEF CacheFits, Capacity
<1>3. \/ block \in c.resident /\ r = [st EXCEPT !.cache = Touched(c, block, Capacity)]
      \/ block \notin c.resident /\ r = [st EXCEPT !.cache = asked]
      \/ /\ block \notin c.resident /\ full /\ victim # {}
         /\ r = [cache |-> Inserted(Evicted(asked, chosen), block), inserted |-> inserted]
      \/ /\ block \notin c.resident /\ ~full
         /\ r = [cache |-> Inserted(asked, block), inserted |-> inserted]
  BY <1>1 DEF PlaceBlock
<1> DEFINE Good == /\ r = [cache |-> r.cache, inserted |-> r.inserted] /\ CacheFits(r.cache)
                   /\ c.resident \cap pinned \subseteq r.cache.resident
                   /\ block \in c.resident => r.cache.resident = c.resident
<1>4. CASE block \in c.resident /\ r = [st EXCEPT !.cache = Touched(c, block, Capacity)]
  <2>1. r = [cache |-> Touched(c, block, Capacity), inserted |-> st.inserted]
    BY <1>4
  <2>2. /\ CacheFits(Touched(c, block, Capacity))
        /\ Touched(c, block, Capacity).resident = c.resident
    BY <1>2, TouchedFits
  <2> QED  BY <1>1, <2>1, <2>2
<1>5. CASE block \notin c.resident /\ r = [st EXCEPT !.cache = asked]
  <2>1. r = [cache |-> asked, inserted |-> st.inserted]
    BY <1>5
  <2> QED  BY <1>1, <1>2, <1>5, <2>1
<1>6. CASE /\ block \notin c.resident /\ full /\ victim # {}
           /\ r = [cache |-> Inserted(Evicted(asked, chosen), block), inserted |-> inserted]
  <2>1. chosen \in victim
    BY <1>6
  <2>2. chosen \in c.resident \ pinned
    BY <1>1, <2>1, VictimsMayGo
  <2>3. PICK less : less = Evicted(asked, chosen)
    OBVIOUS
  <2> HIDE DEF chosen
  <2>4. /\ CacheFits(less) /\ less.resident = c.resident \ {chosen}
        /\ Cardinality(less.resident) + 1 <= CacheBlocks
    BY <1>2, <2>2, <2>3, EvictedFits
  <2>5. PICK d : d = Inserted(less, block)
    OBVIOUS
  <2>6. CacheFits(d) /\ d.resident = less.resident \cup {block}
    BY <1>6, <2>4, <2>5, InsertedFits
  <2>7. r = [cache |-> d, inserted |-> inserted]
    BY <1>6, <2>3, <2>5
  <2> QED  BY <1>1, <1>6, <2>2, <2>4, <2>6, <2>7
<1>7. CASE /\ block \notin c.resident /\ ~full
           /\ r = [cache |-> Inserted(asked, block), inserted |-> inserted]
  <2>1. PICK d : d = Inserted(asked, block)
    OBVIOUS
  <2>2. Cardinality(asked.resident) + 1 <= CacheBlocks
    BY <1>2, <1>7
  <2>3. CacheFits(d) /\ d.resident = c.resident \cup {block}
    BY <1>2, <1>7, <2>1, <2>2, InsertedFits
  <2>4. r = [cache |-> d, inserted |-> inserted]
    BY <1>7, <2>1
  <2> QED  BY <1>1, <1>7, <2>3, <2>4
<1> QED  BY <1>3, <1>4, <1>5, <1>6, <1>7
-----------------------------------------------------------------------------
(* The two loops over a prefix.                                              *)

\* The hit blocks are resident, and the block after them is not.
LEMMA HitsAreResident ==
    ASSUME NEW prefix \in Seq(Block), NEW resident
    PROVE  LET hits == HitBlocks(resident, prefix)
           IN  /\ hits \in 0..Len(prefix)
               /\ \A i \in 1..hits : prefix[i] \in resident
<1> DEFINE misses == {i \in 1..Len(prefix) : prefix[i] \notin resident}
<1>1. CASE misses = {}
  BY <1>1 DEF HitBlocks
<1>2. CASE misses # {}
  <2>1. IsFiniteSet(misses) /\ misses \subseteq Int
    BY FS_Interval, FS_Subset
  <2>2. \E m \in misses : \A k \in misses : m <= k
    <3> HIDE DEF misses
    <3> QED  BY <1>2, <2>1, LeastExists
  <2>3. PICK m : m = Min(misses)
    OBVIOUS
  <2>4. m \in misses /\ \A k \in misses : m <= k
    <3> HIDE DEF misses
    <3> QED  BY <2>2, <2>3 DEF Min
  <2>5. HitBlocks(resident, prefix) = m - 1
    BY <1>2, <2>3 DEF HitBlocks
  <2>6. m - 1 \in 0..Len(prefix)
    BY <2>4
  <2>7. ASSUME NEW i \in 1..(m - 1) PROVE prefix[i] \in resident
    <3>1. i \in 1..Len(prefix) /\ ~(m <= i)
      BY <2>4
    <3> QED  BY <2>4, <3>1
  <2> QED  BY <2>5, <2>6, <2>7
<1> QED  BY <1>1, <1>2

LookedUpRec(f, c, prefix) ==
    f = [i \in 0..HitBlocks(c.resident, prefix) |->
            IF i = 0 THEN c ELSE Touched(f[i - 1], prefix[i], Capacity)]

\* A lookup changes no resident block.
LEMMA LookedUpFits ==
    ASSUME NEW c, CacheFits(c), NEW prefix \in Seq(Block)
    PROVE  /\ CacheFits(LookedUp(c, prefix, Capacity))
           /\ LookedUp(c, prefix, Capacity).resident = c.resident
<1>1. PICK n : n = HitBlocks(c.resident, prefix)
  OBVIOUS
<1>2. n \in 0..Len(prefix) /\ n \in Nat
  BY <1>1, HitsAreResident
<1> DEFINE Good == {x \in Cache : CacheFits(x) /\ x.resident = c.resident}
           pairs == (1..n) \X Good
           step == [p \in pairs |-> Touched(p[2], prefix[p[1]], Capacity)]
<1>3. c \in Good
  BY DEF CacheFits
<1>4. ASSUME NEW i \in 1..n, NEW x \in Good
      PROVE  /\ Touched(x, prefix[i], Capacity) \in Good
             /\ step[<<i, x>>] = Touched(x, prefix[i], Capacity)
  <2>1. prefix[i] \in Block
    BY <1>2
  <2>2. /\ CacheFits(Touched(x, prefix[i], Capacity))
        /\ Touched(x, prefix[i], Capacity).resident = x.resident
    BY <2>1, TouchedFits
  <2>3. Touched(x, prefix[i], Capacity) \in Good
    BY <2>2 DEF CacheFits
  <2> QED  BY <2>3
<1> HIDE DEF step, Good, pairs
<1>5. PICK f : Stepwise(f, n, c, step)
  BY <1>2, StepsAreDefined
<1>6. /\ f = [i \in 0..n |-> f[i]] /\ f[0] = c
      /\ \A i \in 1..n : f[i] = step[<<i, f[i - 1]>>]
  BY <1>2, <1>5 DEF Stepwise
<1>7. \A i \in 0..n : f[i] \in Good
  <2>1. ASSUME NEW i \in 1..n, f[i - 1] \in Good PROVE f[i] \in Good
    <3>1. PICK x : x = f[i - 1]
      OBVIOUS
    <3>2. step[<<i, x>>] \in Good
      BY <1>4, <2>1, <3>1
    <3> QED  BY <1>6, <3>1, <3>2
  <2> QED  BY <1>2, <1>3, <1>6, <2>1, StepsStay
<1>8. LookedUpRec(f, c, prefix)
  <2>1. ASSUME NEW i \in 0..n
        PROVE  f[i] = IF i = 0 THEN c ELSE Touched(f[i - 1], prefix[i], Capacity)
    <3>1. CASE i = 0
      BY <1>6, <3>1
    <3>2. CASE i # 0
      <4>1. i \in 1..n /\ i - 1 \in 0..n
        BY <1>2, <3>2
      <4>2. f[i - 1] \in Good
        BY <1>7, <4>1
      <4>3. step[<<i, f[i - 1]>>] = Touched(f[i - 1], prefix[i], Capacity)
        BY <1>4, <4>1, <4>2
      <4> QED  BY <1>6, <3>2, <4>1, <4>3
    <3> QED  BY <3>1, <3>2
  <2>2. f = [i \in 0..n |-> IF i = 0 THEN c ELSE Touched(f[i - 1], prefix[i], Capacity)]
    BY <1>6, <2>1
  <2> QED  BY <1>1, <2>2 DEF LookedUpRec
<1>9. PICK g : g = CHOOSE h : LookedUpRec(h, c, prefix)
  OBVIOUS
<1>10. LookedUpRec(g, c, prefix)
  BY <1>8, <1>9
<1>11. g[0] = c /\ \A i \in 1..n : g[i] = Touched(g[i - 1], prefix[i], Capacity)
  BY <1>1, <1>2, <1>10 DEF LookedUpRec
<1>12. \A i \in 0..n : g[i] \in Good
  <2>1. \A i \in 1..n : g[i - 1] \in Good => g[i] \in Good
    BY <1>4, <1>11
  <2> QED  BY <1>2, <1>3, <1>11, <2>1, StepsStay
<1>13. LookedUp(c, prefix, Capacity) = g[n]
  BY <1>1, <1>9 DEF LookedUp, LookedUpRec
<1> QED  BY <1>2, <1>12, <1>13 DEF Good

PlacedRec(f, c, prefix, pinned) ==
    f = [i \in 0..Len(prefix) |->
            IF i = 0 THEN [cache |-> c, inserted |-> {}]
            ELSE PlaceBlock(f[i - 1], prefix[i], pinned, Capacity)]

\* A placement keeps the pinned blocks, and changes no resident block if the
\* whole prefix is resident.
LEMMA PlacedFits ==
    ASSUME NEW c, CacheFits(c), NEW prefix \in Seq(Block), NEW pinned
    PROVE  LET placed == Placed(c, prefix, pinned, Capacity)
           IN  /\ CacheFits(placed)
               /\ c.resident \cap pinned \subseteq placed.resident
               /\ ToSet(prefix) \subseteq c.resident => placed.resident = c.resident
<1>1. PICK n : n = Len(prefix)
  OBVIOUS
<1>2. n \in Nat
  BY <1>1
<1> DEFINE Fits(st) == /\ st = [cache |-> st.cache, inserted |-> st.inserted]
                       /\ CacheFits(st.cache)
                       /\ c.resident \cap pinned \subseteq st.cache.resident
                       /\ ToSet(prefix) \subseteq c.resident => st.cache.resident = c.resident
           start == [cache |-> c, inserted |-> {}]
           Good == {st \in [cache : Cache, inserted : SUBSET Block] : Fits(st)}
           pairs == (1..n) \X Good
           step == [p \in pairs |-> PlaceBlock(p[2], prefix[p[1]], pinned, Capacity)]
<1>3. start \in Good
  BY DEF CacheFits
<1>4. ASSUME NEW i \in 1..n, NEW x \in Good
      PROVE  /\ PlaceBlock(x, prefix[i], pinned, Capacity) \in Good
             /\ step[<<i, x>>] = PlaceBlock(x, prefix[i], pinned, Capacity)
  <2>1. prefix[i] \in Block /\ prefix[i] \in ToSet(prefix)
    BY <1>1 DEF ToSet
  <2>2. PICK r : r = PlaceBlock(x, prefix[i], pinned, Capacity)
    OBVIOUS
  <2>3. /\ r = [cache |-> r.cache, inserted |-> r.inserted] /\ CacheFits(r.cache)
        /\ x.cache.resident \cap pinned \subseteq r.cache.resident
        /\ prefix[i] \in x.cache.resident => r.cache.resident = x.cache.resident
    BY <2>1, <2>2, BlockPlaced
  <2>4. r.inserted \in SUBSET Block
    BY <2>1, <2>2 DEF PlaceBlock
  <2>5. r \in Good
    BY <2>1, <2>3, <2>4 DEF CacheFits
  <2> QED  BY <2>2, <2>5
<1> HIDE DEF step, Good, pairs, start
<1>5. PICK f : Stepwise(f, n, start, step)
  BY <1>2, StepsAreDefined
<1>6. /\ f = [i \in 0..n |-> f[i]] /\ f[0] = start
      /\ \A i \in 1..n : f[i] = step[<<i, f[i - 1]>>]
  BY <1>2, <1>5 DEF Stepwise
<1>7. \A i \in 0..n : f[i] \in Good
  <2>1. ASSUME NEW i \in 1..n, f[i - 1] \in Good
        PROVE  f[i] \in Good
    <3>1. PICK x : x = f[i - 1]
      OBVIOUS
    <3>2. f[i] = PlaceBlock(x, prefix[i], pinned, Capacity) /\ f[i] \in Good
      BY <1>4, <1>6, <2>1, <3>1, ZenonT(40)
    <3> QED  BY <3>2
  <2> QED  BY <1>2, <1>3, <1>6, <2>1, StepsStay
<1>8. PlacedRec(f, c, prefix, pinned)
  <2>1. ASSUME NEW i \in 0..n
        PROVE  f[i] = IF i = 0 THEN start ELSE PlaceBlock(f[i - 1], prefix[i], pinned, Capacity)
    <3>1. CASE i = 0
      BY <1>6, <3>1
    <3>2. CASE i # 0
      <4>1. i \in 1..n /\ i - 1 \in 0..n
        BY <1>2, <3>2
      <4>2. f[i - 1] \in Good
        BY <1>7, <4>1
      <4> QED  BY <1>4, <1>6, <3>2, <4>1, <4>2
    <3> QED  BY <3>1, <3>2
  <2>2. f = [i \in 0..n |-> IF i = 0 THEN start
                             ELSE PlaceBlock(f[i - 1], prefix[i], pinned, Capacity)]
    BY <1>6, <2>1
  <2> QED  BY <1>1, <2>2 DEF PlacedRec, start
<1>9. PICK g : g = CHOOSE h : PlacedRec(h, c, prefix, pinned)
  OBVIOUS
<1>10. PlacedRec(g, c, prefix, pinned)
  BY <1>8, <1>9
<1>11. g[0] = start /\ \A i \in 1..n : g[i] = PlaceBlock(g[i - 1], prefix[i], pinned, Capacity)
  <2>1. g = [i \in 0..n |-> IF i = 0 THEN start
                             ELSE PlaceBlock(g[i - 1], prefix[i], pinned, Capacity)]
    BY <1>1, <1>10 DEF PlacedRec, start
  <2>2. ASSUME NEW i \in 0..n
        PROVE  g[i] = IF i = 0 THEN start ELSE PlaceBlock(g[i - 1], prefix[i], pinned, Capacity)
    BY <2>1
  <2> QED  BY <1>2, <2>2
<1>12. \A i \in 0..n : g[i] \in Good
  <2>1. \A i \in 1..n : g[i - 1] \in Good => g[i] \in Good
    BY <1>4, <1>11
  <2> QED  BY <1>2, <1>3, <1>11, <2>1, StepsStay
<1>13. Placed(c, prefix, pinned, Capacity) = g[n].cache
  BY <1>1, <1>9 DEF Placed, PlacedRec
<1>14. g[n] \in Good
  BY <1>2, <1>12
<1>15. Fits(g[n])
  BY <1>14 DEF Good
<1> QED  BY <1>13, <1>15
-----------------------------------------------------------------------------
(* What a request hits and what it computes.                                 *)

\* A list is what comes up to a place in it and what comes after.
LEMMA ListSplits ==
    ASSUME NEW S, NEW list \in Seq(S), NEW k \in 0..Len(list)
    PROVE  LET front == ToSet(SubSeq(list, 1, k))
               back  == ToSet(SubSeq(list, k + 1, Len(list)))
           IN  /\ front = {list[i] : i \in 1..k}
               /\ IsFiniteSet(front) /\ IsFiniteSet(back)
               /\ front \cup back = ToSet(list) /\ ToSet(list) \subseteq S
               /\ back = {} => k = Len(list)
<1>1. PICK front, back : /\ front = SubSeq(list, 1, k)
                         /\ back = SubSeq(list, k + 1, Len(list))
  OBVIOUS
<1>2. k \in Nat /\ Len(list) \in Nat /\ k <= Len(list)
  OBVIOUS
<1>3. /\ front \in Seq(S) /\ Len(front) = k
      /\ \A i \in 1..k : front[i] = list[i]
  BY <1>1, <1>2, SubSeqProperties
<1>4. /\ back \in Seq(S) /\ Len(back) = Len(list) - k
      /\ \A i \in 1..(Len(list) - k) : back[i] = list[k + i]
  BY <1>1, <1>2, SubSeqProperties
<1>5. ToSet(front) = {list[i] : i \in 1..k}
  BY <1>3 DEF ToSet
<1>6. IsFiniteSet(ToSet(front)) /\ IsFiniteSet(ToSet(back))
  <2>1. IsFiniteSet(1..k) /\ IsFiniteSet(1..(Len(list) - k))
    BY <1>2, FS_Interval
  <2>2. DOMAIN front = 1..k /\ DOMAIN back = 1..(Len(list) - k)
    BY <1>3, <1>4
  <2> QED  BY <2>1, <2>2, ImageIsFinite DEF ToSet
<1>7. ToSet(front) \cup ToSet(back) = ToSet(list)
  <2>1. ToSet(back) \subseteq ToSet(list)
    <3>1. ASSUME NEW i \in 1..(Len(list) - k) PROVE back[i] \in ToSet(list)
      <4>1. k + i \in 1..Len(list)
        BY <1>2
      <4>2. back[i] = list[k + i]
        BY <1>4
      <4> QED  BY <4>1, <4>2 DEF ToSet
    <3> QED  BY <1>4, <3>1 DEF ToSet
  <2>2. ToSet(front) \subseteq ToSet(list)
    BY <1>2, <1>5 DEF ToSet
  <2>3. ASSUME NEW i \in 1..Len(list) PROVE list[i] \in ToSet(front) \cup ToSet(back)
    <3>1. CASE i <= k
      BY <1>5, <3>1
    <3>2. CASE i > k
      <4>1. i - k \in 1..(Len(list) - k) /\ k + (i - k) = i
        BY <1>2, <3>2
      <4>2. i - k \in DOMAIN back /\ back[i - k] = list[i]
        BY <1>4, <4>1
      <4> QED  BY <4>2 DEF ToSet
    <3> QED  BY <1>2, <3>1, <3>2
  <2>4. ToSet(list) \subseteq ToSet(front) \cup ToSet(back)
    BY <2>3 DEF ToSet
  <2> QED  BY <2>1, <2>2, <2>4
<1>8. ToSet(back) = {} => k = Len(list)
  <2>1. ASSUME k # Len(list) PROVE back[1] \in ToSet(back)
    BY <1>2, <1>4, <2>1 DEF ToSet
  <2> QED  BY <2>1
<1>9. ToSet(list) \subseteq S
  BY DEF ToSet
<1> QED  BY <1>1, <1>5, <1>6, <1>7, <1>8, <1>9

LEMMA PrefixFits ==
    ASSUME TypeOK, NEW r \in DOMAIN requests
    PROVE  /\ Prefix(r) \in PrefixChains /\ Prefix(r) \in Seq(Block)
           /\ requests[r].node \in Nodes
<1>1. requests \in Seq([prefix: PrefixChains, node: Nodes])
  BY DEF TypeOK
<1>2. requests[r] \in [prefix: PrefixChains, node: Nodes]
  <2>1. PICK list : list = requests
    OBVIOUS
  <2>2. list \in Seq([prefix: PrefixChains, node: Nodes]) /\ r \in DOMAIN list
    BY <1>1, <2>1
  <2>3. r \in 1..Len(list)
    BY <2>2
  <2>4. list[r] \in [prefix: PrefixChains, node: Nodes]
    BY <2>2, <2>3, ElementOfSeq
  <2> QED  BY <2>1, <2>4
<1> QED  BY <1>2, SimulatorAssumption DEF Prefix

LEMMA HitsAndMisses ==
    ASSUME TypeOK, NEW r \in DOMAIN requests, NEW hits \in 0..Len(Prefix(r))
    PROVE  /\ HitSet(r, hits) \cup MissSet(r, hits) = ToSet(Prefix(r))
           /\ ToSet(Prefix(r)) \subseteq Block
           /\ IsFiniteSet(MissSet(r, hits))
           /\ Uncached(r, hits) \in Nat
           /\ MissSet(r, hits) # {} => Uncached(r, hits) > 0
<1>1. PICK list, miss : list = Prefix(r) /\ miss = MissSet(r, hits)
  OBVIOUS
<1>2. /\ HitSet(r, hits) \cup miss = ToSet(list) /\ ToSet(list) \subseteq Block
      /\ IsFiniteSet(miss)
  BY <1>1, PrefixFits, ListSplits DEF HitSet, MissSet
<1>3. \A b \in miss : BlockTokens[b] \in Nat \ {0}
  BY <1>2, SimulatorAssumption
<1>4. Uncached(r, hits) = SumFunctionOnSet(BlockTokens, miss)
  BY <1>1 DEF Uncached
<1>5. SumFunctionOnSet(BlockTokens, miss) \in Nat
  BY <1>2, <1>3, SumOfNaturals
<1>6. ASSUME NEW b \in miss PROVE SumFunctionOnSet(BlockTokens, miss) > 0
  <2>1. IsFiniteSet(miss \ {b}) /\ BlockTokens[b] \in Nat \ {0}
    BY <1>2, <1>3, FS_Subset
  <2>2. SumFunctionOnSet(BlockTokens, miss \ {b}) \in Nat
    BY <1>3, <2>1, SumOfNaturals
  <2>3. SumFunctionOnSet(BlockTokens, miss)
           = BlockTokens[b] + SumFunctionOnSet(BlockTokens, miss \ {b})
    BY <1>2, <1>3, SumTakesOut
  <2> QED  BY <2>1, <2>2, <2>3
<1> QED  BY <1>1, <1>2, <1>4, <1>5, <1>6
-----------------------------------------------------------------------------
(* The starts of a node.                                                     *)

\* The rank of an element below a limit: the chosen ones are at most as many,
\* and all of them if they are fewer.
LEMMA FirstFew ==
    ASSUME NEW idle, IsFiniteSet(idle), idle \subseteq Int, NEW limit \in Nat
    PROVE  LET chosen == {i \in idle : Cardinality({j \in idle : j < i}) < limit}
           IN  /\ IsFiniteSet(chosen) /\ Cardinality(chosen) <= limit
               /\ Cardinality(chosen) < limit => chosen = idle
<1> DEFINE Below(i) == {j \in idle : j < i}
           chosen == {i \in idle : Cardinality(Below(i)) < limit}
<1>0. ASSUME NEW i \in idle, NEW j \in idle, j <= i PROVE Below(j) \subseteq Below(i)
  <2>1. \A k \in idle : k \in Int
    OBVIOUS
  <2>2. ASSUME NEW k \in idle, k < j PROVE k < i
    BY <1>0, <2>1, <2>2
  <2> QED  BY <2>2
<1>1. \A i \in idle : IsFiniteSet(Below(i)) /\ Cardinality(Below(i)) \in Nat
  BY FS_Subset, FS_CardinalityType
<1>2. IsFiniteSet(chosen) /\ chosen \subseteq idle
  BY FS_Subset
<1>3. ASSUME NEW i \in chosen, NEW j \in idle, j <= i PROVE j \in chosen
  <2>1. Below(j) \subseteq Below(i)
    BY <1>0, <1>3
  <2>2. Cardinality(Below(j)) <= Cardinality(Below(i))
    BY <1>1, <1>2, <2>1, FS_Subset
  <2>3. /\ Cardinality(Below(i)) \in Nat /\ Cardinality(Below(j)) \in Nat
        /\ Cardinality(Below(i)) < limit
    BY <1>1
  <2>4. Cardinality(Below(j)) < limit
    BY <2>2, <2>3
  <2> QED  BY <2>4
<1>4. Cardinality(chosen) <= limit
  <2>1. CASE chosen = {}
    <3>1. Cardinality(chosen) = 0
      BY <2>1, FS_EmptySet
    <3> HIDE DEF chosen
    <3> QED  BY <3>1
  <2>2. CASE chosen # {}
    <3>1. PICK m \in chosen : \A i \in chosen : i <= m
      <4> HIDE DEF chosen
      <4> QED  BY <1>2, <2>2, GreatestExists
    <3>2. chosen = Below(m) \cup {m} /\ m \notin Below(m)
      <4>1. Below(m) \subseteq chosen
        <5>1. \A j \in Below(m) : j \in idle /\ j <= m
          BY <1>2
        <5> HIDE DEF Below, chosen
        <5> QED  BY <1>3, <3>1, <5>1
      <4>2. chosen \subseteq Below(m) \cup {m}
        <5>1. ASSUME NEW i \in chosen, i # m PROVE i < m
          <6>1. i \in Int /\ m \in Int /\ i <= m
            BY <1>2, <3>1
          <6> QED  BY <5>1, <6>1
        <5> QED  BY <1>2, <5>1
      <4>3. m \notin Below(m)
        BY <1>2, <3>1
      <4> QED  BY <3>1, <4>1, <4>2, <4>3
    <3>3. IsFiniteSet(Below(m)) /\ Cardinality(Below(m)) \in Nat /\ Cardinality(Below(m)) < limit
      BY <1>1, <3>1
    <3>4. Cardinality(chosen) = Cardinality(Below(m)) + 1
      <4> HIDE DEF Below, chosen
      <4> QED  BY <3>2, <3>3, FS_AddElement
    <3> QED  BY <3>3, <3>4
  <2> QED  BY <2>1, <2>2
<1>5. ASSUME chosen # idle PROVE ~(Cardinality(chosen) < limit)
  <2>1. PICK m \in idle \ chosen : \A i \in idle \ chosen : m <= i
    <3>1. IsFiniteSet(idle \ chosen) /\ idle \ chosen # {} /\ idle \ chosen \subseteq Int
      BY <1>2, <1>5, FS_Subset
    <3> HIDE DEF chosen
    <3> QED  BY <3>1, LeastExists
  <2>2. Below(m) \subseteq chosen
    <3>1. ASSUME NEW j \in idle, j < m, j \notin chosen PROVE FALSE
      BY <2>1, <3>1
    <3> QED  BY <3>1
  <2>3. Cardinality(Below(m)) <= Cardinality(chosen)
    BY <1>2, <2>2, FS_Subset
  <2>4. ~(Cardinality(Below(m)) < limit) /\ Cardinality(Below(m)) \in Nat
    BY <1>1, <2>1
  <2>5. Cardinality(chosen) \in Nat
    BY <1>2, FS_CardinalityType
  <2> QED  BY <2>3, <2>4, <2>5
<1> QED  BY <1>2, <1>4, <1>5

\* As many items are scheduled as starts are ahead.
LEMMA ScheduledAreStarts ==
    ASSUME NEW q, NEW S, q \in Seq(S), NEW starts, NEW running,
           QueueHolds(q, starts, running),
           \A e, f \in starts : e.req = f.req => e = f
    PROVE  LET scheduled == {i \in 1..Len(q) : q[i].scheduled}
           IN  /\ IsFiniteSet(scheduled) /\ IsFiniteSet(starts)
               /\ Cardinality(starts) = Cardinality(scheduled)
<1>1. PICK scheduled : scheduled = {i \in 1..Len(q) : q[i].scheduled}
  OBVIOUS
<1>2. IsFiniteSet(scheduled)
  BY <1>1, FS_Interval, FS_Subset
<1>3. PICK m : m = [i \in scheduled |-> CHOOSE e \in starts : e.req = q[i].req]
  OBVIOUS
<1>4. DOMAIN q = 1..Len(q)
  OBVIOUS
<1>5. ASSUME NEW i \in scheduled PROVE m[i] \in starts /\ m[i].req = q[i].req
  <2>1. \E e \in starts : e.req = q[i].req
    BY <1>1, <1>4 DEF QueueHolds
  <2> QED  BY <1>3, <2>1
<1>6. m \in Injection(scheduled, starts)
  <2>1. m \in [scheduled -> starts]
    BY <1>3, <1>5
  <2>2. \A i, j \in scheduled : m[i] = m[j] => i = j
    BY <1>1, <1>4, <1>5 DEF QueueHolds
  <2> QED  BY <2>1, <2>2 DEF Injection, IsInjective
<1>7. m \in Surjection(scheduled, starts)
  <2>1. ASSUME NEW e \in starts PROVE \E i \in scheduled : m[i] = e
    <3>1. PICK i \in DOMAIN q : q[i].req = e.req
      BY DEF QueueHolds
    <3>2. i \in scheduled
      BY <1>1, <1>4, <3>1 DEF QueueHolds
    <3>3. m[i].req = e.req /\ m[i] \in starts
      BY <1>5, <3>1, <3>2
    <3> QED  BY <3>2, <3>3
  <2>2. m \in [scheduled -> starts]
    BY <1>3, <1>5
  <2> QED  BY <2>1, <2>2 DEF Surjection
<1>8. m \in Bijection(scheduled, starts)
  BY <1>6, <1>7 DEF Bijection
<1>9. IsFiniteSet(starts) /\ Cardinality(starts) = Cardinality(scheduled)
  BY <1>2, <1>8, FS_Bijection DEF ExistsBijection
<1> QED  BY <1>1, <1>2, <1>9

QueueItem == [req: 1..MaxRequests, scheduled: BOOLEAN]

\* The starts a node schedules: of items of its queue that were not promised.
StartsNow(news, q, time) ==
    \A e \in news :
        /\ e.kind = "start" /\ e.time = time /\ e.hits = 0
        /\ e.waitStarted = None /\ e.waited = {}
        /\ \E i \in DOMAIN q : e.req = q[i].req /\ ~q[i].scheduled

SameItems(queue, q) ==
    DOMAIN queue = DOMAIN q /\ \A i \in DOMAIN q : queue[i].req = q[i].req

\* A node that has not promised more slots than it has.
SlotsSuffice(node, running) ==
    /\ node.active = Cardinality(running)
    /\ node.active + Cardinality(ScheduledItems(node)) <= config.concurrency

WithQueue(node, queue) == [node EXCEPT !.queue = queue]

\* A node that has scheduled its starts, and the starts ahead of it then.
HasScheduled(node, time, next, news, ahead, running) ==
    /\ next = WithQueue(node, next.queue) /\ next \in NodeState
    /\ SameItems(next.queue, node.queue)
    /\ QueueHolds(next.queue, ahead, running)
    /\ SlotsHold(next, running)
    /\ news \subseteq Event /\ IsFiniteSet(news) /\ OneEach(news)
    /\ StartsNow(news, node.queue, time)
    /\ Cardinality(ToSchedule(node)) \in Nat

\* _schedule_starts: a start for each item it chooses, and no slot is left
\* while somebody queues.
LEMMA StartsScheduled ==
    ASSUME config \in Configs, NEW node, node \in NodeState, NEW time, time \in Nat,
           NEW seq, seq \in Nat, NEW starts, NEW running,
           QueueHolds(node.queue, starts, running), SlotsSuffice(node, running),
           NEW next, next = Rescheduled(node), NEW news, news = NewStarts(node, time, seq),
           NEW ahead, ahead = starts \cup news
    PROVE  HasScheduled(node, time, next, news, ahead, running)
<1>1. PICK q, scheduled, idle, chosen :
            /\ q = node.queue /\ scheduled = ScheduledItems(node)
            /\ idle = (1..Len(q)) \ scheduled /\ chosen = ToSchedule(node)
  OBVIOUS
<1>0. /\ node.active = Cardinality(running)
      /\ node.active + Cardinality(scheduled) <= config.concurrency
  BY <1>1 DEF SlotsSuffice
<1>2. /\ q \in Seq(QueueItem) /\ DOMAIN q = 1..Len(q) /\ Len(q) \in Nat
      /\ node.active \in Nat /\ config.concurrency \in Nat
  <2>1. q \in Seq(QueueItem)
    BY <1>1 DEF NodeState, QueueItem
  <2>2. config.concurrency \in Nat
    BY SimulatorAssumption
  <2> QED  BY <2>1, <2>2 DEF NodeState
<1>3. \A i \in 1..Len(q) : q[i] \in QueueItem
  BY <1>2
<1>4. /\ scheduled = {i \in 1..Len(q) : q[i].scheduled}
      /\ IsFiniteSet(scheduled) /\ IsFiniteSet(idle) /\ idle \subseteq Int
      /\ Cardinality(scheduled) \in Nat
  <2>1. scheduled = {i \in 1..Len(q) : q[i].scheduled}
    BY <1>1 DEF ScheduledItems
  <2>2. IsFiniteSet(1..Len(q)) /\ scheduled \subseteq 1..Len(q) /\ idle \subseteq 1..Len(q)
    <3>1. IsFiniteSet(1..Len(q))
      BY <1>2, FS_Interval
    <3> QED  BY <1>1, <2>1, <3>1
  <2>3. IsFiniteSet(scheduled) /\ IsFiniteSet(idle)
    BY <2>2, FS_Subset
  <2> QED  BY <2>1, <2>2, <2>3, FS_CardinalityType
<1>5. PICK limit : limit = config.concurrency - (node.active + Cardinality(scheduled))
  OBVIOUS
<1>6. limit \in Nat
  BY <1>0, <1>1, <1>2, <1>4, <1>5
<1>7. /\ chosen = {i \in idle : Cardinality({j \in idle : j < i}) < limit}
      /\ \A i \in idle : Cardinality({j \in idle : j < i}) \in Nat
  <2>1. \A i \in idle : Cardinality({j \in idle : j < i}) \in Nat
    BY <1>4, FS_Subset, FS_CardinalityType
  <2>2. chosen = {i \in idle : node.active + Cardinality(scheduled)
                                 + Cardinality({j \in idle : j < i}) < config.concurrency}
    BY <1>1 DEF ToSchedule
  <2>3. \A i \in idle : (node.active + Cardinality(scheduled)
                           + Cardinality({j \in idle : j < i}) < config.concurrency)
                        <=> Cardinality({j \in idle : j < i}) < limit
    BY <1>2, <1>4, <1>5, <2>1, SMTT(30)
  <2> QED  BY <2>1, <2>2, <2>3
<1>8. /\ IsFiniteSet(chosen) /\ Cardinality(chosen) <= limit
      /\ Cardinality(chosen) < limit => chosen = idle
      /\ Cardinality(chosen) \in Nat
  BY <1>4, <1>6, <1>7, FirstFew, FS_CardinalityType
<1>9. chosen \subseteq 1..Len(q) /\ chosen \cap scheduled = {} /\ idle \cup scheduled = 1..Len(q)
  BY <1>1, <1>4, <1>7
<1>10. PICK queue : queue = [i \in DOMAIN q |->
                        IF i \in chosen THEN [q[i] EXCEPT !.scheduled = TRUE] ELSE q[i]]
  OBVIOUS
<1>11. next = [node EXCEPT !.queue = queue]
  BY <1>1, <1>10 DEF Rescheduled
<1>12. /\ queue \in Seq(QueueItem) /\ DOMAIN queue = 1..Len(q) /\ Len(queue) = Len(q)
       /\ \A i \in 1..Len(q) : /\ queue[i].req = q[i].req
                               /\ queue[i].scheduled <=> i \in chosen \/ i \in scheduled
  <2>1. ASSUME NEW i \in 1..Len(q)
        PROVE  /\ queue[i] \in QueueItem /\ queue[i].req = q[i].req
               /\ queue[i].scheduled <=> i \in chosen \/ i \in scheduled
    <3>1. CASE i \in chosen
      <4>1. queue[i] = [q[i] EXCEPT !.scheduled = TRUE]
        BY <1>2, <1>10, <3>1
      <4> QED  BY <1>3, <3>1, <4>1 DEF QueueItem
    <3>2. CASE i \notin chosen
      <4>1. queue[i] = q[i]
        BY <1>2, <1>10, <3>2
      <4> QED  BY <1>3, <1>4, <3>2, <4>1 DEF QueueItem
    <3> QED  BY <3>1, <3>2
  <2>2. queue \in [1..Len(q) -> QueueItem] /\ DOMAIN queue = 1..Len(q)
    BY <1>2, <1>10, <2>1
  <2>3. queue \in Seq(QueueItem) /\ Len(queue) = Len(q)
    BY <1>2, <2>2
  <2> QED  BY <2>1, <2>2, <2>3
<1>13. /\ next \in NodeState /\ next.queue = queue /\ next.active = node.active
  BY <1>11, <1>12 DEF NodeState, QueueItem
<1>14. PICK m : m = [i \in chosen |-> StartEvent(time,
                        seq + Cardinality({j \in chosen : j < i}), q[i].req)]
  OBVIOUS
<1>15. news = {m[i] : i \in chosen}
  <2>1. news = {StartEvent(time, seq + Cardinality({j \in chosen : j < i}), q[i].req)
                   : i \in chosen}
    BY <1>1 DEF NewStarts
  <2> QED  BY <1>14, <2>1
<1>16. ASSUME NEW i \in chosen
       PROVE  /\ m[i] \in Event /\ m[i].kind = "start" /\ m[i].time = time /\ m[i].hits = 0
              /\ m[i].waitStarted = None /\ m[i].waited = {} /\ m[i].req = q[i].req
  <2>1. PICK number : number = seq + Cardinality({j \in chosen : j < i})
    OBVIOUS
  <2>2. number \in Nat
    BY <1>8, <2>1, FS_Subset, FS_CardinalityType
  <2>3. m[i] = StartEvent(time, number, q[i].req)
    BY <1>14, <2>1
  <2>4. q[i].req \in 1..MaxRequests
    BY <1>3, <1>9 DEF QueueItem
  <2> QED  BY <2>2, <2>3, <2>4 DEF StartEvent, Event
<1>17. IsFiniteSet(news)
  BY <1>8, <1>15, ImageIsFinite
<1>18. QueueHolds(q, starts, running)
  BY <1>1
<1>19. QueueHolds(queue, starts \cup news, running)
  <2>1. \A i, j \in DOMAIN queue : queue[i].req = queue[j].req => i = j
    BY <1>2, <1>12, <1>18 DEF QueueHolds
  <2>2. ASSUME NEW i \in DOMAIN queue
        PROVE  queue[i].scheduled <=> \E e \in starts \cup news : e.req = queue[i].req
    <3>1. i \in 1..Len(q) /\ queue[i].req = q[i].req
          /\ (queue[i].scheduled <=> i \in chosen \/ i \in scheduled)
      BY <1>12
    <3>2. i \in scheduled <=> \E e \in starts : e.req = q[i].req
      BY <1>2, <1>4, <1>18, <3>1 DEF QueueHolds
    <3>3. i \in chosen <=> \E e \in news : e.req = q[i].req
      <4>1. ASSUME NEW j \in chosen, m[j].req = q[i].req PROVE i = j
        BY <1>2, <1>9, <1>16, <1>18, <3>1, <4>1 DEF QueueHolds
      <4> QED  BY <1>15, <1>16, <4>1
    <3> QED  BY <3>1, <3>2, <3>3
  <2>3. ASSUME NEW e \in starts \cup news PROVE \E i \in DOMAIN queue : queue[i].req = e.req
    <3>1. CASE e \in starts
      BY <1>2, <1>12, <1>18, <3>1 DEF QueueHolds
    <3>2. CASE e \in news
      BY <1>9, <1>12, <1>15, <1>16, <3>2
    <3> QED  BY <3>1, <3>2
  <2>4. \A e \in running : \A i \in DOMAIN queue : queue[i].req # e.req
    BY <1>2, <1>12, <1>18 DEF QueueHolds
  <2> QED  BY <2>1, <2>2, <2>3, <2>4 DEF QueueHolds
<1>20. SlotsHold(next, running)
  <2>1. ScheduledItems(next) = scheduled \cup chosen
    BY <1>4, <1>9, <1>12, <1>13 DEF ScheduledItems
  <2>2. Cardinality(scheduled \cup chosen) = Cardinality(scheduled) + Cardinality(chosen)
    <3>1. Cardinality(scheduled \cap chosen) = 0
      BY <1>9, FS_EmptySet
    <3>2. Cardinality(scheduled \cup chosen) = Cardinality(scheduled)
             + Cardinality(chosen) - Cardinality(scheduled \cap chosen)
      BY <1>4, <1>8, FS_Union
    <3> QED  BY <1>4, <1>8, <3>1, <3>2
  <2>3. PICK busy : busy = next.active + Cardinality(ScheduledItems(next))
    OBVIOUS
  <2>4. busy = node.active + Cardinality(scheduled) + Cardinality(chosen)
    BY <1>2, <1>4, <1>8, <1>13, <2>1, <2>2, <2>3
  <2>5. busy <= config.concurrency /\ (busy < config.concurrency => chosen = idle)
    BY <1>0, <1>2, <1>4, <1>5, <1>8, <2>4
  <2>6. chosen = idle => ScheduledItems(next) = DOMAIN next.queue
    BY <1>9, <1>12, <1>13, <2>1
  <2> QED  BY <1>0, <1>13, <2>3, <2>5, <2>6 DEF SlotsHold
<1>21. StartsNow(news, node.queue, time)
  <2>1. ASSUME NEW e \in news
        PROVE  /\ e.kind = "start" /\ e.time = time /\ e.hits = 0
               /\ e.waitStarted = None /\ e.waited = {}
               /\ \E i \in DOMAIN q : e.req = q[i].req /\ ~q[i].scheduled
    <3>1. PICK i \in chosen : e = m[i]
      BY <1>15
    <3>2. i \in DOMAIN q /\ ~q[i].scheduled
      BY <1>2, <1>4, <1>9
    <3> QED  BY <1>16, <3>1, <3>2
  <2> QED  BY <1>1, <2>1 DEF StartsNow
<1>22. OneEach(news)
  <2>1. ASSUME NEW e \in news, NEW f \in news, e.req = f.req PROVE e = f
    <3>1. PICK i \in chosen, j \in chosen : e = m[i] /\ f = m[j]
      BY <1>15
    <3>2. q[i].req = q[j].req /\ i \in DOMAIN q /\ j \in DOMAIN q
      BY <1>2, <1>9, <1>16, <2>1, <3>1
    <3> QED  BY <1>18, <3>1, <3>2 DEF QueueHolds
  <2> QED  BY <2>1 DEF OneEach
<1>23. news \subseteq Event
  BY <1>15, <1>16
<1>24. next = WithQueue(node, next.queue) /\ SameItems(next.queue, q)
  BY <1>2, <1>11, <1>12, <1>13 DEF SameItems, WithQueue
<1>25. QueueHolds(next.queue, ahead, running)
  BY <1>13, <1>19
<1>26. Cardinality(ToSchedule(node)) \in Nat
  BY <1>1, <1>8
<1>27. SameItems(next.queue, node.queue)
  BY <1>1, <1>24
<1> QED  BY <1>13, <1>17, <1>20, <1>21, <1>22, <1>23, <1>24, <1>25, <1>26, <1>27
         DEF HasScheduled
-----------------------------------------------------------------------------
(* What an event leaves alone.                                               *)

\* The requests that have arrived are never changed.
RequestsKept ==
    \A r \in DOMAIN requests : r \in DOMAIN requests' /\ requests'[r] = requests[r]

LEMMA SetsKept ==
    ASSUME RequestsKept
    PROVE  \A r \in DOMAIN requests :
              /\ Prefix(r)' = Prefix(r)
              /\ \A hits : /\ HitSet(r, hits)' = HitSet(r, hits)
                           /\ MissSet(r, hits)' = MissSet(r, hits)
BY DEF RequestsKept, Prefix, HitSet, MissSet

\* Pins of a node whose running requests are the same and still find their
\* hits, and where nobody who waits has left.
LEMMA PinsStay ==
    ASSUME NEW n, PinsFit(n), RequestsKept, config' = config,
           \A e \in Running(n) : /\ e.req \in DOMAIN requests
                                 /\ HitSet(e.req, e.hits) \subseteq nodes'[n].cache.resident,
           nodes'[n].activePins = nodes[n].activePins,
           nodes'[n].waiterPins = nodes[n].waiterPins,
           nodes'[n].inflight = nodes[n].inflight,
           Running(n)' = Running(n), Starts(n) \subseteq Starts(n)'
    PROVE  PinsFit(n)'
<1>1. \A e \in Running(n) : /\ HitSet(e.req, e.hits)' = HitSet(e.req, e.hits)
                            /\ MissSet(e.req, e.hits)' = MissSet(e.req, e.hits)
  BY SetsKept
<1>2. \A b : {e \in Running(n)' : b \in HitSet(e.req, e.hits)'}
                = {e \in Running(n) : b \in HitSet(e.req, e.hits)}
  BY <1>1
<1>3. \A e \in Running(n)' : HitSet(e.req, e.hits)' \subseteq nodes'[n].cache.resident
  BY <1>1
<1>4. ASSUME NEW b \in Block
      PROVE  /\ nodes'[n].activePins[b]
                   = Cardinality({e \in Running(n)' : b \in HitSet(e.req, e.hits)'})
             /\ b \in nodes'[n].waiterPins => \E e \in Starts(n)' : b \in e.waited
  <2>1. /\ nodes[n].activePins[b]
              = Cardinality({e \in Running(n) : b \in HitSet(e.req, e.hits)})
        /\ b \in nodes[n].waiterPins => \E e \in Starts(n) : b \in e.waited
    BY DEF PinsFit
  <2>2. {e \in Running(n)' : b \in HitSet(e.req, e.hits)'}
           = {e \in Running(n) : b \in HitSet(e.req, e.hits)}
    BY <1>2
  <2> QED  BY <2>1, <2>2
<1>5. ASSUME NEW b \in Block
      PROVE  nodes'[n].inflight[b] # None =>
                \E e \in Running(n)' : /\ b \in MissSet(e.req, e.hits)'
                                       /\ e.time = nodes'[n].inflight[b]
  <2>1. nodes[n].inflight[b] # None =>
           \E e \in Running(n) : /\ b \in MissSet(e.req, e.hits)
                                 /\ e.time = nodes[n].inflight[b]
    BY DEF PinsFit
  <2> QED  BY <1>1, <2>1
<1>6. config'.visibility = "INFLIGHT_DEDUP_WAIT" =>
        /\ \A e \in Running(n)' : \A b \in MissSet(e.req, e.hits)' : nodes'[n].inflight[b] # None
        /\ \A e, f \in Running(n)' :
              e # f => MissSet(e.req, e.hits)' \cap MissSet(f.req, f.hits)' = {}
  BY <1>1, SMTT(30) DEF PinsFit
<1> QED  BY <1>3, <1>4, <1>5, <1>6 DEF PinsFit

\* A node no event is about.
LEMMA OtherNodes ==
    ASSUME SimInv, RequestsKept, config' = config, NEW n \in Nodes, nodes'[n] = nodes[n],
           Starts(n)' = Starts(n), Running(n)' = Running(n)
    PROVE  CacheFits(nodes[n].cache)' /\ QueueFits(n)' /\ SlotsFit(n)' /\ PinsFit(n)'
<1>1. CacheFits(nodes[n].cache) /\ QueueFits(n) /\ SlotsFit(n) /\ PinsFit(n)
  BY DEF SimInv, NodeInv
<1>2. \A e \in Running(n) : e.req \in DOMAIN requests
  BY DEF SimInv, EventsInv, Running
<1>3. CacheFits(nodes[n].cache)'
  BY <1>1
<1>4. QueueFits(n)'
  BY <1>1 DEF QueueFits, RequestsKept
<1>5. SlotsFit(n)'
  BY <1>1 DEF SlotsFit, SlotsHold
<1>6. PinsFit(n)'
  <2>1. \A e \in Running(n) : /\ e.req \in DOMAIN requests
                              /\ HitSet(e.req, e.hits) \subseteq nodes'[n].cache.resident
    BY <1>1, <1>2 DEF PinsFit
  <2> QED  BY <1>1, <2>1, PinsStay
<1> QED  BY <1>3, <1>4, <1>5, <1>6

\* The event on top of the heap is the earliest.
LEMMA DueIsFirst ==
    ASSUME SimInv, NEW e \in events, Due(e)
    PROVE  /\ e \in Event /\ e.time \in Nat /\ clock \in Nat /\ clock <= e.time
           /\ \A f \in events : f \in Event /\ e.time <= f.time
           /\ e.req \in DOMAIN requests /\ requests[e.req].node \in Nodes
           /\ Prefix(e.req) \in Seq(Block) /\ config.queued
<1>1. TypeOK /\ events \subseteq Event /\ clock \in Nat
  BY DEF SimInv, TypeOK
<1>2. clock <= e.time /\ e.req \in DOMAIN requests
  BY DEF SimInv, EventsInv
<1>3. \A f \in events : f \in Event /\ f.time \in Nat
  BY <1>1 DEF Event
<1>4. ASSUME NEW f \in events PROVE e.time <= f.time
  <2>1. CASE f = e
    BY <1>3, <2>1
  <2>2. CASE f # e
    <3>1. Before(e, f)
      BY <2>2 DEF Due
    <3>2. e.time < f.time \/ e.time = f.time
      BY <3>1 DEF Before
    <3> QED  BY <1>3, <3>2
  <2> QED  BY <2>1, <2>2
<1>5. config.queued
  <2>1. config.queued \in BOOLEAN
    BY <1>1, SimulatorAssumption DEF TypeOK
  <2> QED  BY <2>1 DEF SimInv, OnePass
<1> QED  BY <1>1, <1>2, <1>3, <1>4, <1>5, PrefixFits

\* Time passes for a history that is not written to.
LEMMA HistoryAges ==
    ASSUME SimInv, NEW n \in Nodes, history'[n] = history[n], observed' = observed,
           nodes'[n].cache.resident = nodes[n].cache.resident,
           residentThen'[n] = residentThen[n], clock' \in Nat, clock <= clock'
    PROVE  HistoryFits(n)'
<1>1. HistoryFits(n) /\ clock \in Nat /\ history[n] \subseteq Interval
  BY DEF SimInv, NodeInv, TypeOK
<1>2. \A x \in history[n] : x.from \in Nat /\ x.to \in Nat \cup {None} /\ x.from <= clock /\ x.to <= clock
  BY <1>1 DEF HistoryFits, Interval
<1>3. \A x \in history'[n] : x.from <= clock' /\ x.to <= clock'
  BY <1>1, <1>2 DEF None
<1>4. {x.block : x \in {y \in history'[n] : y.to = None}} = nodes'[n].cache.resident
  BY <1>1 DEF HistoryFits, Resident
<1>5. observed' # None =>
         residentThen'[n] = {x.block : x \in {y \in history'[n] : Covers(y, observed')}}
  BY <1>1 DEF HistoryFits
<1> QED  BY <1>3, <1>4, <1>5 DEF HistoryFits, Resident

\* A start that finds its blocks in flight comes back when they are done.
LEMMA WaitKeeps ==
    ASSUME SimInv, NEW e \in events, e.kind = "start", Due(e), clock' = e.time, Wait(e),
           UNCHANGED <<config, requests, observed, history, residentThen>>
    PROVE  SimInv'
<1>1. PICK n, waited, top, started, again :
            /\ n = requests[e.req].node /\ waited = WaitedFor(e)
            /\ top = Max({nodes[n].inflight[b] : b \in waited}) /\ started = WaitStarted(e)
            /\ again = [e EXCEPT !.time = top, !.seq = sequence, !.waitStarted = started,
                                 !.waited = e.waited \cup waited]
  BY Zenon
<1>2. /\ waited # {} /\ events' = (events \ {e}) \cup {again}
      /\ nodes' = [nodes EXCEPT ![n].waiterPins = nodes[n].waiterPins \cup waited]
      /\ sequence' = sequence + 1 /\ decisions' = decisions
  <2>1. /\ WaitedFor(e) # {}
        /\ nodes' = [nodes EXCEPT ![requests[e.req].node].waiterPins = @ \cup WaitedFor(e)]
        /\ events' = (events \ {e}) \cup
              {[e EXCEPT !.time = Max({nodes[requests[e.req].node].inflight[b] : b \in WaitedFor(e)}),
                         !.seq = sequence,
                         !.waitStarted = WaitStarted(e),
                         !.waited = @ \cup WaitedFor(e)]}
        /\ sequence' = sequence + 1 /\ decisions' = decisions
    BY Zenon DEF Wait
  <2>2. PICK late : late = Max({nodes[requests[e.req].node].inflight[b] : b \in WaitedFor(e)})
    OBVIOUS
  <2>3. late = top
    <3>1. {nodes[requests[e.req].node].inflight[b] : b \in WaitedFor(e)}
             = {nodes[n].inflight[b] : b \in waited}
      BY <1>1
    <3> QED  BY <1>1, <2>2, <3>1
  <2>4. events' = (events \ {e}) \cup
              {[e EXCEPT !.time = late, !.seq = sequence, !.waitStarted = WaitStarted(e),
                         !.waited = e.waited \cup WaitedFor(e)]}
    BY <2>1, <2>2, Zenon
  <2>5. events' = (events \ {e}) \cup {again}
    BY <1>1, <2>3, <2>4, Zenon
  <2> QED  BY <1>1, <2>1, <2>5, Zenon
<1>3. /\ e \in Event /\ e.time \in Nat /\ clock \in Nat /\ clock <= e.time
      /\ \A f \in events : f \in Event /\ e.time <= f.time
      /\ e.req \in DOMAIN requests /\ n \in Nodes
      /\ Prefix(e.req) \in Seq(Block) /\ config.queued
  BY <1>1, DueIsFirst
<1>4. TypeOK /\ EventsInv /\ ViewInv /\ NodeInv(n) /\ nodes[n] \in NodeState
      /\ Len(requests) <= MaxRequests /\ history \in [Nodes -> SUBSET Interval]
  BY <1>3 DEF SimInv, TypeOK
<1>5. /\ waited \subseteq ToSet(Prefix(e.req)) /\ ToSet(Prefix(e.req)) \subseteq Block
      /\ IsFiniteSet(waited) /\ \A b \in waited : nodes[n].inflight[b] # None
  <2>1. PICK hits : hits = HitBlocks(Resident(n), Prefix(e.req))
    OBVIOUS
  <2>2. hits \in 0..Len(Prefix(e.req))
    BY <1>3, <2>1, HitsAreResident
  <2>3. waited = {b \in MissSet(e.req, hits) : nodes[n].inflight[b] # None}
    BY <1>1, <2>1, Zenon DEF WaitedFor
  <2>4. /\ HitSet(e.req, hits) \cup MissSet(e.req, hits) = ToSet(Prefix(e.req))
        /\ ToSet(Prefix(e.req)) \subseteq Block /\ IsFiniteSet(MissSet(e.req, hits))
    BY <1>3, <1>4, <2>2, HitsAndMisses
  <2>5. IsFiniteSet(waited)
    BY <2>3, <2>4, FS_Subset
  <2> QED  BY <2>3, <2>4, <2>5
<1>6. top \in Nat /\ e.time <= top
  <2>1. PICK times, f : f = nodes[n].inflight /\ times = {f[b] : b \in waited}
    OBVIOUS
  <2>2. ASSUME NEW b \in waited PROVE f[b] \in Nat /\ e.time <= f[b]
    <3>1. b \in Block /\ f[b] # None
      BY <1>5, <2>1
    <3>2. PICK g \in Running(n) : g.time = f[b]
      BY <1>4, <2>1, <3>1 DEF NodeInv, PinsFit
    <3>3. g \in events
      BY <3>2 DEF Running
    <3> QED  BY <1>3, <3>2, <3>3 DEF Event
  <2>3. IsFiniteSet(times) /\ times # {} /\ times \subseteq Int
    BY <1>2, <1>5, <2>1, <2>2, ImageIsFinite
  <2>4. \E t \in times : \A u \in times : u <= t
    BY <2>3, GreatestExists
  <2>5. top = Max(times)
    BY <1>1, <2>1, Zenon
  <2>6. top \in times
    BY <2>3, <2>4, <2>5 DEF Max
  <2> QED  BY <2>1, <2>2, <2>6
<1>7. /\ again \in Event /\ again.kind = "start" /\ again.time = top /\ again.req = e.req
      /\ again.hits = e.hits /\ again.waitStarted \in Nat
      /\ again.waited = e.waited \cup waited
  <2>1. started \in Nat
    BY <1>1, <1>3 DEF WaitStarted, Event
  <2>2. e.waited \cup waited \in SUBSET Block
    BY <1>3, <1>5 DEF Event
  <2>3. sequence \in Nat
    BY <1>4 DEF TypeOK
  <2> QED  BY <1>1, <1>3, <1>6, <2>1, <2>2, <2>3, Zenon DEF Event
<1>8. TypeOK'
  <2>1. nodes' \in [Nodes -> NodeState]
    <3>1. PICK node : node = [nodes[n] EXCEPT !.waiterPins = nodes[n].waiterPins \cup waited]
      OBVIOUS
    <3>2. nodes[n].waiterPins \cup waited \in SUBSET Block
      BY <1>4, <1>5 DEF NodeState
    <3>3. node \in NodeState
      BY <1>4, <3>1, <3>2 DEF NodeState
    <3>4. nodes' = [nodes EXCEPT ![n] = node]
      BY <1>2, <3>1
    <3> QED  BY <1>4, <3>3, <3>4 DEF TypeOK
  <2>2. events' \subseteq Event
    BY <1>2, <1>3, <1>7
  <2> QED  BY <1>2, <1>3, <1>4, <2>1, <2>2 DEF TypeOK
<1>9. RequestsKept /\ \A r, h : MissSet(r, h)' = MissSet(r, h)
  BY DEF RequestsKept, MissSet, Prefix
<1>10. /\ \A m : Running(m)' = Running(m)
       /\ \A m : m # n => Starts(m)' = Starts(m)
       /\ Starts(n)' = (Starts(n) \ {e}) \cup {again} /\ e \in Starts(n)
  <2>1. \A m : Running(m)' = Running(m)
    BY <1>2, <1>7 DEF Running
  <2>2. \A m : m # n => Starts(m)' = Starts(m)
    BY <1>1, <1>2, <1>7, ZenonT(40) DEF Starts
  <2>3. Starts(n)' = (Starts(n) \ {e}) \cup {again} /\ e \in Starts(n)
    BY <1>1, <1>2, <1>7, ZenonT(40) DEF Starts
  <2> QED  BY <2>1, <2>2, <2>3
<1>11. EventsInv'
  <2>1. IsFiniteSet(events')
    BY <1>2, <1>4, FS_AddElement, FS_RemoveElement DEF EventsInv
  <2>2. ASSUME NEW f \in events'
        PROVE  /\ f.req \in DOMAIN requests' /\ clock' <= f.time
               /\ f.kind = "start" => f.waited \subseteq ToSet(Prefix(f.req))'
               /\ f.waitStarted = None => f.waited = {}
               /\ f.hits <= Len(Prefix(f.req))'
    <3>1. Prefix(f.req)' = Prefix(f.req)
      BY DEF Prefix
    <3>2. CASE f \in events
      BY <1>3, <1>4, <3>1, <3>2 DEF EventsInv
    <3>3. CASE f = again
      <4>1. e.waited \subseteq ToSet(Prefix(e.req)) /\ e.hits <= Len(Prefix(e.req))
        BY <1>4 DEF EventsInv
      <4>2. again.waitStarted # None
        BY <1>7 DEF None
      <4> QED  BY <1>3, <1>5, <1>6, <1>7, <3>1, <3>3, <4>1, <4>2
    <3> QED  BY <1>2, <3>2, <3>3
  <2>3. \A f, g \in events' : f.req = g.req => f = g
    BY <1>2, <1>4, <1>7 DEF EventsInv
  <2> QED  BY <2>1, <2>2, <2>3 DEF EventsInv
<1>12. \A m \in Nodes : HistoryFits(m)'
  <2>1. \A m \in Nodes : nodes'[m].cache.resident = nodes[m].cache.resident
    BY <1>2, <1>3, <1>4 DEF TypeOK
  <2> QED  BY <1>3, <2>1, HistoryAges
<1>13. /\ nodes'[n].cache = nodes[n].cache /\ nodes'[n].queue = nodes[n].queue
       /\ nodes'[n].active = nodes[n].active /\ nodes'[n].activePins = nodes[n].activePins
       /\ nodes'[n].inflight = nodes[n].inflight
       /\ nodes'[n].waiterPins = nodes[n].waiterPins \cup waited
       /\ \A m \in Nodes \ {n} : nodes'[m] = nodes[m]
  <2>1. PICK node : node = [nodes[n] EXCEPT !.waiterPins = nodes[n].waiterPins \cup waited]
    OBVIOUS
  <2>2. nodes'[n] = node /\ \A m \in Nodes \ {n} : nodes'[m] = nodes[m]
    BY <1>2, <1>3, <1>4, <2>1 DEF TypeOK
  <2> QED  BY <1>4, <2>1, <2>2 DEF NodeState
<1>14. NodeInv(n)'
  <2>1. CacheFits(nodes[n].cache)'
    BY <1>4, <1>13 DEF NodeInv
  <2>2. QueueFits(n)'
    <3>1. QueueFits(n)
      BY <1>4 DEF NodeInv
    <3>2. \A r : (\E f \in Starts(n)' : f.req = r) <=> (\E f \in Starts(n) : f.req = r)
      BY <1>7, <1>10
    <3>3. \A f \in Starts(n)' : \E g \in Starts(n) : f.req = g.req
      BY <1>7, <1>10
    <3>4. QueueHolds(nodes[n].queue, Starts(n)', Running(n)')
      <4>1. PICK q : q = nodes[n].queue
        OBVIOUS
      <4>2. QueueHolds(q, Starts(n), Running(n))
        BY <3>1, <4>1 DEF QueueFits
      <4>3. /\ \A i, j \in DOMAIN q : q[i].req = q[j].req => i = j
            /\ \A f \in Running(n)' : \A i \in DOMAIN q : q[i].req # f.req
        BY <1>10, <4>2 DEF QueueHolds
      <4>4. \A i \in DOMAIN q : q[i].scheduled <=> \E f \in Starts(n)' : f.req = q[i].req
        BY <3>2, <4>2 DEF QueueHolds
      <4>5. \A f \in Starts(n)' : \E i \in DOMAIN q : q[i].req = f.req
        BY <3>3, <4>2 DEF QueueHolds
      <4>6. QueueHolds(q, Starts(n)', Running(n)')
        BY <4>3, <4>4, <4>5 DEF QueueHolds
      <4> QED  BY <4>1, <4>6
    <3>5. \A i \in DOMAIN nodes'[n].queue : /\ nodes'[n].queue[i].req \in DOMAIN requests'
                                            /\ requests'[nodes'[n].queue[i].req].node = n
      BY <1>13, <3>1 DEF QueueFits
    <3>6. QueueHolds(nodes'[n].queue, Starts(n)', Running(n)')
      BY <1>13, <3>4
    <3> QED  BY <3>5, <3>6 DEF QueueFits, QueueHolds
  <2>3. SlotsFit(n)'
    BY <1>4, <1>10, <1>13 DEF NodeInv, SlotsFit, SlotsHold, ScheduledItems
  <2>4. PinsFit(n)'
    <3>1. PinsFit(n)
      BY <1>4 DEF NodeInv
    <3>2. \A r, h : HitSet(r, h)' = HitSet(r, h)
      BY DEF HitSet, Prefix
    <3>3. \A f \in Running(n)' : HitSet(f.req, f.hits)' \subseteq nodes'[n].cache.resident
      BY <1>10, <1>13, <3>1, <3>2 DEF PinsFit
    <3>4. ASSUME NEW b \in Block
          PROVE  nodes'[n].activePins[b]
                    = Cardinality({f \in Running(n)' : b \in HitSet(f.req, f.hits)'})
      <4>1. nodes[n].activePins[b]
               = Cardinality({f \in Running(n) : b \in HitSet(f.req, f.hits)})
        BY <3>1 DEF PinsFit
      <4> QED  BY <1>10, <1>13, <3>2, <4>1
    <3>5. ASSUME NEW b \in nodes'[n].waiterPins PROVE \E f \in Starts(n)' : b \in f.waited
      <4>1. CASE b \in waited
        BY <1>7, <1>10, <4>1
      <4>2. CASE b \in nodes[n].waiterPins
        <5>1. b \in Block
          BY <1>4, <4>2 DEF NodeState
        <5>2. PICK f \in Starts(n) : b \in f.waited
          BY <3>1, <4>2, <5>1 DEF PinsFit
        <5>3. b \in again.waited \/ f # e
          BY <1>7, <5>2
        <5> QED  BY <1>10, <5>2, <5>3
      <4> QED  BY <1>13, <4>1, <4>2
    <3>6. ASSUME NEW b \in Block, nodes'[n].inflight[b] # None
          PROVE  \E f \in Running(n)' : /\ b \in MissSet(f.req, f.hits)'
                                        /\ f.time = nodes'[n].inflight[b]
      <4>1. \E f \in Running(n) : /\ b \in MissSet(f.req, f.hits)
                                  /\ f.time = nodes[n].inflight[b]
        BY <1>13, <3>1, <3>6 DEF PinsFit
      <4> QED  BY <1>9, <1>10, <1>13, <4>1
    <3>7. config'.visibility = "INFLIGHT_DEDUP_WAIT" =>
            /\ \A f \in Running(n)' : \A b \in MissSet(f.req, f.hits)' : nodes'[n].inflight[b] # None
            /\ \A f, g \in Running(n)' :
                  f # g => MissSet(f.req, f.hits)' \cap MissSet(g.req, g.hits)' = {}
      BY <1>9, <1>10, <1>13, <3>1, SMTT(30) DEF PinsFit
    <3> QED  BY <3>3, <3>4, <3>5, <3>6, <3>7 DEF PinsFit
  <2> QED  BY <1>3, <1>12, <2>1, <2>2, <2>3, <2>4 DEF NodeInv
<1>15. \A m \in Nodes : NodeInv(m)'
  <2>1. ASSUME NEW m \in Nodes, m # n PROVE NodeInv(m)'
    BY <1>9, <1>10, <1>12, <1>13, <2>1, OtherNodes DEF NodeInv
  <2> QED  BY <1>14, <2>1
<1>16. ViewInv' /\ OnePass'
  <2>1. observed <= clock'
    BY <1>3, <1>4 DEF ViewInv, TypeOK, None
  <2>2. \A f \in events' : f.kind = "finish" => f \in events
    BY <1>2, <1>7
  <2>3. ViewInv'
    BY <1>4, <1>9, <2>1, <2>2 DEF ViewInv
  <2> QED  BY <1>3, <2>3 DEF OnePass
<1> QED  BY <1>4, <1>8, <1>11, <1>15, <1>16 DEF SimInv

\* An item leaves the queue as its request starts to run.
LEMMA ItemLeaves ==
    ASSUME NEW S, NEW q, q \in Seq(S), NEW starts, NEW running, NEW k, k \in DOMAIN q,
           QueueHolds(q, starts, running), NEW e, e \in starts, q[k].req = e.req,
           OneEach(starts), NEW less, less = RemoveAt(q, k), NEW rest, rest = starts \ {e},
           NEW done, done.req = e.req, NEW more, more = running \cup {done}
    PROVE  less \in Seq(S) /\ QueueHolds(less, rest, more) /\ DrawnFrom(less, q)
<1>0. \A f, g \in starts : f.req = g.req => f = g
  BY DEF OneEach
<1>2. /\ less \in Seq(S) /\ Len(less) = Len(q) - 1
      /\ \A i \in 1..(Len(q) - 1) : less[i] = IF i < k THEN q[i] ELSE q[i + 1]
  <2>1. k \in 1..Len(q)
    OBVIOUS
  <2> QED  BY <2>1, EntryRemoved
<1>3. /\ DOMAIN q = 1..Len(q) /\ DOMAIN less = 1..(Len(q) - 1) /\ Len(q) \in Nat
      /\ k \in 1..Len(q)
  BY <1>2
<1>4. PICK old : old = [i \in 1..(Len(q) - 1) |-> IF i < k THEN i ELSE i + 1]
  OBVIOUS
<1>5. \A i \in 1..(Len(q) - 1) :
         old[i] \in 1..Len(q) /\ old[i] # k /\ less[i] = q[old[i]]
  BY <1>2, <1>3, <1>4
<1>6. \A i, j \in 1..(Len(q) - 1) : old[i] = old[j] => i = j
  BY <1>3, <1>4
<1>7. ASSUME NEW j \in 1..Len(q), j # k PROVE \E i \in 1..(Len(q) - 1) : old[i] = j
  <2>1. CASE j < k
    <3>1. j \in 1..(Len(q) - 1) /\ old[j] = j
      BY <1>3, <1>4, <2>1
    <3> QED  BY <3>1
  <2>2. CASE j > k
    <3>1. j - 1 \in 1..(Len(q) - 1) /\ old[j - 1] = j
      BY <1>3, <1>4, <2>2
    <3> QED  BY <3>1
  <2>3. j < k \/ j > k
    BY <1>7
  <2> QED  BY <2>1, <2>2, <2>3
<1>8. /\ \A i, j \in 1..Len(q) : q[i].req = q[j].req => i = j
      /\ \A i \in 1..Len(q) : q[i].scheduled <=> \E f \in starts : f.req = q[i].req
      /\ \A f \in starts : \E i \in 1..Len(q) : q[i].req = f.req
      /\ \A f \in running : \A i \in 1..Len(q) : q[i].req # f.req
  BY <1>3 DEF QueueHolds
<1>9. \A i \in 1..(Len(q) - 1) : less[i].req # e.req
  BY <1>5, <1>8, SMTT(30)
<1>10. \A i, j \in DOMAIN less : less[i].req = less[j].req => i = j
  BY <1>3, <1>5, <1>6, <1>8, SMTT(30)
<1>11. ASSUME NEW i \in DOMAIN less
       PROVE  less[i].scheduled <=> \E f \in rest : f.req = less[i].req
  <2>1. less[i].scheduled <=> \E f \in starts : f.req = less[i].req
    BY <1>3, <1>5, <1>8
  <2>2. less[i].req # e.req
    BY <1>3, <1>9
  <2> QED  BY <1>0, <2>1, <2>2
<1>12. ASSUME NEW f \in rest PROVE \E i \in DOMAIN less : less[i].req = f.req
  <2>1. PICK j \in 1..Len(q) : q[j].req = f.req
    BY <1>8
  <2>2. j # k
    BY <1>0, <2>1
  <2>3. PICK i \in 1..(Len(q) - 1) : old[i] = j
    BY <1>7, <2>2
  <2>4. i \in DOMAIN less /\ less[i] = q[j]
    BY <1>3, <1>5, <2>3
  <2>5. less[i].req = f.req
    BY <2>1, <2>4
  <2> QED  BY <2>4, <2>5
<1>13. \A f \in more : \A i \in DOMAIN less : less[i].req # f.req
  BY <1>3, <1>5, <1>8, <1>9
<1>14. QueueHolds(less, rest, more)
  BY <1>10, <1>11, <1>12, <1>13 DEF QueueHolds
<1>15. DrawnFrom(less, q)
  BY <1>3, <1>5 DEF DrawnFrom
<1> QED  BY <1>2, <1>14, <1>15

\* A start fewer ahead is an item fewer scheduled.
LEMMA OneStartFewer ==
    ASSUME NEW S, NEW q, q \in Seq(S), NEW less, less \in Seq(S), NEW starts, NEW running,
           NEW e, e \in starts, NEW rest, NEW more, rest = starts \ {e},
           QueueHolds(q, starts, running), QueueHolds(less, rest, more), OneEach(starts)
    PROVE  /\ Cardinality(Promised(q)) \in Nat
           /\ Cardinality(Promised(less)) = Cardinality(Promised(q)) - 1
<1>0. PICK old, new : old = Promised(q) /\ new = Promised(less)
  OBVIOUS
<1>1. \A f, g \in starts : f.req = g.req => f = g
  BY DEF OneEach
<1>2. IsFiniteSet(old) /\ IsFiniteSet(starts) /\ Cardinality(starts) = Cardinality(old)
  BY <1>0, <1>1, ScheduledAreStarts DEF Promised
<1>3. \A f, g \in rest : f.req = g.req => f = g
  BY <1>1
<1>4. IsFiniteSet(new) /\ IsFiniteSet(rest) /\ Cardinality(rest) = Cardinality(new)
  BY <1>0, <1>3, ScheduledAreStarts DEF Promised
<1>5. Cardinality(rest) = Cardinality(starts) - 1 /\ Cardinality(starts) \in Nat
  BY <1>2, FS_RemoveElement, FS_CardinalityType
<1> QED  BY <1>0, <1>2, <1>4, <1>5

\* A request that runs gives its place in the queue for its slot.
LEMMA SlotTaken ==
    ASSUME NEW before, NEW after, NEW starts, NEW running, NEW e, e \in starts, NEW done,
           NEW q, q = before.queue, q \in Seq(QueueItem),
           NEW less, less = after.queue, less \in Seq(QueueItem),
           NEW active, active = before.active, active \in Nat, after.active = active + 1,
           NEW rest, rest = starts \ {e}, NEW more, more = running \cup {done},
           QueueHolds(q, starts, running), QueueHolds(less, rest, more), OneEach(starts),
           done \notin running, DrawnFrom(less, q), IsFiniteSet(running),
           SlotsHold(before, running), config.concurrency \in Nat
    PROVE  SlotsHold(after, more)
<1>1. PICK old, new, many, few : /\ old = Promised(q) /\ new = Promised(less)
                                 /\ many = Cardinality(old) /\ few = Cardinality(new)
  OBVIOUS
<1>4. many \in Nat /\ few = many - 1
  <2>1. /\ Cardinality(Promised(q)) \in Nat
        /\ Cardinality(Promised(less)) = Cardinality(Promised(q)) - 1
    BY OneStartFewer
  <2> QED  BY <1>1, <2>1
<1>5. Cardinality(more) = Cardinality(running) + 1
  BY FS_AddElement
<1>6. ScheduledItems(before) = old /\ ScheduledItems(after) = new
  BY <1>1 DEF ScheduledItems, Promised
<1>7. /\ active = Cardinality(running)
      /\ active + many <= config.concurrency
      /\ active + many < config.concurrency => old = DOMAIN q
  BY <1>1, <1>6 DEF SlotsHold
<1>8. active + 1 + few = active + many
  BY <1>4
<1>9. old = DOMAIN q => new = DOMAIN less
  <2>1. DOMAIN less = 1..Len(less) /\ DOMAIN q = 1..Len(q)
    OBVIOUS
  <2> QED  BY <1>1, <2>1 DEF DrawnFrom, Promised
<1>10. PICK busy : busy = after.active + Cardinality(ScheduledItems(after))
  OBVIOUS
<1>11. busy = active + many
  BY <1>1, <1>6, <1>8, <1>10
<1>12. after.active = Cardinality(more)
  BY <1>5, <1>7
<1>13. busy < config.concurrency => ScheduledItems(after) = DOMAIN after.queue
  BY <1>6, <1>7, <1>9, <1>11
<1> QED  BY <1>7, <1>10, <1>11, <1>12, <1>13 DEF SlotsHold

\* A start whose blocks nobody computes makes its request run.
LEMMA RunKeeps ==
    ASSUME SimInv, NEW e \in events, e.kind = "start", Due(e), clock' = e.time, Run(e),
           UNCHANGED <<config, requests, observed, history, residentThen>>
    PROVE  SimInv'
<1>1. PICK r, n, hits, finish, k, cache, queue, waiting, pins, inflight, node, done :
            /\ r = e.req /\ n = requests[e.req].node
            /\ hits = HitBlocks(Resident(n), Prefix(r))
            /\ finish = e.time + Uncached(r, hits) /\ k = Item(n, r)
            /\ cache = LookedUp(nodes[n].cache, Prefix(r), Capacity)
            /\ queue = RemoveAt(nodes[n].queue, k)
            /\ waiting = IF HasWaited(e) THEN nodes[n].waiterPins \ ToSet(Prefix(r))
                         ELSE nodes[n].waiterPins
            /\ pins = [b \in Block |-> IF b \in HitSet(r, hits) THEN nodes[n].activePins[b] + 1
                                       ELSE nodes[n].activePins[b]]
            /\ inflight = [b \in Block |->
                              IF b \in MissSet(r, hits) /\ nodes[n].inflight[b] = None
                              THEN finish ELSE nodes[n].inflight[b]]
            /\ node = [nodes[n] EXCEPT !.cache = cache, !.queue = queue,
                                       !.active = nodes[n].active + 1, !.waiterPins = waiting,
                                       !.activePins = pins, !.inflight = inflight]
            /\ done = [StartEvent(finish, sequence, r) EXCEPT !.kind = "finish", !.hits = hits]
  BY Zenon
<1>2. /\ config.visibility = "INFLIGHT_DEDUP_WAIT" => WaitedFor(e) = {}
      /\ nodes' = [nodes EXCEPT ![n] = node] /\ events' = (events \ {e}) \cup {done}
      /\ sequence' = sequence + 1 /\ decisions' = decisions
  <2> DEFINE R == e.req
             N == requests[R].node
             H == HitBlocks(Resident(N), Prefix(R))
             F == e.time + Uncached(R, H)
             Node == [nodes[N] EXCEPT
                 !.cache = LookedUp(@, Prefix(R), Capacity),
                 !.queue = RemoveAt(@, Item(N, R)),
                 !.active = @ + 1,
                 !.waiterPins = IF HasWaited(e) THEN @ \ ToSet(Prefix(R)) ELSE @,
                 !.activePins = [b \in Block |->
                                   IF b \in HitSet(R, H) THEN @[b] + 1 ELSE @[b]],
                 !.inflight = [b \in Block |->
                                 IF b \in MissSet(R, H) /\ @[b] = None
                                 THEN F ELSE @[b]]]
             Done == [StartEvent(F, sequence, R) EXCEPT !.kind = "finish", !.hits = H]
  <2>1. /\ config.visibility = "INFLIGHT_DEDUP_WAIT" => WaitedFor(e) = {}
        /\ nodes' = [nodes EXCEPT ![N] = Node] /\ events' = (events \ {e}) \cup {Done}
        /\ sequence' = sequence + 1 /\ decisions' = decisions
    BY Zenon DEF Run
  <2>2. R = r /\ N = n /\ H = hits /\ F = finish /\ Done = done
    BY <1>1, Zenon
  <2>3. Node = node
    <3>1. pins = [b \in Block |-> IF b \in HitSet(R, H) THEN nodes[N].activePins[b] + 1
                                  ELSE nodes[N].activePins[b]]
      BY <1>1, <2>2, Zenon
    <3>2. inflight = [b \in Block |-> IF b \in MissSet(R, H) /\ nodes[N].inflight[b] = None
                                      THEN F ELSE nodes[N].inflight[b]]
      BY <1>1, <2>2, Zenon
    <3>3. /\ cache = LookedUp(nodes[N].cache, Prefix(R), Capacity)
          /\ queue = RemoveAt(nodes[N].queue, Item(N, R))
          /\ waiting = IF HasWaited(e) THEN nodes[N].waiterPins \ ToSet(Prefix(R))
                       ELSE nodes[N].waiterPins
      BY <1>1, <2>2, Zenon
    <3>4. node = [nodes[N] EXCEPT !.cache = cache, !.queue = queue,
                                  !.active = nodes[N].active + 1, !.waiterPins = waiting,
                                  !.activePins = pins, !.inflight = inflight]
      BY <1>1, <2>2, Zenon
    <3> QED  BY Zenon, <3>1, <3>2, <3>3, <3>4
  <2> HIDE DEF R, N, Node, Done
  <2> QED  BY <2>1, <2>2, <2>3
<1>3. /\ e \in Event /\ e.time \in Nat /\ clock \in Nat /\ clock <= e.time
      /\ \A f \in events : f \in Event /\ e.time <= f.time
      /\ r \in DOMAIN requests /\ n \in Nodes /\ requests[r].node = n
      /\ Prefix(r) \in Seq(Block) /\ config.queued
  BY <1>1, DueIsFirst, Zenon
<1>4. TypeOK /\ EventsInv /\ ViewInv /\ NodeInv(n) /\ nodes[n] \in NodeState
      /\ Len(requests) <= MaxRequests /\ history \in [Nodes -> SUBSET Interval]
  BY <1>3 DEF SimInv, TypeOK
<1>5. /\ hits \in 0..Len(Prefix(r)) /\ HitSet(r, hits) \subseteq Resident(n)
      /\ HitSet(r, hits) \cup MissSet(r, hits) = ToSet(Prefix(r))
      /\ ToSet(Prefix(r)) \subseteq Block
      /\ Uncached(r, hits) \in Nat /\ (MissSet(r, hits) # {} => Uncached(r, hits) > 0)
  <2>1. hits \in 0..Len(Prefix(r)) /\ \A i \in 1..hits : Prefix(r)[i] \in Resident(n)
    BY <1>1, <1>3, HitsAreResident, Zenon
  <2>2. HitSet(r, hits) = {Prefix(r)[i] : i \in 1..hits}
    BY <1>3, <2>1, ListSplits DEF HitSet
  <2>3. HitSet(r, hits) \subseteq Resident(n)
    BY <2>1, <2>2
  <2> QED  BY <1>3, <1>4, <2>1, <2>3, HitsAndMisses
<1>6. finish \in Nat /\ e.time <= finish /\ (MissSet(r, hits) # {} => e.time < finish)
  <2>1. PICK cost : cost = Uncached(r, hits)
    OBVIOUS
  <2>2. finish = e.time + cost
    BY <1>1, <2>1, Zenon
  <2>3. cost \in Nat /\ (MissSet(r, hits) # {} => cost > 0)
    BY <1>5, <2>1
  <2> QED  BY <1>3, <2>2, <2>3
<1>7. CacheFits(cache) /\ cache.resident = Resident(n) /\ cache \in Cache
  <2>1. CacheFits(nodes[n].cache)
    BY <1>4 DEF NodeInv
  <2>2. CacheFits(cache) /\ cache.resident = nodes[n].cache.resident
    BY <1>1, <1>3, <2>1, LookedUpFits, Zenon
  <2> QED  BY <2>2 DEF CacheFits, Resident
<1>8. /\ done \in Event /\ done.kind = "finish" /\ done.time = finish /\ done.req = r
      /\ done.hits = hits /\ done.waitStarted = None /\ done.waited = {}
  <2>1. sequence \in Nat /\ hits \in Nat /\ r \in 1..MaxRequests
    <3>1. e.req = r
      BY <1>1, Zenon
    <3> QED  BY <1>3, <1>4, <1>5, <3>1 DEF TypeOK, Event
  <2> QED  BY <1>1, <1>6, <2>1, Zenon DEF StartEvent, Event
<1>9. QueueFits(n) /\ SlotsFit(n) /\ PinsFit(n)
  BY <1>4 DEF NodeInv
<1>10. /\ e \in Starts(n) /\ Starts(n)' = Starts(n) \ {e}
       /\ Running(n)' = Running(n) \cup {done} /\ done \notin Running(n)
       /\ \A m : m # n => Starts(m)' = Starts(m) /\ Running(m)' = Running(m)
  <2>1. e \in Starts(n) /\ Starts(n)' = Starts(n) \ {e}
    BY <1>1, <1>2, <1>8, Zenon DEF Starts
  <2>2. Running(n)' = Running(n) \cup {done}
    BY <1>2, <1>3, <1>8 DEF Running
  <2>3. \A f \in events : f.req = r => f = e
    BY <1>1, <1>4, Zenon DEF EventsInv
  <2>4. done \notin events
    BY <1>8, <2>3
  <2>5. \A m : m # n => Starts(m)' = Starts(m)
    BY <1>1, <1>2, <1>8, ZenonT(40) DEF Starts
  <2>6. ASSUME NEW m, m # n
        PROVE  Running(m)' = Running(m)
    <3>1. requests' = requests /\ requests[done.req].node = n
      BY <1>1, <1>8, Zenon
    <3> QED  BY <1>2, <2>6, <3>1 DEF Running
  <2> QED  BY <2>1, <2>2, <2>4, <2>5, <2>6 DEF Running
<1>11. OneEach(Starts(n))
  BY <1>4 DEF EventsInv, Starts, OneEach
<1>12. /\ nodes[n].queue \in Seq(QueueItem) /\ nodes[n].active \in Nat
       /\ QueueHolds(nodes[n].queue, Starts(n), Running(n))
       /\ \A i \in DOMAIN nodes[n].queue :
             /\ nodes[n].queue[i].req \in DOMAIN requests
             /\ requests[nodes[n].queue[i].req].node = n
  BY <1>4, <1>9 DEF NodeState, QueueItem, QueueFits
<1>13. k \in 1..Len(nodes[n].queue) /\ nodes[n].queue[k].req = e.req
  <2>1. PICK q : q = nodes[n].queue
    OBVIOUS
  <2>2. \E i \in DOMAIN q : q[i].req = e.req
    BY <1>10, <1>12, <2>1 DEF QueueHolds
  <2>3. DOMAIN q = 1..Len(q)
    BY <1>12, <2>1
  <2>4. k = CHOOSE i \in 1..Len(q) : q[i].req = e.req
    BY <1>1, <2>1, Zenon DEF Item
  <2>5. k \in 1..Len(q) /\ q[k].req = e.req
    BY <2>2, <2>3, <2>4
  <2> QED  BY <2>1, <2>5
<1>14. /\ queue \in Seq(QueueItem) /\ DrawnFrom(queue, nodes[n].queue)
       /\ QueueHolds(queue, Starts(n) \ {e}, Running(n) \cup {done})
  <2>1. PICK q, starts, running, rest, more :
              /\ q = nodes[n].queue /\ starts = Starts(n) /\ running = Running(n)
              /\ rest = Starts(n) \ {e} /\ more = Running(n) \cup {done}
    OBVIOUS
  <2>0. k \in DOMAIN q /\ q[k].req = e.req
    BY <1>12, <1>13, <2>1
  <2>2. /\ q \in Seq(QueueItem) /\ QueueHolds(q, starts, running)
        /\ e \in starts /\ OneEach(starts) /\ done.req = e.req
        /\ queue = RemoveAt(q, k) /\ rest = starts \ {e} /\ more = running \cup {done}
    BY <1>1, <1>8, <1>10, <1>11, <1>12, <2>1, Zenon
  <2>3. queue \in Seq(QueueItem) /\ QueueHolds(queue, rest, more) /\ DrawnFrom(queue, q)
    BY <2>0, <2>2, ItemLeaves
  <2> QED  BY <2>1, <2>3
<1>15. /\ waiting \in SUBSET Block /\ pins \in [Block -> Nat]
       /\ inflight \in [Block -> Nat \cup {None}]
  <2>1. /\ nodes[n].waiterPins \in SUBSET Block /\ nodes[n].activePins \in [Block -> Nat]
        /\ nodes[n].inflight \in [Block -> Nat \cup {None}]
    BY <1>4 DEF NodeState
  <2>2. pins \in [Block -> Nat]
    <3>1. PICK old : old = nodes[n].activePins
      OBVIOUS
    <3>2. pins = [b \in Block |-> IF b \in HitSet(r, hits) THEN old[b] + 1 ELSE old[b]]
      BY <1>1, <3>1, Zenon
    <3>3. \A b \in Block : old[b] \in Nat
      BY <2>1, <3>1
    <3>4. \A b \in Block : old[b] + 1 \in Nat
      BY <3>3
    <3> QED  BY <3>2, <3>3, <3>4
  <2>3. inflight \in [Block -> Nat \cup {None}]
    BY <1>1, <1>6, <2>1, Zenon
  <2>4. waiting \in SUBSET Block
    BY <1>1, <2>1, Zenon
  <2> QED  BY <2>2, <2>3, <2>4
<1>16. /\ node \in NodeState /\ node.cache = cache /\ node.queue = queue
       /\ node.active = nodes[n].active + 1 /\ node.waiterPins = waiting
       /\ node.activePins = pins /\ node.inflight = inflight
  <2>1. node = [nodes[n] EXCEPT !.cache = cache, !.queue = queue,
                                !.active = nodes[n].active + 1, !.waiterPins = waiting,
                                !.activePins = pins, !.inflight = inflight]
    BY <1>1, Zenon
  <2>2. PICK active : active = nodes[n].active + 1
    OBVIOUS
  <2>3. active \in Nat
    BY <1>12, <2>2
  <2> QED  BY <1>4, <1>7, <1>14, <1>15, <2>1, <2>2, <2>3 DEF NodeState, QueueItem
<1>17. nodes'[n] = node /\ nodes' \in [Nodes -> NodeState]
       /\ \A m \in Nodes \ {n} : nodes'[m] = nodes[m]
  BY <1>2, <1>3, <1>4, <1>16 DEF TypeOK
<1>18. TypeOK'
  <2>1. events' \subseteq Event
    BY <1>2, <1>3, <1>8
  <2> QED  BY <1>2, <1>3, <1>4, <1>17, <2>1 DEF TypeOK
<1>19. EventsInv'
  <2>1. IsFiniteSet(events')
    BY <1>2, <1>4, FS_AddElement, FS_RemoveElement DEF EventsInv
  <2>2. ASSUME NEW f \in events'
        PROVE  /\ f.req \in DOMAIN requests' /\ clock' <= f.time
               /\ f.kind = "start" => f.waited \subseteq ToSet(Prefix(f.req))'
               /\ f.waitStarted = None => f.waited = {}
               /\ f.hits <= Len(Prefix(f.req))'
    <3>1. Prefix(f.req)' = Prefix(f.req)
      BY DEF Prefix
    <3>2. CASE f \in events
      BY <1>3, <1>4, <3>1, <3>2 DEF EventsInv
    <3>3. CASE f = done
      <4>1. hits <= Len(Prefix(r))
        BY <1>5
      <4> QED  BY <1>3, <1>6, <1>8, <3>1, <3>3, <4>1
    <3> QED  BY <1>2, <3>2, <3>3
  <2>3. \A f, g \in events' : f.req = g.req => f = g
    <3>1. \A f, g \in events : f.req = g.req => f = g
      BY <1>4 DEF EventsInv
    <3>2. done.req = e.req
      BY <1>1, <1>8, Zenon
    <3> QED  BY <1>2, <3>1, <3>2
  <2> QED  BY <2>1, <2>2, <2>3 DEF EventsInv
<1>20. \A m \in Nodes : HistoryFits(m)'
  <2>1. \A m \in Nodes : nodes'[m].cache.resident = nodes[m].cache.resident
    BY <1>7, <1>16, <1>17 DEF Resident
  <2> QED  BY <1>3, <2>1, HistoryAges
<1>21. RequestsKept /\ \A q, h : /\ MissSet(q, h)' = MissSet(q, h)
                                 /\ HitSet(q, h)' = HitSet(q, h)
  BY DEF RequestsKept, MissSet, HitSet, Prefix
<1>22. QueueFits(n)'
  <2>1. \A i \in DOMAIN nodes'[n].queue : /\ nodes'[n].queue[i].req \in DOMAIN requests'
                                          /\ requests'[nodes'[n].queue[i].req].node = n
    BY <1>12, <1>14, <1>16, <1>17 DEF DrawnFrom
  <2>2. QueueHolds(nodes'[n].queue, Starts(n)', Running(n)')
    BY <1>10, <1>14, <1>16, <1>17
  <2> QED  BY <2>1, <2>2 DEF QueueFits, QueueHolds
<1>23. SlotsFit(n)'
  <2>1. PICK q, starts, running, before, active, rest, more :
              /\ q = nodes[n].queue /\ starts = Starts(n) /\ running = Running(n)
              /\ before = nodes[n] /\ active = nodes[n].active
              /\ rest = Starts(n) \ {e} /\ more = Running(n) \cup {done}
    OBVIOUS
  <2>2. /\ q = before.queue /\ q \in Seq(QueueItem) /\ e \in starts
        /\ queue = node.queue /\ queue \in Seq(QueueItem)
        /\ active = before.active /\ active \in Nat /\ node.active = active + 1
        /\ rest = starts \ {e} /\ more = running \cup {done}
        /\ QueueHolds(q, starts, running) /\ QueueHolds(queue, rest, more)
        /\ OneEach(starts) /\ done \notin running /\ DrawnFrom(queue, q)
        /\ SlotsHold(before, running)
    BY <1>9, <1>10, <1>11, <1>12, <1>14, <1>16, <2>1 DEF SlotsFit
  <2>3. IsFiniteSet(running)
    BY <1>4, <2>1, FS_Subset DEF EventsInv, Running
  <2>4. config.concurrency \in Nat
    BY <1>4, SimulatorAssumption DEF TypeOK
  <2>5. SlotsHold(node, more)
    BY <2>2, <2>3, <2>4, SlotTaken
  <2>6. SlotsHold(node, more)'
    BY <2>5 DEF SlotsHold, ScheduledItems
  <2> QED  BY <1>10, <1>17, <2>1, <2>6 DEF SlotsFit
<1>24. /\ done.req = r /\ done.hits = hits /\ done.time = finish
       /\ nodes'[n].activePins = pins /\ nodes'[n].waiterPins = waiting
       /\ nodes'[n].inflight = inflight /\ nodes'[n].cache.resident = Resident(n)
       /\ Running(n)' = Running(n) \cup {done} /\ Starts(n)' = Starts(n) \ {e}
  BY <1>7, <1>8, <1>10, <1>16, <1>17
<1>25. \A f \in Running(n)' : HitSet(f.req, f.hits)' \subseteq nodes'[n].cache.resident
  <2>1. ASSUME NEW f \in Running(n) PROVE HitSet(f.req, f.hits)' \subseteq Resident(n)
    BY <1>9, <1>21 DEF PinsFit, Resident
  <2>2. HitSet(done.req, done.hits)' \subseteq Resident(n)
    BY <1>5, <1>21, <1>24
  <2> QED  BY <1>24, <2>1, <2>2
<1>26. ASSUME NEW b \in Block
       PROVE  nodes'[n].activePins[b]
                 = Cardinality({f \in Running(n)' : b \in HitSet(f.req, f.hits)'})
  <2>1. PICK before, after : /\ before = {f \in Running(n) : b \in HitSet(f.req, f.hits)}
                             /\ after = {f \in Running(n) \cup {done} : b \in HitSet(f.req, f.hits)}
    OBVIOUS
  <2>2. IsFiniteSet(before) /\ done \notin before
    <3>1. IsFiniteSet(events) /\ before \subseteq events
      BY <1>4, <2>1 DEF EventsInv, Running
    <3> QED  BY <1>10, <2>1, <3>1, FS_Subset
  <2>3. nodes[n].activePins[b] = Cardinality(before)
    BY <1>9, <2>1 DEF PinsFit
  <2>4. {f \in Running(n)' : b \in HitSet(f.req, f.hits)'} = after
    BY <1>21, <1>24, <2>1
  <2>5. CASE b \in HitSet(r, hits)
    <3>1. after = before \cup {done}
      BY <1>24, <2>1, <2>5
    <3>2. Cardinality(after) = Cardinality(before) + 1
      BY <2>2, <3>1, FS_AddElement
    <3>3. pins[b] = nodes[n].activePins[b] + 1
      BY <1>1, <2>5, Zenon
    <3> QED  BY <1>24, <2>3, <2>4, <3>2, <3>3
  <2>6. CASE b \notin HitSet(r, hits)
    <3>1. after = before
      BY <1>24, <2>1, <2>6
    <3>2. pins[b] = nodes[n].activePins[b]
      BY <1>1, <2>6, Zenon
    <3> QED  BY <1>24, <2>3, <2>4, <3>1, <3>2
  <2> QED  BY <2>5, <2>6
<1>27. ASSUME NEW b \in Block, b \in nodes'[n].waiterPins
       PROVE  \E f \in Starts(n)' : b \in f.waited
  <2>1. b \in nodes[n].waiterPins /\ (HasWaited(e) => b \notin ToSet(Prefix(r)))
    BY <1>1, <1>24, <1>27, Zenon
  <2>2. PICK f \in Starts(n) : b \in f.waited
    BY <1>9, <2>1 DEF PinsFit
  <2>3. f # e
    <3>1. e.waited \subseteq ToSet(Prefix(r)) /\ (e.waitStarted = None => e.waited = {})
      BY <1>1, <1>4, Zenon DEF EventsInv
    <3> QED  BY <2>1, <2>2, <3>1 DEF HasWaited
  <2> QED  BY <1>24, <2>2, <2>3
<1>28. ASSUME NEW b \in Block, nodes'[n].inflight[b] # None
       PROVE  \E f \in Running(n)' : /\ b \in MissSet(f.req, f.hits)'
                                     /\ f.time = nodes'[n].inflight[b]
  <2>1. CASE b \in MissSet(r, hits) /\ nodes[n].inflight[b] = None
    <3>1. inflight[b] = finish
      BY <1>1, <2>1, Zenon
    <3>2. b \in MissSet(done.req, done.hits)' /\ done.time = nodes'[n].inflight[b]
      BY <1>21, <1>24, <2>1, <3>1
    <3> QED  BY <1>24, <3>2
  <2>2. CASE ~(b \in MissSet(r, hits) /\ nodes[n].inflight[b] = None)
    <3>1. inflight[b] = nodes[n].inflight[b]
      BY <1>1, <2>2, Zenon
    <3>2. PICK f \in Running(n) : /\ b \in MissSet(f.req, f.hits)
                                  /\ f.time = nodes[n].inflight[b]
      BY <1>9, <1>24, <1>28, <3>1 DEF PinsFit
    <3> QED  BY <1>21, <1>24, <3>1, <3>2
  <2> QED  BY <2>1, <2>2
<1>29. ASSUME config.visibility = "INFLIGHT_DEDUP_WAIT"
       PROVE  /\ \A f \in Running(n)' : \A b \in MissSet(f.req, f.hits)' : nodes'[n].inflight[b] # None
              /\ \A f, g \in Running(n)' :
                    f # g => MissSet(f.req, f.hits)' \cap MissSet(g.req, g.hits)' = {}
  <2>1. \A b \in MissSet(r, hits) : b \in Block /\ nodes[n].inflight[b] = None
    <3>1. WaitedFor(e) = {b \in MissSet(r, hits) : nodes[n].inflight[b] # None}
      BY <1>1, Zenon DEF WaitedFor
    <3> QED  BY <1>2, <1>5, <1>29, <3>1
  <2>2. /\ \A f \in Running(n) : \A b \in MissSet(f.req, f.hits) : nodes[n].inflight[b] # None
        /\ \A f, g \in Running(n) :
              f # g => MissSet(f.req, f.hits) \cap MissSet(g.req, g.hits) = {}
    BY <1>9, <1>29 DEF PinsFit
  <2>3. \A b \in MissSet(r, hits) : inflight[b] = finish /\ finish # None
    <3>1. ASSUME NEW b \in MissSet(r, hits) PROVE inflight[b] = finish
      <4>1. b \in Block /\ nodes[n].inflight[b] = None
        BY <2>1
      <4>2. inflight = [c \in Block |->
                           IF c \in MissSet(r, hits) /\ nodes[n].inflight[c] = None
                           THEN finish ELSE nodes[n].inflight[c]]
        BY <1>1, Zenon
      <4> QED  BY <4>1, <4>2
    <3>2. finish # None
      BY <1>6 DEF None
    <3> QED  BY <3>1, <3>2
  <2>4. ASSUME NEW f \in Running(n), NEW b \in MissSet(f.req, f.hits) PROVE inflight[b] # None
    <3>1. nodes[n].inflight[b] # None
      BY <2>2
    <3>2. b \in Block
      <4>1. f.req \in DOMAIN requests /\ f.hits \in 0..Len(Prefix(f.req))
        <5>1. f \in events /\ f \in Event
          BY <1>3 DEF Running
        <5> QED  BY <1>4, <5>1 DEF EventsInv, Event
      <4>2. MissSet(f.req, f.hits) \subseteq Block
        BY <1>4, <4>1, HitsAndMisses
      <4> QED  BY <4>2
    <3>3. inflight[b] = nodes[n].inflight[b]
      BY <1>1, <3>1, <3>2, Zenon
    <3> QED  BY <3>1, <3>3
  <2>5. \A f \in Running(n) : MissSet(f.req, f.hits) \cap MissSet(r, hits) = {}
    BY <2>1, <2>2
  <2>6. \A f \in Running(n)' : \A b \in MissSet(f.req, f.hits)' : nodes'[n].inflight[b] # None
    BY <1>21, <1>24, <2>3, <2>4
  <2>7. \A f, g \in Running(n)' :
           f # g => MissSet(f.req, f.hits)' \cap MissSet(g.req, g.hits)' = {}
    BY <1>21, <1>24, <2>2, <2>5
  <2> QED  BY <2>6, <2>7
<1>30. PinsFit(n)'
  BY <1>25, <1>26, <1>27, <1>28, <1>29 DEF PinsFit
<1>31. \A m \in Nodes : NodeInv(m)'
  <2>1. ASSUME NEW m \in Nodes, m # n PROVE NodeInv(m)'
    BY <1>10, <1>17, <1>20, <1>21, <2>1, OtherNodes DEF NodeInv
  <2>2. CacheFits(nodes[n].cache)'
    BY <1>7, <1>16, <1>17
  <2>3. NodeInv(n)'
    BY <1>3, <1>20, <1>22, <1>23, <1>30, <2>2 DEF NodeInv
  <2> QED  BY <2>1, <2>3
<1>32. ViewInv' /\ OnePass'
  <2>1. observed <= clock'
    BY <1>3, <1>4 DEF ViewInv, TypeOK, None
  <2>2. ASSUME NEW f \in events', f.kind = "finish", f.time <= observed, observed # None
        PROVE  MissSet(f.req, f.hits) = {}
    <3>1. CASE f \in events
      BY <1>4, <2>2, <3>1 DEF ViewInv
    <3>2. CASE f = done
      <4>1. finish <= observed /\ observed \in Nat
        BY <1>4, <1>24, <2>2, <3>2 DEF TypeOK
      <4>2. ~(e.time < finish)
        BY <1>3, <1>6, <2>1, <4>1
      <4> QED  BY <1>6, <1>24, <3>2, <4>2
    <3> QED  BY <1>2, <3>1, <3>2
  <2>3. ViewInv'
    BY <1>21, <2>1, <2>2 DEF ViewInv
  <2> QED  BY <1>3, <2>3 DEF OnePass
<1> QED  BY <1>4, <1>18, <1>19, <1>31, <1>32 DEF SimInv

-----------------------------------------------------------------------------
(* Finishes and arrivals, which start what they can.                         *)

\* What the events ahead are like.
Ahead(es) ==
    /\ IsFiniteSet(es) /\ es \subseteq Event /\ OneEach(es)
    /\ \A e \in es :
          /\ e.req \in DOMAIN requests /\ clock <= e.time
          /\ e.kind = "start" => e.waited \subseteq ToSet(Prefix(e.req))
          /\ e.waitStarted = None => e.waited = {}
          /\ e.hits <= Len(Prefix(e.req))

StartsAmong(es, n) == {e \in es : e.kind = "start" /\ requests[e.req].node = n}
RunningAmong(es, n) == {e \in es : e.kind = "finish" /\ requests[e.req].node = n}

ItemsOf(q, n) ==
    \A i \in DOMAIN q : q[i].req \in DOMAIN requests /\ requests[q[i].req].node = n

\* What an event leaves that scheduled the starts of a node.
NowScheduled(n, before, rest, starts, running) ==
    /\ events' \subseteq Event /\ EventsInv' /\ QueueFits(n)' /\ SlotsFit(n)'
    /\ sequence' \in Nat /\ nodes'[n] \in NodeState
    /\ nodes'[n] = WithQueue(before, nodes'[n].queue)
    /\ \A f \in events' : f.kind = "finish" => f \in rest
    /\ Running(n)' = running /\ starts \subseteq Starts(n)'
    /\ \A m : m # n => /\ Starts(m)' = StartsAmong(rest, m)'
                       /\ Running(m)' = RunningAmong(rest, m)'

\* A node once its starts are scheduled, and the events then ahead.
LEMMA NodeScheduled ==
    ASSUME NEW n, NEW before, before \in NodeState, NEW time, time \in Nat, clock' = time,
           NEW rest, Ahead(rest)', NEW starts, starts = StartsAmong(rest, n)',
           NEW running, running = RunningAmong(rest, n)',
           QueueHolds(before.queue, starts, running), ItemsOf(before.queue, n)',
           SlotsSuffice(before, running),
           config \in Configs, config' = config, sequence \in Nat,
           NEW news, news = NewStarts(before, time, sequence), events' = rest \cup news,
           requests' \in Seq([prefix: PrefixChains, node: Nodes]),
           sequence' = sequence + Cardinality(ToSchedule(before)),
           nodes'[n] = Rescheduled(before)
    PROVE  NowScheduled(n, before, rest, starts, running)
<1>1. PICK next : next = Rescheduled(before)
  OBVIOUS
<1>2. /\ next = WithQueue(before, next.queue) /\ next \in NodeState
      /\ SameItems(next.queue, before.queue)
      /\ QueueHolds(next.queue, starts \cup news, running)
      /\ SlotsHold(next, running)
      /\ news \subseteq Event /\ IsFiniteSet(news) /\ OneEach(news)
      /\ StartsNow(news, before.queue, time)
      /\ Cardinality(ToSchedule(before)) \in Nat
  <2>1. ASSUME NEW seq, seq \in Nat, news = NewStarts(before, time, seq),
               NEW ahead, ahead = starts \cup news
        PROVE  HasScheduled(before, time, next, news, ahead, running)
    BY <1>1, <2>1, StartsScheduled
  <2>2. PICK ahead : ahead = starts \cup news
    OBVIOUS
  <2>3. HasScheduled(before, time, next, news, ahead, running)
    BY <2>1, <2>2
  <2> QED  BY <2>2, <2>3 DEF HasScheduled
<1>3. ASSUME NEW e \in news
      PROVE  /\ e.req \in DOMAIN requests' /\ requests'[e.req].node = n
             /\ \A f \in rest : f.req # e.req
  <2>1. PICK i \in DOMAIN before.queue : /\ e.req = before.queue[i].req
                                         /\ ~before.queue[i].scheduled
    BY <1>2 DEF StartsNow
  <2>2. e.req \in DOMAIN requests' /\ requests'[e.req].node = n
    BY <2>1 DEF ItemsOf
  <2>3. ASSUME NEW f \in rest, f.req = e.req PROVE FALSE
    <3>1. f.kind \in {"start", "finish"} /\ requests'[f.req].node = n
      BY <2>2, <2>3 DEF Ahead, Event
    <3>2. CASE f.kind = "start"
      <4>1. f \in starts
        BY <3>1, <3>2 DEF StartsAmong
      <4> QED  BY <2>1, <2>3, <4>1 DEF QueueHolds
    <3>3. CASE f.kind = "finish"
      <4>1. f \in running
        BY <3>1, <3>3 DEF RunningAmong
      <4> QED  BY <2>1, <2>3, <4>1 DEF QueueHolds
    <3> QED  BY <3>1, <3>2, <3>3
  <2> QED  BY <2>2, <2>3
<1>4. events' \subseteq Event /\ sequence' \in Nat
  BY <1>2 DEF Ahead
<1>5. EventsInv'
  <2>1. IsFiniteSet(events')
    BY <1>2, FS_Union DEF Ahead
  <2>2. ASSUME NEW f \in events'
        PROVE  /\ f.req \in DOMAIN requests' /\ clock' <= f.time
               /\ f.kind = "start" => f.waited \subseteq ToSet(Prefix(f.req))'
               /\ f.waitStarted = None => f.waited = {}
               /\ f.hits <= Len(Prefix(f.req))'
    <3>1. CASE f \in rest
      BY <3>1 DEF Ahead
    <3>2. CASE f \in news
      <4>1. f.req \in DOMAIN requests' /\ f.time = time /\ f.waited = {} /\ f.hits = 0
        BY <1>2, <1>3, <3>2 DEF StartsNow
      <4>2. 0 <= Len(Prefix(f.req))'
        <5>1. PICK list : list = requests'
          OBVIOUS
        <5>2. list[f.req] \in [prefix: PrefixChains, node: Nodes]
          <6>1. list \in Seq([prefix: PrefixChains, node: Nodes]) /\ f.req \in 1..Len(list)
            BY <4>1, <5>1
          <6> QED  BY <6>1, ElementOfSeq
        <5>3. list[f.req].prefix \in Seq(Block)
          BY <5>2, SimulatorAssumption
        <5> QED  BY <5>1, <5>3 DEF Prefix
      <4> QED  BY <4>1, <4>2
    <3> QED  BY <3>1, <3>2
  <2>3. \A f, g \in events' : f.req = g.req => f = g
    BY <1>2, <1>3 DEF Ahead, OneEach
  <2> QED  BY <2>1, <2>2, <2>3 DEF EventsInv
<1>6. \A f \in news : f.kind = "start"
  BY <1>2 DEF StartsNow
<1>7. Running(n)' = running /\ Starts(n)' = starts \cup news
  <2>1. Running(n)' = running
    BY <1>6 DEF Running, RunningAmong
  <2>2. Starts(n)' = starts \cup news
    BY <1>3, <1>6 DEF Starts, StartsAmong
  <2> QED  BY <2>1, <2>2
<1>8. \A m : m # n => Starts(m)' = StartsAmong(rest, m)' /\ Running(m)' = RunningAmong(rest, m)'
  BY <1>3, <1>6 DEF Starts, StartsAmong, Running, RunningAmong
<1>9. QueueFits(n)'
  <2>1. \A i \in DOMAIN next.queue : /\ next.queue[i].req \in DOMAIN requests'
                                     /\ requests'[next.queue[i].req].node = n
    BY <1>2 DEF ItemsOf, SameItems
  <2>2. QueueHolds(next.queue, Starts(n)', Running(n)')
    BY <1>2, <1>7
  <2> QED  BY <1>1, <2>1, <2>2 DEF QueueFits, QueueHolds
<1>10. SlotsFit(n)'
  <2>1. SlotsHold(next, running)'
    BY <1>2 DEF SlotsHold, ScheduledItems
  <2> QED  BY <1>1, <1>7, <2>1 DEF SlotsFit
<1>11. \A f \in events' : f.kind = "finish" => f \in rest
  BY <1>6
<1> QED  BY <1>1, <1>2, <1>4, <1>5, <1>7, <1>8, <1>9, <1>10, <1>11 DEF NowScheduled

\* A placement closes the intervals of what it evicts and opens those of what
\* it adds; what the view saw is still what the history says it saw.
LEMMA HistoryWritten ==
    ASSUME NEW n, n \in Nodes, NEW placed, placed \subseteq Block,
           HistoryFits(n), history \in [Nodes -> SUBSET Interval],
           clock \in Nat, clock' \in Nat, clock <= clock',
           observed \in Nat \cup {None}, observed <= clock,
           observed = clock' => placed = Resident(n),
           history' = HistoryAfter(n, placed), nodes'[n].cache.resident = placed,
           observed' = observed, residentThen' = residentThen
    PROVE  /\ HistoryFits(n)' /\ history' \in [Nodes -> SUBSET Interval]
           /\ \A m \in Nodes \ {n} : history'[m] = history[m]
<1>1. PICK old, closed, open, fresh :
            /\ old = history[n]
            /\ closed = {[h EXCEPT !.to = clock'] :
                            h \in {x \in history[n] : x.to = None /\ x.block \notin placed}}
            /\ open = {x \in history[n] : x.to # None \/ x.block \in placed}
            /\ fresh = {[block |-> b, from |-> clock', to |-> None] : b \in placed \ Resident(n)}
  OBVIOUS
<1>2. history' = [history EXCEPT ![n] = closed \cup open \cup fresh]
  BY Zenon, <1>1 DEF HistoryAfter
<1>3. /\ old \subseteq Interval
      /\ history'[n] = closed \cup open \cup fresh
      /\ \A m \in Nodes \ {n} : history'[m] = history[m]
  BY <1>1, <1>2
<1>4. \A x \in old : /\ x.block \in Block /\ x.from \in Nat /\ x.to \in Nat \cup {None}
                     /\ x.from <= clock /\ x.to <= clock
  BY <1>1, <1>3 DEF HistoryFits, Interval
<1>5. ASSUME NEW x \in closed
      PROVE  /\ x \in Interval /\ x.to = clock' /\ x.from <= clock
             /\ \E h \in old : /\ h.to = None /\ h.block \notin placed
                               /\ x.block = h.block /\ x.from = h.from
  <2>1. PICK h \in old : h.to = None /\ h.block \notin placed /\ x = [h EXCEPT !.to = clock']
    BY <1>1
  <2> QED  BY <1>3, <1>4, <2>1 DEF Interval
<1>6. ASSUME NEW h \in old, h.to = None, h.block \notin placed
      PROVE  \E x \in closed : x.block = h.block /\ x.from = h.from
  <2>1. PICK x : x = [h EXCEPT !.to = clock']
    OBVIOUS
  <2>2. x \in closed
    BY <1>1, <1>6, <2>1
  <2>3. x.block = h.block /\ x.from = h.from
    BY <1>3, <1>6, <2>1 DEF Interval
  <2> QED  BY <2>2, <2>3
<1>7. \A x : x \in open <=> x \in old /\ (x.to # None \/ x.block \in placed)
  BY <1>1
<1>8. ASSUME NEW x \in fresh
      PROVE  /\ x \in Interval /\ x.to = None /\ x.from = clock'
             /\ x.block \in placed \ Resident(n)
  <2>1. PICK time : time = clock'
    OBVIOUS
  <2>2. fresh = {[block |-> b, from |-> time, to |-> None] : b \in placed \ Resident(n)}
    BY <1>1, <2>1
  <2>3. PICK b \in placed \ Resident(n) : x = [block |-> b, from |-> time, to |-> None]
    BY <2>2
  <2>4. b \in Block /\ time \in Nat
    BY <2>1, <2>3
  <2> QED  BY <2>1, <2>3, <2>4 DEF Interval
<1>9. ASSUME NEW b \in placed \ Resident(n) PROVE \E x \in fresh : x.block = b
  <2>1. PICK time, x : time = clock' /\ x = [block |-> b, from |-> time, to |-> None]
    OBVIOUS
  <2>2. fresh = {[block |-> c, from |-> time, to |-> None] : c \in placed \ Resident(n)}
    BY <1>1, <2>1
  <2>3. x \in fresh /\ x.block = b
    BY <2>1, <2>2
  <2> QED  BY <2>3
<1>10. clock' # None /\ None < clock'
  BY DEF None
<1>11. history' \in [Nodes -> SUBSET Interval]
  <2>1. closed \cup open \cup fresh \in SUBSET Interval
    BY <1>3, <1>5, <1>7, <1>8
  <2> QED  BY <1>2, <2>1
<1>12. \A x \in history'[n] : x.from <= clock' /\ x.to <= clock'
  <2>1. ASSUME NEW x \in closed PROVE x.from <= clock' /\ x.to <= clock'
    BY <1>5 DEF Interval
  <2>2. ASSUME NEW x \in open PROVE x.from <= clock' /\ x.to <= clock'
    BY <1>4, <1>7 DEF None
  <2>3. ASSUME NEW x \in fresh PROVE x.from <= clock' /\ x.to <= clock'
    BY <1>8 DEF None
  <2> QED  BY <1>3, <2>1, <2>2, <2>3
<1>13. {x.block : x \in {y \in history'[n] : y.to = None}} = placed
  <2>1. {x.block : x \in {y \in old : y.to = None}} = Resident(n)
    BY <1>1 DEF HistoryFits
  <2>2. ASSUME NEW y \in history'[n], y.to = None PROVE y.block \in placed
    BY <1>3, <1>5, <1>7, <1>8, <1>10, <2>2
  <2>3. ASSUME NEW b \in placed PROVE \E y \in history'[n] : y.to = None /\ y.block = b
    <3>1. CASE b \in Resident(n)
      <4>1. PICK x \in old : x.to = None /\ x.block = b
        BY <2>1, <3>1
      <4> QED  BY <1>3, <1>7, <4>1
    <3>2. CASE b \notin Resident(n)
      BY <1>3, <1>8, <1>9, <3>2
    <3> QED  BY <3>1, <3>2
  <2> QED  BY <2>2, <2>3
<1>14. ASSUME observed # None
       PROVE  residentThen[n] = {x.block : x \in {y \in history'[n] : Covers(y, observed)}}
  <2>1. residentThen[n] = {x.block : x \in {y \in old : Covers(y, observed)}}
    BY <1>1, <1>14 DEF HistoryFits
  <2>2. observed \in Nat
    BY <1>14
  <2>3. CASE observed = clock'
    <3>1. placed = Resident(n)
      BY <2>3
    <3>2. {x.block : x \in {y \in old : y.to = None}} = Resident(n)
      BY <1>1 DEF HistoryFits
    <3>3. \A h \in old : h.to = None => h.block \in placed
      BY <3>1, <3>2
    <3>4. history'[n] = old
      BY <1>3, <1>5, <1>7, <1>8, <3>1, <3>3
    <3> QED  BY <2>1, <3>4
  <2>4. CASE observed < clock'
    <3>1. ASSUME NEW y \in history'[n], Covers(y, observed)
          PROVE  \E x \in old : Covers(x, observed) /\ x.block = y.block
      <4>1. CASE y \in closed
        <5>1. PICK h \in old : h.to = None /\ y.block = h.block /\ y.from = h.from
          BY <1>5, <4>1
        <5> QED  BY <3>1, <5>1 DEF Covers
      <4>2. CASE y \in open
        BY <1>7, <3>1, <4>2
      <4>3. CASE y \in fresh
        BY <1>8, <2>2, <2>4, <3>1, <4>3 DEF Covers
      <4> QED  BY <1>3, <4>1, <4>2, <4>3
    <3>2. ASSUME NEW x \in old, Covers(x, observed)
          PROVE  \E y \in history'[n] : Covers(y, observed) /\ y.block = x.block
      <4>1. CASE x.to = None /\ x.block \notin placed
        <5>1. PICK y \in closed : y.block = x.block /\ y.from = x.from
          BY <1>6, <4>1
        <5>2. y.to = clock'
          BY <1>5
        <5> QED  BY <1>3, <2>4, <3>2, <5>1, <5>2 DEF Covers
      <4>2. CASE ~(x.to = None /\ x.block \notin placed)
        BY <1>3, <1>7, <3>2, <4>2
      <4> QED  BY <4>1, <4>2
    <3>3. {x.block : x \in {y \in history'[n] : Covers(y, observed)}}
             = {x.block : x \in {y \in old : Covers(y, observed)}}
      BY <3>1, <3>2
    <3> QED  BY <2>1, <3>3
  <2>5. observed = clock' \/ observed < clock'
    BY <2>2
  <2> QED  BY <2>3, <2>4, <2>5
<1>15. HistoryFits(n)'
  BY <1>12, <1>13, <1>14 DEF HistoryFits, Resident, Covers
<1> QED  BY <1>3, <1>11, <1>15

\* A request that finishes places its blocks and gives up what it held.
LEMMA FinishKeeps ==
    ASSUME SimInv, NEW e \in events, Finish(e)
    PROVE  SimInv'
<1>1. PICK r, n, hits, cache, pins, inflight, before, rest, news, running :
            /\ r = e.req /\ n = requests[e.req].node /\ hits = e.hits
            /\ cache = Placed(nodes[n].cache, Prefix(r), Pinned(nodes[n]), Capacity)
            /\ pins = Unpinned(nodes[n].activePins, r, hits)
            /\ inflight = Landed(nodes[n].inflight, e)
            /\ before = [nodes[n] EXCEPT !.cache = cache, !.active = nodes[n].active - 1,
                                         !.activePins = pins, !.inflight = inflight]
            /\ rest = events \ {e} /\ news = NewStarts(before, e.time, sequence)
            /\ running = Running(n) \ {e}
  BY Zenon
<1>2. /\ e.kind = "finish" /\ Due(e) /\ clock' = e.time
      /\ nodes' = [nodes EXCEPT ![n] = Rescheduled(before)]
      /\ events' = rest \cup news
      /\ sequence' = sequence + Cardinality(ToSchedule(before))
      /\ history' = HistoryAfter(n, cache.resident)
      /\ decisions' = decisions \cup {r}
      /\ UNCHANGED <<config, requests, observed, residentThen>>
  <2> DEFINE R == e.req
             N == requests[R].node
             C == Placed(nodes[N].cache, Prefix(R), Pinned(nodes[N]), Capacity)
             Node(c) == [nodes[N] EXCEPT !.cache = c,
                                         !.active = SlotFreed(@, e),
                                         !.activePins = Unpinned(@, R, e.hits),
                                         !.inflight = Landed(@, e)]
             Then(c) == /\ nodes' = [nodes EXCEPT ![N] = Rescheduled(Node(c))]
                        /\ events' = (events \ {e}) \cup NewStarts(Node(c), e.time, sequence)
                        /\ sequence' = sequence + Cardinality(ToSchedule(Node(c)))
                        /\ history' = HistoryAfter(N, c.resident)
  <2>1. /\ e.kind = "finish" /\ Due(e) /\ clock' = e.time
        /\ decisions' = decisions \cup {e.req}
        /\ UNCHANGED <<config, requests, observed, residentThen>>
    BY Zenon DEF Finish
  <2>2. \E c \in {C} : Then(c)
    BY Zenon DEF Finish
  <2>3. Then(C)
    <3> HIDE DEF C, Then
    <3> QED  BY <2>2
  <2>4. N = n /\ R = r /\ C = cache
    BY <1>1, Zenon
  <2>5. Node(C) = before
    <3>1. Node(C) = [nodes[N] EXCEPT !.cache = C,
                                     !.active = nodes[N].active - 1,
                                     !.activePins = Unpinned(nodes[N].activePins, R, e.hits),
                                     !.inflight = Landed(nodes[N].inflight, e)]
      BY DEF SlotFreed
    <3> HIDE DEF C, N, R, Node
    <3> QED  BY Zenon, <1>1, <2>4, <3>1
  <2>6. /\ nodes' = [nodes EXCEPT ![N] = Rescheduled(Node(C))]
        /\ events' = (events \ {e}) \cup NewStarts(Node(C), e.time, sequence)
        /\ sequence' = sequence + Cardinality(ToSchedule(Node(C)))
        /\ history' = HistoryAfter(N, C.resident)
    BY <2>3, Zenon
  <2> HIDE DEF R, N, C, Node, Then
  <2> QED  BY Zenon, <1>1, <2>1, <2>4, <2>5, <2>6
<1>3. /\ e \in Event /\ e.time \in Nat /\ clock \in Nat /\ clock <= e.time
      /\ \A f \in events : f \in Event /\ e.time <= f.time
      /\ r \in DOMAIN requests /\ n \in Nodes /\ requests[r].node = n
      /\ Prefix(r) \in Seq(Block) /\ config.queued
  BY <1>1, <1>2, DueIsFirst, Zenon
<1>4. TypeOK /\ EventsInv /\ ViewInv /\ NodeInv(n) /\ nodes[n] \in NodeState
      /\ Len(requests) <= MaxRequests /\ history \in [Nodes -> SUBSET Interval]
  BY <1>3 DEF SimInv, TypeOK
<1>5. QueueFits(n) /\ SlotsFit(n) /\ PinsFit(n) /\ HistoryFits(n) /\ CacheFits(nodes[n].cache)
  BY <1>4 DEF NodeInv
<1>6. RequestsKept /\ \A q, h : /\ MissSet(q, h)' = MissSet(q, h)
                                /\ HitSet(q, h)' = HitSet(q, h)
  BY <1>2 DEF RequestsKept, MissSet, HitSet, Prefix
<1>7. e \in Running(n) /\ HitSet(r, hits) \subseteq Resident(n)
  <2>1. e \in Running(n)
    BY <1>1, <1>2, Zenon DEF Running
  <2> QED  BY <1>1, <1>5, <2>1, Zenon DEF PinsFit, Resident
<1>8. /\ CacheFits(cache) /\ cache \in Cache /\ cache.resident \subseteq Block
      /\ Resident(n) \cap Pinned(nodes[n]) \subseteq cache.resident
      /\ MissSet(r, hits) = {} => cache.resident = Resident(n)
  <2>1. /\ CacheFits(cache)
        /\ nodes[n].cache.resident \cap Pinned(nodes[n]) \subseteq cache.resident
        /\ ToSet(Prefix(r)) \subseteq nodes[n].cache.resident
              => cache.resident = nodes[n].cache.resident
    <3>1. ASSUME NEW c, CacheFits(c), NEW list \in Seq(Block), NEW pinned,
                 NEW placed, placed = Placed(c, list, pinned, Capacity)
          PROVE  /\ CacheFits(placed)
                 /\ c.resident \cap pinned \subseteq placed.resident
                 /\ ToSet(list) \subseteq c.resident => placed.resident = c.resident
      BY <3>1, PlacedFits
    <3>2. PICK c, list, pinned : /\ c = nodes[n].cache /\ list = Prefix(r)
                                 /\ pinned = Pinned(nodes[n])
      OBVIOUS
    <3>3. CacheFits(c) /\ list \in Seq(Block) /\ cache = Placed(c, list, pinned, Capacity)
      BY <1>1, <1>3, <1>5, <3>2
    <3>4. /\ CacheFits(cache)
          /\ c.resident \cap pinned \subseteq cache.resident
          /\ ToSet(list) \subseteq c.resident => cache.resident = c.resident
      BY <3>1, <3>3
    <3> QED  BY <3>2, <3>4
  <2>2. hits \in 0..Len(Prefix(r))
    BY <1>1, <1>3, <1>4 DEF EventsInv, Event
  <2>3. HitSet(r, hits) \cup MissSet(r, hits) = ToSet(Prefix(r))
    BY <1>3, <1>4, <2>2, HitsAndMisses
  <2>4. cache \in Cache /\ cache.resident \subseteq Block
    BY <2>1 DEF CacheFits, Cache
  <2> QED  BY <1>7, <2>1, <2>3, <2>4 DEF Resident
<1>9. /\ RunningAmong(rest, n)' = running /\ StartsAmong(rest, n)' = Starts(n)
      /\ \A m : m # n => /\ RunningAmong(rest, m)' = Running(m)
                         /\ StartsAmong(rest, m)' = Starts(m)
  <2>1. /\ \A m : RunningAmong(rest, m)'
                     = {f \in rest : f.kind = "finish" /\ requests[f.req].node = m}
        /\ \A m : StartsAmong(rest, m)'
                     = {f \in rest : f.kind = "start" /\ requests[f.req].node = m}
    BY <1>2 DEF RunningAmong, StartsAmong
  <2>2. RunningAmong(rest, n)' = running
    <3>1. {f \in rest : f.kind = "finish" /\ requests[f.req].node = n}
             = {f \in events : f.kind = "finish" /\ requests[f.req].node = n} \ {e}
      BY <1>1, Zenon
    <3> QED  BY <1>1, <2>1, <3>1, Zenon DEF Running
  <2>3. ASSUME NEW m PROVE StartsAmong(rest, m)' = Starts(m)
    <3>1. {f \in rest : f.kind = "start" /\ requests[f.req].node = m}
             = {f \in events : f.kind = "start" /\ requests[f.req].node = m}
      BY <1>1, <1>2, Zenon
    <3> QED  BY <2>1, <3>1 DEF Starts
  <2>4. ASSUME NEW m, m # n PROVE RunningAmong(rest, m)' = Running(m)
    <3>1. {f \in rest : f.kind = "finish" /\ requests[f.req].node = m}
             = {f \in events : f.kind = "finish" /\ requests[f.req].node = m}
      BY <1>1, <2>4, Zenon
    <3> QED  BY <2>1, <3>1 DEF Running
  <2> QED  BY <2>2, <2>3, <2>4
<1>10. Ahead(rest)'
  <2>1. IsFiniteSet(rest) /\ rest \subseteq Event /\ OneEach(rest)
    BY <1>1, <1>3, <1>4, FS_RemoveElement DEF EventsInv, OneEach
  <2>2. ASSUME NEW f \in rest
        PROVE  /\ f.req \in DOMAIN requests' /\ clock' <= f.time
               /\ f.kind = "start" => f.waited \subseteq ToSet(Prefix(f.req))'
               /\ f.waitStarted = None => f.waited = {}
               /\ f.hits <= Len(Prefix(f.req))'
    <3>1. f \in events /\ Prefix(f.req)' = Prefix(f.req)
      BY <1>1, <1>2, Zenon DEF Prefix
    <3> QED  BY <1>2, <1>3, <1>4, <3>1 DEF EventsInv
  <2> QED  BY <2>1, <2>2 DEF Ahead, OneEach
<1>11. /\ IsFiniteSet(running) /\ Cardinality(running) = nodes[n].active - 1
       /\ nodes[n].active - 1 \in Nat
  <2>1. IsFiniteSet(Running(n)) /\ nodes[n].active = Cardinality(Running(n))
    <3>1. IsFiniteSet(events) /\ Running(n) \subseteq events
      BY <1>4 DEF EventsInv, Running
    <3> QED  BY <1>5, <3>1, FS_Subset DEF SlotsFit, SlotsHold
  <2>2. IsFiniteSet(running) /\ Cardinality(running) = Cardinality(Running(n)) - 1
    BY <1>1, <1>7, <2>1, FS_RemoveElement, Zenon
  <2>3. Cardinality(running) \in Nat
    BY <2>2, FS_CardinalityType
  <2> QED  BY <2>1, <2>2, <2>3
<1>12. ASSUME NEW b \in Block
       PROVE  /\ pins[b] = Cardinality({f \in running : b \in HitSet(f.req, f.hits)})
              /\ pins[b] \in Nat
  <2>1. PICK old, new : /\ old = {f \in Running(n) : b \in HitSet(f.req, f.hits)}
                        /\ new = {f \in running : b \in HitSet(f.req, f.hits)}
    OBVIOUS
  <2>2. nodes[n].activePins[b] = Cardinality(old)
    BY <1>5, <2>1 DEF PinsFit
  <2>3. IsFiniteSet(old) /\ IsFiniteSet(new)
    <3>1. IsFiniteSet(events) /\ old \subseteq events /\ new \subseteq events
      BY <1>1, <1>4, <2>1, Zenon DEF EventsInv, Running
    <3> QED  BY <3>1, FS_Subset
  <2>4. Cardinality(old) \in Nat /\ Cardinality(new) \in Nat
    BY <2>3, FS_CardinalityType
  <2>5. CASE b \in HitSet(r, hits)
    <3>1. e \in old /\ new = old \ {e}
      BY <1>1, <1>7, <2>1, <2>5, Zenon
    <3>2. Cardinality(new) = Cardinality(old) - 1
      BY <2>3, <3>1, FS_RemoveElement
    <3>3. pins[b] = nodes[n].activePins[b] - 1
      BY <1>1, <2>5, Zenon DEF Unpinned
    <3> QED  BY <2>1, <2>2, <2>4, <3>2, <3>3
  <2>6. CASE b \notin HitSet(r, hits)
    <3>1. new = old
      BY <1>1, <2>1, <2>6, Zenon
    <3>2. pins[b] = nodes[n].activePins[b]
      BY <1>1, <2>6, Zenon DEF Unpinned
    <3> QED  BY <2>1, <2>2, <2>4, <3>1, <3>2, Zenon
  <2> QED  BY <2>5, <2>6
<1>13. pins \in [Block -> Nat] /\ inflight \in [Block -> Nat \cup {None}]
  <2>1. pins \in [Block -> Nat]
    BY <1>1, <1>12, Zenon DEF Unpinned
  <2>2. nodes[n].inflight \in [Block -> Nat \cup {None}]
    BY <1>4 DEF NodeState
  <2>3. inflight \in [Block -> Nat \cup {None}]
    BY <1>1, <2>2, Zenon DEF Landed
  <2> QED  BY <2>1, <2>3
<1>14. /\ before \in NodeState /\ before.cache = cache /\ before.queue = nodes[n].queue
       /\ before.active = nodes[n].active - 1 /\ before.activePins = pins
       /\ before.waiterPins = nodes[n].waiterPins /\ before.inflight = inflight
  <2>1. before = [nodes[n] EXCEPT !.cache = cache, !.active = nodes[n].active - 1,
                                  !.activePins = pins, !.inflight = inflight]
    BY <1>1, Zenon
  <2>2. PICK active : active = nodes[n].active - 1
    OBVIOUS
  <2>3. active \in Nat
    BY <1>11, <2>2
  <2> QED  BY <1>4, <1>8, <1>13, <2>1, <2>2, <2>3 DEF NodeState
<1>15. SlotsSuffice(before, running)
  <2>1. ScheduledItems(before) = ScheduledItems(nodes[n])
    BY <1>14 DEF ScheduledItems
  <2>2. PICK count, active : /\ count = Cardinality(ScheduledItems(nodes[n]))
                             /\ active = nodes[n].active
    OBVIOUS
  <2>3. active + count <= config.concurrency
    BY <1>5, <2>2 DEF SlotsFit, SlotsHold
  <2>4. count \in Nat /\ active \in Nat /\ config.concurrency \in Nat
    <3>1. PICK q : q = nodes[n].queue
      OBVIOUS
    <3>2. q \in Seq([req: 1..MaxRequests, scheduled: BOOLEAN])
      BY <1>4, <3>1 DEF NodeState
    <3>3. IsFiniteSet(1..Len(q))
      BY <3>2, FS_Interval
    <3>4. IsFiniteSet(ScheduledItems(nodes[n]))
      BY <3>1, <3>3, FS_Subset DEF ScheduledItems
    <3>5. config.concurrency \in Nat
      BY <1>4, SimulatorAssumption DEF TypeOK
    <3> QED  BY <1>4, <2>2, <3>4, <3>5, FS_CardinalityType DEF NodeState
  <2>5. before.active = active - 1 /\ Cardinality(ScheduledItems(before)) = count
    BY <1>14, <2>1, <2>2
  <2>6. active - 1 + count <= config.concurrency
    BY <2>3, <2>4
  <2>7. before.active = Cardinality(running)
    BY <1>11, <1>14
  <2> QED  BY <2>5, <2>6, <2>7 DEF SlotsSuffice
<1>16. QueueHolds(before.queue, Starts(n), running) /\ ItemsOf(before.queue, n)'
  <2>1. QueueHolds(before.queue, Starts(n), running)
    <3>1. PICK q, starts, runs : /\ q = before.queue /\ starts = Starts(n)
                                 /\ runs = Running(n)
      OBVIOUS
    <3>2. QueueHolds(q, starts, runs) /\ running \subseteq runs
      BY <1>1, <1>5, <1>14, <3>1, Zenon DEF QueueFits
    <3>3. QueueHolds(q, starts, running)
      BY <3>2 DEF QueueHolds
    <3> QED  BY <3>1, <3>3
  <2>2. ASSUME NEW q, q = before.queue PROVE ItemsOf(q, n)'
    <3>1. \A i \in DOMAIN q : q[i].req \in DOMAIN requests /\ requests[q[i].req].node = n
      BY <1>5, <1>14, <2>2 DEF QueueFits
    <3> QED  BY <1>2, <3>1 DEF ItemsOf
  <2> QED  BY <2>1, <2>2
<1>17. NowScheduled(n, before, rest, Starts(n), running)
  <2>1. ASSUME NEW time, time \in Nat, time = e.time, NEW starts, starts = Starts(n)
        PROVE  NowScheduled(n, before, rest, starts, running)
    <3>1. /\ clock' = time /\ Ahead(rest)' /\ starts = StartsAmong(rest, n)'
          /\ running = RunningAmong(rest, n)' /\ before \in NodeState
          /\ QueueHolds(before.queue, starts, running) /\ ItemsOf(before.queue, n)'
          /\ SlotsSuffice(before, running) /\ config \in Configs /\ config' = config
          /\ sequence \in Nat /\ news = NewStarts(before, time, sequence)
          /\ events' = rest \cup news
          /\ requests' \in Seq([prefix: PrefixChains, node: Nodes])
          /\ sequence' = sequence + Cardinality(ToSchedule(before))
      BY <1>1, <1>2, <1>4, <1>9, <1>10, <1>14, <1>15, <1>16, <2>1, Zenon DEF TypeOK
    <3>2. nodes'[n] = Rescheduled(before)
      BY <1>2, <1>3, <1>4 DEF TypeOK
    <3> QED  BY <2>1, <3>1, <3>2, NodeScheduled
  <2> QED  BY <1>3, <2>1
<1>18. /\ events' \subseteq Event /\ EventsInv' /\ QueueFits(n)' /\ SlotsFit(n)'
       /\ sequence' \in Nat /\ nodes'[n] \in NodeState
       /\ nodes'[n] = WithQueue(before, nodes'[n].queue)
       /\ \A f \in events' : f.kind = "finish" => f \in rest
       /\ Running(n)' = running /\ Starts(n) \subseteq Starts(n)'
       /\ \A m : m # n => Starts(m)' = Starts(m) /\ Running(m)' = Running(m)
  BY <1>9, <1>17 DEF NowScheduled
<1>19. /\ nodes'[n].cache = cache /\ nodes'[n].activePins = pins
       /\ nodes'[n].waiterPins = nodes[n].waiterPins /\ nodes'[n].inflight = inflight
  <2>1. PICK after, queue : after = nodes'[n] /\ queue = nodes'[n].queue
    OBVIOUS
  <2>2. after = [before EXCEPT !.queue = queue]
    BY <1>18, <2>1 DEF WithQueue
  <2>3. /\ after.cache = before.cache /\ after.activePins = before.activePins
        /\ after.waiterPins = before.waiterPins /\ after.inflight = before.inflight
    BY <1>14, <2>2 DEF NodeState
  <2> QED  BY <1>14, <2>1, <2>3
<1>20. nodes' \in [Nodes -> NodeState] /\ \A m \in Nodes \ {n} : nodes'[m] = nodes[m]
  <2>1. PICK after : after = Rescheduled(before)
    OBVIOUS
  <2>2. nodes' = [nodes EXCEPT ![n] = after] /\ nodes \in [Nodes -> NodeState]
    BY <1>2, <1>4, <2>1 DEF TypeOK
  <2>3. after \in NodeState
    BY <1>3, <1>18, <2>2
  <2> QED  BY <1>3, <2>2, <2>3
<1>21. TypeOK'
  <2>1. decisions' \subseteq 1..MaxRequests
    <3>1. r \in 1..MaxRequests
      BY <1>1, <1>3 DEF Event
    <3> QED  BY <1>2, <1>4, <3>1 DEF TypeOK
  <2> QED  BY <1>2, <1>3, <1>4, <1>18, <1>20, <2>1 DEF TypeOK
<1>22. \A f \in Running(n)' : HitSet(f.req, f.hits)' \subseteq nodes'[n].cache.resident
  <2>1. ASSUME NEW f \in running, NEW b \in HitSet(f.req, f.hits) PROVE b \in cache.resident
    <3>1. f \in Running(n) /\ b \in nodes[n].cache.resident
      BY <1>1, <1>5, <2>1, Zenon DEF PinsFit
    <3>2. b \in Block
      BY <1>5, <3>1 DEF CacheFits, Cache
    <3>3. PICK old : old = {g \in Running(n) : b \in HitSet(g.req, g.hits)}
      OBVIOUS
    <3>4. nodes[n].activePins[b] = Cardinality(old)
      BY <1>5, <3>2, <3>3 DEF PinsFit
    <3>5. IsFiniteSet(old) /\ f \in old
      <4>1. IsFiniteSet(events) /\ old \subseteq events
        BY <1>4, <3>3 DEF EventsInv, Running
      <4> QED  BY <2>1, <3>1, <3>3, <4>1, FS_Subset
    <3>6. Cardinality(old) \in Nat /\ Cardinality(old) # 0
      BY <3>5, FS_CardinalityType, FS_EmptySet
    <3>7. b \in Pinned(nodes[n])
      BY <3>2, <3>4, <3>6 DEF Pinned
    <3> QED  BY <1>8, <3>1, <3>7 DEF Resident
  <2> QED  BY <1>6, <1>18, <1>19, <2>1
<1>23. ASSUME NEW b \in Block
       PROVE  nodes'[n].activePins[b]
                 = Cardinality({f \in Running(n)' : b \in HitSet(f.req, f.hits)'})
  <2>1. {f \in Running(n)' : b \in HitSet(f.req, f.hits)'}
           = {f \in running : b \in HitSet(f.req, f.hits)}
    BY <1>6, <1>18
  <2> QED  BY <1>12, <1>19, <2>1
<1>24. ASSUME NEW b \in Block, b \in nodes'[n].waiterPins
       PROVE  \E f \in Starts(n)' : b \in f.waited
  <2>1. \E f \in Starts(n) : b \in f.waited
    BY <1>5, <1>19, <1>24 DEF PinsFit
  <2> QED  BY <1>18, <2>1
<1>25. ASSUME NEW b \in Block, nodes'[n].inflight[b] # None
       PROVE  \E f \in Running(n)' : /\ b \in MissSet(f.req, f.hits)'
                                     /\ f.time = nodes'[n].inflight[b]
  <2>1. /\ inflight[b] = nodes[n].inflight[b]
        /\ ~(b \in MissSet(r, hits) /\ inflight[b] = e.time)
    <3>1. inflight[b] = IF b \in MissSet(r, hits) /\ nodes[n].inflight[b] = e.time
                        THEN None ELSE nodes[n].inflight[b]
      BY <1>1, Zenon DEF Landed
    <3>2. inflight[b] # None
      BY <1>19, <1>25
    <3> QED  BY <3>1, <3>2
  <2>2. PICK f \in Running(n) : b \in MissSet(f.req, f.hits) /\ f.time = inflight[b]
    BY <1>5, <1>19, <1>25, <2>1 DEF PinsFit
  <2>3. f \in running
    BY <1>1, <2>1, <2>2, Zenon
  <2> QED  BY <1>6, <1>18, <1>19, <2>2, <2>3
<1>26. ASSUME config.visibility = "INFLIGHT_DEDUP_WAIT"
       PROVE  /\ \A f \in Running(n)' : \A b \in MissSet(f.req, f.hits)' : nodes'[n].inflight[b] # None
              /\ \A f, g \in Running(n)' :
                    f # g => MissSet(f.req, f.hits)' \cap MissSet(g.req, g.hits)' = {}
  <2>1. /\ \A f \in Running(n) : \A b \in MissSet(f.req, f.hits) : nodes[n].inflight[b] # None
        /\ \A f, g \in Running(n) :
              f # g => MissSet(f.req, f.hits) \cap MissSet(g.req, g.hits) = {}
    BY <1>5, <1>26 DEF PinsFit
  <2>2. ASSUME NEW f \in running, NEW b \in MissSet(f.req, f.hits) PROVE inflight[b] # None
    <3>1. f \in Running(n) /\ f # e
      BY <1>1, Zenon
    <3>2. nodes[n].inflight[b] # None /\ b \notin MissSet(r, hits)
      BY <1>1, <1>7, <2>1, <3>1, Zenon
    <3>3. b \in Block
      <4>1. f.req \in DOMAIN requests /\ f.hits \in 0..Len(Prefix(f.req))
        <5>1. f \in events /\ f \in Event
          BY <1>3, <3>1 DEF Running
        <5> QED  BY <1>4, <5>1 DEF EventsInv, Event
      <4>2. MissSet(f.req, f.hits) \subseteq Block
        BY <1>4, <4>1, HitsAndMisses
      <4> QED  BY <4>2
    <3>4. inflight[b] = nodes[n].inflight[b]
      BY <1>1, <3>2, <3>3, Zenon DEF Landed
    <3> QED  BY <3>2, <3>4
  <2>3. \A f \in Running(n)' : \A b \in MissSet(f.req, f.hits)' : nodes'[n].inflight[b] # None
    BY <1>6, <1>18, <1>19, <2>2
  <2>4. \A f, g \in Running(n)' :
           f # g => MissSet(f.req, f.hits)' \cap MissSet(g.req, g.hits)' = {}
    BY <1>1, <1>6, <1>18, <2>1, Zenon
  <2> QED  BY <2>3, <2>4
<1>27. PinsFit(n)'
  BY <1>2, <1>22, <1>23, <1>24, <1>25, <1>26 DEF PinsFit
<1>28. /\ HistoryFits(n)' /\ history' \in [Nodes -> SUBSET Interval]
       /\ \A m \in Nodes \ {n} : history'[m] = history[m]
  <2>1. PICK placed : placed = cache.resident
    OBVIOUS
  <2>2. observed = clock' => placed = Resident(n)
    <3>1. ASSUME observed = clock' PROVE MissSet(r, hits) = {}
      <4>1. observed # None /\ e.time <= observed
        BY <1>2, <1>3, <3>1 DEF None
      <4> QED  BY <1>1, <1>2, <1>4, <4>1, Zenon DEF ViewInv
    <3> QED  BY <1>8, <2>1, <3>1
  <2>3. /\ observed \in Nat \cup {None} /\ observed <= clock
        /\ clock \in Nat /\ clock' \in Nat /\ clock <= clock'
    BY <1>2, <1>3, <1>4 DEF TypeOK, ViewInv
  <2>4. /\ history' = HistoryAfter(n, placed) /\ nodes'[n].cache.resident = placed
        /\ placed \subseteq Block
    BY <1>2, <1>8, <1>19, <2>1
  <2> QED  BY <1>2, <1>3, <1>4, <1>5, <2>2, <2>3, <2>4, HistoryWritten
<1>29. \A m \in Nodes : NodeInv(m)'
  <2>1. ASSUME NEW m \in Nodes, m # n PROVE NodeInv(m)'
    <3>1. nodes'[m] = nodes[m] /\ Starts(m)' = Starts(m) /\ Running(m)' = Running(m)
      BY <1>18, <1>20, <2>1
    <3>2. CacheFits(nodes[m].cache)' /\ QueueFits(m)' /\ SlotsFit(m)' /\ PinsFit(m)'
      BY <1>2, <1>6, <3>1, OtherNodes
    <3>3. HistoryFits(m)'
      BY <1>2, <1>3, <1>28, <2>1, <3>1, HistoryAges
    <3> QED  BY <3>2, <3>3 DEF NodeInv
  <2>2. CacheFits(nodes[n].cache)'
    BY <1>8, <1>19
  <2>3. NodeInv(n)'
    BY <1>18, <1>27, <1>28, <2>2 DEF NodeInv
  <2> QED  BY <2>1, <2>3
<1>30. ViewInv' /\ OnePass'
  <2>1. observed <= clock'
    BY <1>2, <1>3, <1>4 DEF ViewInv, TypeOK, None
  <2>2. \A f \in events' : f.kind = "finish" => f \in events
    BY <1>1, <1>18, Zenon
  <2>3. ViewInv'
    BY <1>2, <1>4, <1>6, <2>1, <2>2 DEF ViewInv
  <2> QED  BY <1>2, <1>3, <2>3 DEF OnePass
<1> QED  BY <1>2, <1>4, <1>18, <1>21, <1>28, <1>29, <1>30 DEF SimInv

\* A view taken now sees what the caches hold.
LEMMA ViewTaken ==
    ASSUME SimInv, NEW n, n \in Nodes, history'[n] = history[n], clock' \in Nat,
           clock <= clock', observed' = clock', residentThen'[n] = Resident(n),
           nodes'[n].cache.resident = nodes[n].cache.resident
    PROVE  HistoryFits(n)'
<1>1. HistoryFits(n) /\ clock \in Nat /\ history[n] \subseteq Interval
  BY DEF SimInv, NodeInv, TypeOK
<1>2. \A x \in history[n] : /\ x.from \in Nat /\ x.to \in Nat \cup {None}
                            /\ x.from <= clock /\ x.to <= clock
  BY <1>1 DEF HistoryFits, Interval
<1>3. \A x \in history'[n] : x.from <= clock' /\ x.to <= clock'
  BY <1>1, <1>2 DEF None
<1>4. {x.block : x \in {y \in history'[n] : y.to = None}} = nodes'[n].cache.resident
  BY <1>1 DEF HistoryFits, Resident
<1>5. \A x \in history[n] : Covers(x, clock') <=> x.to = None
  <2>1. ASSUME NEW x \in history[n], x.to # None PROVE ~Covers(x, clock')
    <3>1. x.to \in Nat /\ x.to <= clock
      BY <1>2, <2>1
    <3> QED  BY <1>1, <2>1, <3>1 DEF Covers
  <2>2. ASSUME NEW x \in history[n], x.to = None PROVE Covers(x, clock')
    BY <1>1, <1>2, <2>2 DEF Covers
  <2> QED  BY <2>1, <2>2
<1>6. residentThen'[n] = {x.block : x \in {y \in history'[n] : Covers(y, observed')}}
  <2>1. {y \in history'[n] : Covers(y, observed')} = {y \in history'[n] : y.to = None}
    BY <1>5
  <2> QED  BY <1>4, <2>1 DEF Resident
<1> QED  BY <1>3, <1>4, <1>6 DEF HistoryFits, Resident, Covers

\* A request that arrives queues, and its node starts what it can.
LEMMA ArriveKeeps ==
    ASSUME SimInv, NEW time, time \in Nat, NEW prefix, prefix \in PrefixChains,
           NEW n, n \in Nodes, Arrive(time, prefix, n)
    PROVE  SimInv'
<1>1. PICK last, item, queue, before, news, rest :
            /\ rest = events /\ last = Len(requests) + 1 /\ item = [req |-> last, scheduled |-> FALSE]
            /\ queue = Append(nodes[n].queue, item)
            /\ before = [nodes[n] EXCEPT !.queue = queue]
            /\ news = NewStarts(before, time, sequence)
  OBVIOUS
<1>2. /\ config.queued /\ Arrives(time, prefix, n) /\ Observe(time)
      /\ nodes' = [nodes EXCEPT ![n] = Rescheduled(before)]
      /\ events' = rest \cup news
      /\ sequence' = sequence + Cardinality(ToSchedule(before))
      /\ config' = config /\ decisions' = decisions /\ history' = history
  <2> DEFINE Item0 == [req |-> Len(requests) + 1, scheduled |-> FALSE]
             Node == [nodes[n] EXCEPT !.queue = Append(@, Item0)]
  <2>1. /\ config.queued /\ Arrives(time, prefix, n) /\ Observe(time)
        /\ nodes' = [nodes EXCEPT ![n] = Rescheduled(Node)]
        /\ events' = events \cup NewStarts(Node, time, sequence)
        /\ sequence' = sequence + Cardinality(ToSchedule(Node))
        /\ UNCHANGED <<config, decisions, history>>
    BY Zenon DEF Arrive
  <2>2. Node = before
    BY <1>1
  <2> HIDE DEF Node
  <2> QED  BY <1>1, <2>1, <2>2
<1>3. /\ Len(requests) < MaxRequests /\ clock <= time /\ clock' = time
      /\ \A e \in events : e.time > time
      /\ requests' = Append(requests, [prefix |-> prefix, node |-> n])
  BY <1>2 DEF Arrives
<1>4. TypeOK /\ EventsInv /\ ViewInv /\ NodeInv(n) /\ nodes[n] \in NodeState
      /\ Len(requests) <= MaxRequests /\ history \in [Nodes -> SUBSET Interval]
      /\ clock \in Nat /\ sequence \in Nat
  BY DEF SimInv, TypeOK
<1>5. QueueFits(n) /\ SlotsFit(n) /\ PinsFit(n) /\ CacheFits(nodes[n].cache)
  BY <1>4 DEF NodeInv
<1>6. /\ requests' \in Seq([prefix: PrefixChains, node: Nodes])
      /\ Len(requests') <= MaxRequests /\ last \in 1..MaxRequests
      /\ last \notin DOMAIN requests /\ last \in DOMAIN requests'
      /\ requests'[last].node = n /\ RequestsKept
  <2>1. PICK list, new : list = requests /\ new = [prefix |-> prefix, node |-> n]
    OBVIOUS
  <2>2. /\ list \in Seq([prefix: PrefixChains, node: Nodes])
        /\ new \in [prefix: PrefixChains, node: Nodes] /\ new.node = n
    BY <1>4, <2>1 DEF TypeOK
  <2>3. requests' = Append(list, new) /\ last = Len(list) + 1
    BY <1>1, <1>3, <2>1
  <2>4. /\ Append(list, new) \in Seq([prefix: PrefixChains, node: Nodes])
        /\ Len(Append(list, new)) = Len(list) + 1
        /\ \A i \in 1..Len(list) : Append(list, new)[i] = list[i]
        /\ Append(list, new)[Len(list) + 1] = new
    BY <2>2, AppendProperties
  <2>5. Len(list) \in Nat /\ DOMAIN list = 1..Len(list)
        /\ DOMAIN Append(list, new) = 1..(Len(list) + 1)
    BY <2>2, <2>4
  <2>6. MaxRequests \in Nat /\ Len(list) < MaxRequests
    BY <1>3, <2>1, SimulatorAssumption
  <2> QED  BY <2>1, <2>2, <2>3, <2>4, <2>5, <2>6 DEF RequestsKept
<1>7. \A e \in events : /\ e \in Event /\ e.req \in DOMAIN requests /\ e.req # last
                        /\ e.req \in DOMAIN requests'
                        /\ requests'[e.req] = requests[e.req]
                        /\ Prefix(e.req)' = Prefix(e.req)
                        /\ MissSet(e.req, e.hits)' = MissSet(e.req, e.hits)
  BY <1>4, <1>6, SetsKept DEF EventsInv, TypeOK, RequestsKept
<1>8. \A m : StartsAmong(rest, m)' = Starts(m) /\ RunningAmong(rest, m)' = Running(m)
  <2>1. \A m : /\ StartsAmong(rest, m)'
                     = {f \in rest : f.kind = "start" /\ requests'[f.req].node = m}
               /\ RunningAmong(rest, m)'
                     = {f \in rest : f.kind = "finish" /\ requests'[f.req].node = m}
    BY DEF StartsAmong, RunningAmong
  <2> QED  BY <1>1, <1>7, <2>1 DEF Starts, Running
<1>9. Ahead(rest)'
  <2>1. IsFiniteSet(rest) /\ rest \subseteq Event /\ OneEach(rest)
    BY <1>1, <1>4, <1>7 DEF EventsInv, OneEach
  <2>2. ASSUME NEW f \in rest
        PROVE  /\ f.req \in DOMAIN requests' /\ clock' <= f.time
               /\ f.kind = "start" => f.waited \subseteq ToSet(Prefix(f.req))'
               /\ f.waitStarted = None => f.waited = {}
               /\ f.hits <= Len(Prefix(f.req))'
    <3>1. f \in events
      BY <1>1
    <3>2. clock' <= f.time
      BY <1>3, <1>7, <3>1 DEF Event
    <3> QED  BY <1>4, <1>7, <3>1, <3>2 DEF EventsInv
  <2> QED  BY <2>1, <2>2 DEF Ahead, OneEach
<1>10. /\ before \in NodeState /\ before.queue = queue /\ queue \in Seq(QueueItem)
       /\ before.active = nodes[n].active /\ before.cache = nodes[n].cache
       /\ before.activePins = nodes[n].activePins
       /\ before.waiterPins = nodes[n].waiterPins /\ before.inflight = nodes[n].inflight
  <2>1. item \in QueueItem
    BY <1>1, <1>6 DEF QueueItem
  <2>2. PICK q : q = nodes[n].queue
    OBVIOUS
  <2>3. q \in Seq(QueueItem)
    BY <1>4, <2>2 DEF NodeState, QueueItem
  <2>4. Append(q, item) \in Seq(QueueItem)
    BY <2>1, <2>3, AppendProperties
  <2>5. queue \in Seq(QueueItem)
    BY <1>1, <2>2, <2>4
  <2>6. before = [nodes[n] EXCEPT !.queue = queue]
    BY <1>1
  <2> QED  BY <1>4, <2>5, <2>6 DEF NodeState, QueueItem
<1>11. /\ QueueHolds(queue, Starts(n), Running(n)) /\ ItemsOf(queue, n)'
       /\ ScheduledItems(before) = ScheduledItems(nodes[n])
  <2>1. PICK q, starts, running : /\ q = nodes[n].queue /\ starts = Starts(n)
                                  /\ running = Running(n)
    OBVIOUS
  <2>2. /\ q \in Seq(QueueItem) /\ QueueHolds(q, starts, running)
        /\ \A i \in DOMAIN q : q[i].req \in DOMAIN requests /\ requests[q[i].req].node = n
    BY <1>4, <1>5, <2>1 DEF NodeState, QueueItem, QueueFits
  <2>3. /\ queue = Append(q, item) /\ item.req = last /\ ~item.scheduled
    BY <1>1, <2>1
  <2>4. /\ DOMAIN q = 1..Len(q) /\ DOMAIN queue = 1..(Len(q) + 1) /\ Len(q) \in Nat
        /\ Len(queue) = Len(q) + 1
        /\ \A i \in 1..Len(q) : queue[i] = q[i]
        /\ queue[Len(q) + 1] = item
    <3>1. item \in QueueItem
      BY <1>1, <1>6 DEF QueueItem
    <3> QED  BY <2>2, <2>3, <3>1, AppendProperties
  <2>5. /\ \A i \in 1..Len(q) : q[i].req # last
        /\ \A f \in starts : f.req # last
        /\ \A f \in running : f.req # last
    BY <1>6, <1>7, <2>1, <2>2, <2>4 DEF Starts, Running
  <2>6. QueueHolds(queue, starts, running)
    <3>1. \A i, j \in DOMAIN queue : queue[i].req = queue[j].req => i = j
      BY <2>2, <2>3, <2>4, <2>5 DEF QueueHolds
    <3>2. ASSUME NEW i \in DOMAIN queue
          PROVE  queue[i].scheduled <=> \E f \in starts : f.req = queue[i].req
      <4>1. CASE i \in 1..Len(q)
        BY <2>2, <2>4, <4>1 DEF QueueHolds
      <4>2. CASE i = Len(q) + 1
        BY <2>3, <2>4, <2>5, <4>2
      <4> QED  BY <2>4, <4>1, <4>2
    <3>3. \A f \in starts : \E i \in DOMAIN queue : queue[i].req = f.req
      BY <2>2, <2>4 DEF QueueHolds
    <3>4. \A f \in running : \A i \in DOMAIN queue : queue[i].req # f.req
      BY <2>2, <2>3, <2>4, <2>5 DEF QueueHolds
    <3> QED  BY <3>1, <3>2, <3>3, <3>4 DEF QueueHolds
  <2>7. ItemsOf(queue, n)'
    <3>1. ASSUME NEW i \in DOMAIN queue
          PROVE  queue[i].req \in DOMAIN requests' /\ requests'[queue[i].req].node = n
      <4>1. CASE i \in 1..Len(q)
        BY <1>6, <2>2, <2>4, <4>1 DEF RequestsKept
      <4>2. CASE i = Len(q) + 1
        BY <1>6, <2>3, <2>4, <4>2
      <4> QED  BY <2>4, <4>1, <4>2
    <3> QED  BY <3>1 DEF ItemsOf
  <2>8. ScheduledItems(before) = ScheduledItems(nodes[n])
    <3>1. /\ ScheduledItems(before) = {i \in 1..Len(queue) : queue[i].scheduled}
          /\ ScheduledItems(nodes[n]) = {i \in 1..Len(q) : q[i].scheduled}
      BY <1>10, <2>1 DEF ScheduledItems
    <3> QED  BY <2>3, <2>4, <3>1
  <2> QED  BY <2>1, <2>6, <2>7, <2>8
<1>12. SlotsSuffice(before, Running(n))
  BY <1>5, <1>10, <1>11 DEF SlotsFit, SlotsHold, SlotsSuffice
<1>13. NowScheduled(n, before, rest, Starts(n), Running(n))
  <2>1. PICK starts, running : starts = Starts(n) /\ running = Running(n)
    OBVIOUS
  <2>2. /\ Ahead(rest)' /\ starts = StartsAmong(rest, n)'
        /\ running = RunningAmong(rest, n)' /\ before \in NodeState
        /\ QueueHolds(before.queue, starts, running)
        /\ SlotsSuffice(before, running) /\ config \in Configs /\ config' = config
        /\ news = NewStarts(before, time, sequence)
        /\ sequence' = sequence + Cardinality(ToSchedule(before))
    BY <1>1, <1>2, <1>4, <1>8, <1>9, <1>10, <1>11, <1>12, <2>1 DEF TypeOK
  <2>3. nodes'[n] = Rescheduled(before)
    BY <1>2, <1>4 DEF TypeOK
  <2>4. ASSUME NEW q, q = before.queue PROVE ItemsOf(q, n)'
    BY <1>10, <1>11, <2>4
  <2>5. ItemsOf(before.queue, n)'
    BY <2>4
  <2>6. NowScheduled(n, before, rest, starts, running)
    BY <1>2, <1>3, <1>4, <1>6, <2>2, <2>3, <2>5, NodeScheduled
  <2> QED  BY <2>1, <2>6
<1>14. /\ events' \subseteq Event /\ EventsInv' /\ QueueFits(n)' /\ SlotsFit(n)'
       /\ sequence' \in Nat /\ nodes'[n] \in NodeState
       /\ nodes'[n] = WithQueue(before, nodes'[n].queue)
       /\ \A f \in events' : f.kind = "finish" => f \in events
       /\ Running(n)' = Running(n) /\ Starts(n) \subseteq Starts(n)'
       /\ \A m : m # n => Starts(m)' = Starts(m) /\ Running(m)' = Running(m)
  BY <1>1, <1>8, <1>13 DEF NowScheduled
<1>15. /\ nodes'[n].cache = nodes[n].cache /\ nodes'[n].activePins = nodes[n].activePins
       /\ nodes'[n].waiterPins = nodes[n].waiterPins
       /\ nodes'[n].inflight = nodes[n].inflight
  <2>1. PICK after, tail : after = nodes'[n] /\ tail = nodes'[n].queue
    OBVIOUS
  <2>2. after = [before EXCEPT !.queue = tail]
    BY <1>14, <2>1 DEF WithQueue
  <2>3. /\ after.cache = before.cache /\ after.activePins = before.activePins
        /\ after.waiterPins = before.waiterPins /\ after.inflight = before.inflight
    BY <1>10, <2>2 DEF NodeState
  <2> QED  BY <1>10, <2>1, <2>3
<1>16. nodes' \in [Nodes -> NodeState] /\ \A m \in Nodes \ {n} : nodes'[m] = nodes[m]
  <2>1. PICK after : after = Rescheduled(before)
    OBVIOUS
  <2>2. nodes' = [nodes EXCEPT ![n] = after] /\ nodes \in [Nodes -> NodeState]
    BY <1>2, <1>4, <2>1 DEF TypeOK
  <2>3. after \in NodeState
    BY <1>14, <2>2
  <2> QED  BY <2>2, <2>3
<1>17. \/ observed' = time /\ residentThen' = [m \in Nodes |-> Resident(m)]
       \/ observed' = observed /\ residentThen' = residentThen
  BY <1>2 DEF Observe
<1>18. residentThen' \in [Nodes -> SUBSET Block] /\ observed' \in Nat \cup {None}
  <2>1. \A m \in Nodes : Resident(m) \subseteq Block
    BY DEF SimInv, NodeInv, CacheFits, Cache, Resident
  <2> QED  BY <1>4, <1>17, <2>1 DEF TypeOK
<1>19. TypeOK'
  BY <1>2, <1>3, <1>4, <1>6, <1>14, <1>16, <1>18 DEF TypeOK
<1>20. PinsFit(n)'
  <2>1. \A e \in Running(n) : /\ e.req \in DOMAIN requests
                              /\ HitSet(e.req, e.hits) \subseteq nodes'[n].cache.resident
    BY <1>5, <1>7, <1>15 DEF PinsFit, Running
  <2> QED  BY <1>2, <1>5, <1>6, <1>14, <1>15, <2>1, PinsStay
<1>21. \A m \in Nodes : HistoryFits(m)'
  <2>1. ASSUME NEW m \in Nodes PROVE HistoryFits(m)'
    <3>1. nodes'[m].cache.resident = nodes[m].cache.resident
      BY <1>15, <1>16
    <3>2. clock' \in Nat /\ clock <= clock' /\ history'[m] = history[m]
      BY <1>2, <1>3
    <3>3. CASE observed' = time /\ residentThen' = [k \in Nodes |-> Resident(k)]
      <4>1. residentThen'[m] = Resident(m)
        BY <3>3
      <4> QED  BY <1>3, <3>1, <3>2, <3>3, <4>1, ViewTaken
    <3>4. CASE observed' = observed /\ residentThen' = residentThen
      BY <3>1, <3>2, <3>4, HistoryAges
    <3> QED  BY <1>17, <3>3, <3>4
  <2> QED  BY <2>1
<1>22. \A m \in Nodes : NodeInv(m)'
  <2>1. ASSUME NEW m \in Nodes, m # n PROVE NodeInv(m)'
    <3>1. nodes'[m] = nodes[m] /\ Starts(m)' = Starts(m) /\ Running(m)' = Running(m)
      BY <1>14, <1>16, <2>1
    <3>2. CacheFits(nodes[m].cache)' /\ QueueFits(m)' /\ SlotsFit(m)' /\ PinsFit(m)'
      BY <1>2, <1>6, <3>1, OtherNodes
    <3> QED  BY <1>21, <3>2 DEF NodeInv
  <2>2. CacheFits(nodes[n].cache)'
    BY <1>5, <1>15
  <2>3. NodeInv(n)'
    BY <1>14, <1>20, <1>21, <2>2 DEF NodeInv
  <2> QED  BY <2>1, <2>3
<1>23. ViewInv' /\ OnePass'
  <2>1. observed' <= clock'
    BY <1>3, <1>4, <1>17 DEF ViewInv, TypeOK, None
  <2>2. ASSUME NEW f \in events', f.kind = "finish", f.time <= observed', observed' # None
        PROVE  MissSet(f.req, f.hits)' = {}
    <3>1. f \in events /\ f.time \in Nat /\ f.time > time
      BY <1>3, <1>7, <1>14, <2>2 DEF Event
    <3>2. observed' = observed
      BY <1>17, <2>2, <3>1
    <3>3. MissSet(f.req, f.hits) = {}
      BY <1>4, <2>2, <3>1, <3>2 DEF ViewInv
    <3> QED  BY <1>7, <3>1, <3>3
  <2>3. ViewInv'
    BY <2>1, <2>2 DEF ViewInv
  <2> QED  BY <1>2, <2>3 DEF OnePass
<1> QED  BY <1>2, <1>4, <1>6, <1>14, <1>19, <1>22, <1>23 DEF SimInv

\* A request replayed at its arrival is looked up and placed at once.
LEMMA ReplayAtArrivalKeeps ==
    ASSUME SimInv, NEW time, time \in Nat, NEW prefix, prefix \in PrefixChains,
           NEW n, n \in Nodes, ReplayAtArrival(time, prefix, n)
    PROVE  SimInv'
<1>1. PICK hits, looked, kept, cache :
            /\ hits = HitBlocks(Resident(n), prefix)
            /\ looked = LookedUp(nodes[n].cache, prefix, Capacity)
            /\ kept = ToSet(SubSeq(prefix, 1, hits))
            /\ cache = Placed(looked, prefix, kept, Capacity)
  OBVIOUS
<1>2. /\ ~config.queued /\ Arrives(time, prefix, n)
      /\ nodes' = [nodes EXCEPT ![n].cache = cache]
      /\ history' = HistoryAfter(n, cache.resident)
      /\ decisions' = decisions \cup {Len(requests')}
      /\ UNCHANGED <<config, events, sequence, observed, residentThen>>
  <2> DEFINE H == HitBlocks(Resident(n), prefix)
             C == Placed(LookedUp(nodes[n].cache, prefix, Capacity), prefix,
                         ToSet(SubSeq(prefix, 1, H)), Capacity)
  <2>1. /\ ~config.queued /\ Arrives(time, prefix, n)
        /\ nodes' = [nodes EXCEPT ![n].cache = C]
        /\ history' = HistoryAfter(n, C.resident)
        /\ decisions' = decisions \cup {Len(requests')}
        /\ UNCHANGED <<config, events, sequence, observed, residentThen>>
    BY Zenon DEF ReplayAtArrival
  <2>2. C = cache
    BY <1>1
  <2> HIDE DEF C
  <2> QED  BY <2>1, <2>2
<1>3. /\ Len(requests) < MaxRequests /\ clock <= time /\ clock' = time
      /\ requests' = Append(requests, [prefix |-> prefix, node |-> n])
  BY <1>2 DEF Arrives
<1>4. TypeOK /\ EventsInv /\ ViewInv /\ NodeInv(n) /\ nodes[n] \in NodeState
      /\ Len(requests) <= MaxRequests /\ history \in [Nodes -> SUBSET Interval]
      /\ clock \in Nat
  BY DEF SimInv, TypeOK
<1>5. /\ events = {} /\ events' = {} /\ observed = None /\ observed' = None
      /\ \A m \in Nodes : nodes[m].queue = <<>>
  BY <1>2 DEF SimInv, OnePass
<1>6. /\ requests' \in Seq([prefix: PrefixChains, node: Nodes])
      /\ Len(requests') \in 1..MaxRequests /\ RequestsKept
  <2>1. PICK list, new : list = requests /\ new = [prefix |-> prefix, node |-> n]
    OBVIOUS
  <2>2. /\ list \in Seq([prefix: PrefixChains, node: Nodes])
        /\ new \in [prefix: PrefixChains, node: Nodes]
    BY <1>4, <2>1 DEF TypeOK
  <2>3. requests' = Append(list, new)
    BY <1>3, <2>1
  <2>4. /\ Append(list, new) \in Seq([prefix: PrefixChains, node: Nodes])
        /\ Len(Append(list, new)) = Len(list) + 1
        /\ \A i \in 1..Len(list) : Append(list, new)[i] = list[i]
    BY <2>2, AppendProperties
  <2>5. Len(list) \in Nat /\ DOMAIN list = 1..Len(list)
        /\ DOMAIN Append(list, new) = 1..(Len(list) + 1)
    BY <2>2, <2>4
  <2>6. MaxRequests \in Nat /\ Len(list) < MaxRequests
    BY <1>3, <2>1, SimulatorAssumption
  <2> QED  BY <2>1, <2>3, <2>4, <2>5, <2>6 DEF RequestsKept
<1>7. CacheFits(cache) /\ cache \in Cache /\ cache.resident \subseteq Block
  <2>1. prefix \in Seq(Block) /\ CacheFits(nodes[n].cache)
    BY <1>4, SimulatorAssumption DEF NodeInv
  <2>2. PICK c : c = nodes[n].cache
    OBVIOUS
  <2>3. CacheFits(c) /\ looked = LookedUp(c, prefix, Capacity)
    BY <1>1, <2>1, <2>2
  <2>4. CacheFits(looked)
    BY <2>1, <2>3, LookedUpFits
  <2>5. CacheFits(cache)
    BY <1>1, <2>1, <2>4, PlacedFits
  <2> QED  BY <2>5 DEF CacheFits, Cache
<1>8. /\ nodes' \in [Nodes -> NodeState] /\ nodes'[n].cache = cache
      /\ nodes'[n].queue = nodes[n].queue /\ nodes'[n].active = nodes[n].active
      /\ nodes'[n].activePins = nodes[n].activePins
      /\ nodes'[n].waiterPins = nodes[n].waiterPins
      /\ nodes'[n].inflight = nodes[n].inflight
      /\ \A m \in Nodes \ {n} : nodes'[m] = nodes[m]
  <2>1. PICK node : node = [nodes[n] EXCEPT !.cache = cache]
    OBVIOUS
  <2>2. /\ node \in NodeState /\ node.cache = cache
        /\ node.queue = nodes[n].queue /\ node.active = nodes[n].active
        /\ node.activePins = nodes[n].activePins
        /\ node.waiterPins = nodes[n].waiterPins /\ node.inflight = nodes[n].inflight
    BY <1>4, <1>7, <2>1 DEF NodeState
  <2>3. nodes' = [nodes EXCEPT ![n] = node]
    BY <1>2, <2>1
  <2>4. nodes'[n] = node /\ nodes' \in [Nodes -> NodeState]
        /\ \A m \in Nodes \ {n} : nodes'[m] = nodes[m]
    BY <1>4, <2>2, <2>3 DEF TypeOK
  <2> QED  BY <2>2, <2>4
<1>9. TypeOK'
  <2>1. decisions' \subseteq 1..MaxRequests
    BY <1>2, <1>4, <1>6 DEF TypeOK
  <2> QED  BY <1>2, <1>3, <1>4, <1>6, <1>8, <2>1 DEF TypeOK
<1>10. EventsInv' /\ ViewInv' /\ OnePass'
  <2>1. EventsInv'
    BY <1>4, <1>5 DEF EventsInv
  <2>2. ViewInv'
    BY <1>3, <1>4, <1>5 DEF ViewInv, None
  <2>3. OnePass'
    BY <1>2, <1>5, <1>8 DEF OnePass
  <2> QED  BY <2>1, <2>2, <2>3
<1>11. \A m : /\ Starts(m) = {} /\ Running(m) = {}
              /\ Starts(m)' = {} /\ Running(m)' = {}
  BY <1>5 DEF Starts, Running
<1>12. QueueFits(n)' /\ SlotsFit(n)'
  <2>1. QueueFits(n) /\ SlotsFit(n) /\ nodes'[n].queue = <<>>
    BY <1>4, <1>5, <1>8 DEF NodeInv
  <2>2. QueueFits(n)'
    BY <1>11, <2>1 DEF QueueFits, QueueHolds
  <2>3. SlotsFit(n)'
    BY <1>2, <1>8, <1>11, <2>1 DEF SlotsFit, SlotsHold, ScheduledItems
  <2> QED  BY <2>2, <2>3
<1>13. PinsFit(n)'
  BY <1>2, <1>4, <1>6, <1>8, <1>11, PinsStay DEF NodeInv
<1>14. /\ HistoryFits(n)' /\ history' \in [Nodes -> SUBSET Interval]
       /\ \A m \in Nodes \ {n} : history'[m] = history[m]
  <2>1. PICK placed : placed = cache.resident
    OBVIOUS
  <2>2. HistoryFits(n) /\ observed = None /\ observed # clock' /\ observed <= clock
    BY <1>3, <1>4, <1>5 DEF NodeInv, None
  <2>3. /\ history' = HistoryAfter(n, placed) /\ nodes'[n].cache.resident = placed
        /\ placed \subseteq Block
    BY <1>2, <1>7, <1>8, <2>1
  <2> QED  BY <1>2, <1>3, <1>4, <2>2, <2>3, HistoryWritten
<1>15. \A m \in Nodes : NodeInv(m)'
  <2>1. ASSUME NEW m \in Nodes, m # n PROVE NodeInv(m)'
    <3>1. nodes'[m] = nodes[m] /\ Starts(m)' = Starts(m) /\ Running(m)' = Running(m)
      BY <1>8, <1>11, <2>1
    <3>2. CacheFits(nodes[m].cache)' /\ QueueFits(m)' /\ SlotsFit(m)' /\ PinsFit(m)'
      BY <1>2, <1>6, <3>1, OtherNodes
    <3>3. HistoryFits(m)'
      BY <1>2, <1>3, <1>14, <2>1, <3>1, HistoryAges
    <3> QED  BY <3>2, <3>3 DEF NodeInv
  <2>2. CacheFits(nodes[n].cache)'
    BY <1>7, <1>8
  <2>3. NodeInv(n)'
    BY <1>12, <1>13, <1>14, <2>2 DEF NodeInv
  <2> QED  BY <2>1, <2>3
<1> QED  BY <1>6, <1>9, <1>10, <1>14, <1>15 DEF SimInv
-----------------------------------------------------------------------------
(* The replay.                                                               *)

LEMMA SimInit == Init => SimInv
<1> SUFFICES ASSUME Init PROVE SimInv
  OBVIOUS
<1> DEFINE empty == [cache      |-> EmptyCache(config.policy),
                     queue      |-> <<>>,
                     active     |-> 0,
                     activePins |-> [b \in Block |-> 0],
                     waiterPins |-> {},
                     inflight   |-> [b \in Block |-> None]]
<1>1. /\ config \in Configs /\ clock = 0 /\ requests = <<>>
      /\ nodes = [n \in Nodes |-> empty] /\ events = {} /\ sequence = 0 /\ decisions = {}
      /\ observed = None /\ history = [n \in Nodes |-> {}]
      /\ residentThen = [n \in Nodes |-> {}]
  BY Zenon DEF Init
<1>2. PICK cache, node : cache = EmptyCache(config.policy) /\ node = empty
  OBVIOUS
<1>3. CacheFits(cache) /\ cache \in Cache /\ cache.resident = {}
  <2>1. config.policy \in Policy
    BY <1>1, SimulatorAssumption
  <2>2. cache = [policy |-> config.policy, resident |-> {}, order |-> <<>>,
                 protected |-> <<>>, ghost |-> <<>>]
    BY <1>2 DEF EmptyCache
  <2>3. cache \in Cache
    BY <2>1, <2>2 DEF Cache
  <2>4. /\ cache.resident = {} /\ cache.order = <<>> /\ cache.protected = <<>>
    BY <2>2
  <2>5. IsFiniteSet({}) /\ Cardinality({}) = 0 /\ 0 <= CacheBlocks
    BY FS_EmptySet, CacheAssumption
  <2>6. ListsFit(<<>>, <<>>, {})
    BY DEF ListsFit, Distinct, ToSet
  <2> QED  BY <2>3, <2>4, <2>5, <2>6 DEF CacheFits
<1>4. /\ node \in NodeState /\ node.cache = cache /\ node.queue = <<>> /\ node.active = 0
      /\ node.waiterPins = {} /\ \A b \in Block : node.activePins[b] = 0 /\ node.inflight[b] = None
  BY <1>2, <1>3 DEF NodeState
<1>5. nodes \in [Nodes -> NodeState] /\ \A n \in Nodes : nodes[n] = node
  <2>1. nodes = [n \in Nodes |-> node]
    BY <1>1, <1>2
  <2> QED  BY <1>4, <2>1
<1> HIDE DEF empty
<1>6. TypeOK /\ Len(requests) <= MaxRequests /\ history \in [Nodes -> SUBSET Interval]
  BY <1>1, <1>5, SimulatorAssumption DEF TypeOK
<1>7. EventsInv /\ ViewInv /\ OnePass
  <2>1. EventsInv
    BY <1>1, FS_EmptySet DEF EventsInv
  <2>2. ViewInv
    BY <1>1 DEF ViewInv, None
  <2>3. OnePass
    BY <1>1, <1>4, <1>5 DEF OnePass
  <2> QED  BY <2>1, <2>2, <2>3
<1>8. ASSUME NEW n \in Nodes PROVE NodeInv(n)
  <2>1. Starts(n) = {} /\ Running(n) = {} /\ nodes[n] = node
    BY <1>1, <1>5 DEF Starts, Running
  <2>2. QueueFits(n)
    BY <1>4, <2>1 DEF QueueFits, QueueHolds
  <2>3. SlotsFit(n)
    <3>1. ScheduledItems(node) = {}
      BY <1>4 DEF ScheduledItems
    <3>2. Cardinality({}) = 0
      BY FS_EmptySet
    <3>3. config.concurrency \in Nat \ {0}
      BY <1>1, SimulatorAssumption
    <3>4. ScheduledItems(node) = DOMAIN node.queue
      BY <1>4, <3>1
    <3> QED  BY <1>4, <2>1, <3>1, <3>2, <3>3, <3>4 DEF SlotsFit, SlotsHold
  <2>4. PinsFit(n)
    <3>1. \A b : {e \in Running(n) : b \in HitSet(e.req, e.hits)} = {}
      BY <2>1
    <3>2. Cardinality({}) = 0
      BY FS_EmptySet
    <3> QED  BY <1>4, <2>1, <3>1, <3>2 DEF PinsFit
  <2>5. HistoryFits(n)
    BY <1>1, <1>3, <1>4, <2>1 DEF HistoryFits, Resident
  <2> QED  BY <1>3, <1>4, <2>1, <2>2, <2>3, <2>4, <2>5 DEF NodeInv
<1> QED  BY <1>6, <1>7, <1>8 DEF SimInv

LEMMA SimStutters == SimInv /\ UNCHANGED vars => SimInv'
<1> SUFFICES ASSUME SimInv, UNCHANGED vars PROVE SimInv'
  OBVIOUS
<1>1. /\ config' = config /\ clock' = clock /\ requests' = requests /\ nodes' = nodes
      /\ events' = events /\ sequence' = sequence /\ decisions' = decisions
      /\ observed' = observed /\ history' = history /\ residentThen' = residentThen
  BY DEF vars
<1>2. RequestsKept /\ \A q, h : MissSet(q, h)' = MissSet(q, h)
  BY <1>1 DEF RequestsKept, MissSet, Prefix
<1>3. \A m : Starts(m)' = Starts(m) /\ Running(m)' = Running(m)
  BY <1>1 DEF Starts, Running
<1>4. ASSUME NEW m \in Nodes PROVE NodeInv(m)'
  <2>1. CacheFits(nodes[m].cache)' /\ QueueFits(m)' /\ SlotsFit(m)' /\ PinsFit(m)'
    BY <1>1, <1>2, <1>3, OtherNodes
  <2>2. HistoryFits(m)'
    <3>1. clock \in Nat
      BY DEF SimInv, TypeOK
    <3> QED  BY <1>1, <3>1, HistoryAges
  <2> QED  BY <2>1, <2>2 DEF NodeInv
<1>5. TypeOK'
  BY <1>1 DEF SimInv, TypeOK
<1>6. EventsInv'
  BY <1>1 DEF SimInv, EventsInv, Prefix
<1>7. ViewInv' /\ OnePass'
  BY <1>1, <1>2 DEF SimInv, ViewInv, OnePass
<1> QED  BY <1>1, <1>4, <1>5, <1>6, <1>7 DEF SimInv

LEMMA StartKeeps ==
    ASSUME SimInv, NEW e \in events, Start(e)
    PROVE  SimInv'
<1>1. /\ e.kind = "start" /\ Due(e) /\ clock' = e.time
      /\ UNCHANGED <<config, requests, observed, history, residentThen>>
      /\ Wait(e) \/ Run(e)
  BY Zenon DEF Start
<1>2. CASE Wait(e)
  BY <1>1, <1>2, WaitKeeps
<1>3. CASE Run(e)
  BY <1>1, <1>3, RunKeeps
<1> QED  BY <1>1, <1>2, <1>3

LEMMA SimStep == SimInv /\ [Next]_vars => SimInv'
<1> SUFFICES ASSUME SimInv, [Next]_vars PROVE SimInv'
  OBVIOUS
<1>1. ASSUME NEW time \in 0..MaxArrival, NEW prefix \in PrefixChains, NEW n \in Nodes,
             Arrive(time, prefix, n) \/ ReplayAtArrival(time, prefix, n)
      PROVE  SimInv'
  <2>1. time \in Nat
    BY SimulatorAssumption
  <2>2. CASE Arrive(time, prefix, n)
    BY <2>1, <2>2, ArriveKeeps
  <2>3. CASE ReplayAtArrival(time, prefix, n)
    BY <2>1, <2>3, ReplayAtArrivalKeeps
  <2> QED  BY <1>1, <2>2, <2>3
<1>2. ASSUME NEW e \in events, Start(e) \/ Finish(e) PROVE SimInv'
  BY <1>2, StartKeeps, FinishKeeps
<1>3. CASE UNCHANGED vars
  BY <1>3, SimStutters
<1> QED  BY Zenon, <1>1, <1>2, <1>3 DEF Next, PopEvent

\* What the event loop keeps: at most one event ahead of every request, queues
\* that agree with the starts ahead, pins and inflight entries that agree with
\* who waits and runs, policies that agree with their caches and histories
\* that agree with both (simulator.py, replay).
THEOREM SimInvariance == Spec => []SimInv
  BY SimInit, SimStep, PTL DEF Spec

LEMMA PinsFitRequests == SimInv => PinsMatchRequests
<1> SUFFICES ASSUME SimInv PROVE PinsMatchRequests
  OBVIOUS
<1>1. \A n \in Nodes : PinsFit(n)
  BY DEF SimInv, NodeInv
<1>2. RunningHitsResident
  BY <1>1 DEF PinsFit, RunningHitsResident, Resident
<1>3. NothingLeaks
  BY <1>1 DEF PinsFit, NothingLeaks
<1>4. NoDuplicateCompute
  BY <1>1 DEF PinsFit, NoDuplicateCompute
<1> QED  BY <1>2, <1>3, <1>4 DEF SimInv, PinsMatchRequests

\* The blocks a running request was counted to hit stay resident and pinned
\* once by it, no pin and no inflight entry outlives the request it stands
\* for, and with dedup a node never computes a block twice at the same time,
\* whatever arrives, waits and finishes around it.
THEOREM PinsAreHonest == Spec => []PinsMatchRequests
  BY PinsFitRequests, SimInvariance, PTL

LEMMA SlotsAreFilled == SimInv => SlotsFilledExactly
<1> SUFFICES ASSUME SimInv, NEW n \in Nodes
             PROVE  LET node == nodes[n]
                        busy == node.active + Cardinality(ScheduledItems(node))
                    IN  /\ node.active = Cardinality(Running(n))
                        /\ busy <= config.concurrency
                        /\ busy < config.concurrency => busy = node.active + Len(node.queue)
                        /\ \A i \in 1..Len(node.queue) :
                              Cardinality({e \in Starts(n) : e.req = node.queue[i].req})
                                 = (IF node.queue[i].scheduled THEN 1 ELSE 0)
  BY DEF SlotsFilledExactly
<1>1. PICK node, q, starts : node = nodes[n] /\ q = nodes[n].queue /\ starts = Starts(n)
  OBVIOUS
<1>2. /\ SlotsHold(node, Running(n)) /\ QueueHolds(q, starts, Running(n))
      /\ node.queue = q /\ q \in Seq(QueueItem)
  BY <1>1 DEF SimInv, NodeInv, SlotsFit, QueueFits, TypeOK, NodeState, QueueItem
<1>3. \A e, f \in starts : e.req = f.req => e = f
  BY <1>1 DEF SimInv, EventsInv, Starts
<1>4. DOMAIN q = 1..Len(q) /\ Len(q) \in Nat
  BY <1>2
<1>5. Cardinality(1..Len(q)) = Len(q)
  <2>1. ASSUME NEW len \in Nat PROVE Cardinality(1..len) = len
    BY FS_Interval
  <2> QED  BY <1>4, <2>1
<1>6. ASSUME NEW i \in 1..Len(q)
      PROVE  Cardinality({e \in starts : e.req = q[i].req})
                = (IF q[i].scheduled THEN 1 ELSE 0)
  <2>1. PICK own : own = {e \in starts : e.req = q[i].req}
    OBVIOUS
  <2>2. q[i].scheduled <=> own # {}
    <3>1. i \in DOMAIN q
      BY <1>4
    <3>2. q[i].scheduled <=> \E e \in starts : e.req = q[i].req
      BY <1>1, <1>2, <3>1 DEF QueueHolds
    <3> QED  BY <2>1, <3>2
  <2>3. CASE own = {}
    <3>1. Cardinality(own) = 0
      BY <2>3, FS_EmptySet
    <3> QED  BY <2>1, <2>2, <2>3, <3>1
  <2>4. CASE own # {}
    <3>1. PICK e : e \in own
      BY <2>4
    <3>2. own = {e}
      BY <1>3, <2>1, <3>1
    <3>3. Cardinality(own) = 1
      BY <3>2, FS_Singleton
    <3> QED  BY <2>1, <2>2, <2>4, <3>3
  <2> QED  BY <2>3, <2>4
<1>7. PICK busy : busy = node.active + Cardinality(ScheduledItems(node))
  OBVIOUS
<1>8. /\ node.active = Cardinality(Running(n)) /\ busy <= config.concurrency
      /\ busy < config.concurrency => ScheduledItems(node) = 1..Len(q)
  BY <1>2, <1>4, <1>7 DEF SlotsHold
<1>9. busy < config.concurrency => busy = node.active + Len(q)
  BY <1>5, <1>7, <1>8
<1> QED  BY <1>1, <1>2, <1>6, <1>7, <1>8, <1>9

\* A node never runs and promises more requests than it has slots, leaves none
\* idle while a request queues, and has one start ahead for every request it
\* promised a slot and none for the others, through every wait and finish.
THEOREM SlotsStayFilled == Spec => []SlotsFilledExactly
  BY SlotsAreFilled, SimInvariance, PTL

LEMMA DistinctSize ==
    ASSUME NEW S, NEW list, list \in Seq(S), Distinct(list)
    PROVE  IsFiniteSet(ToSet(list)) /\ Cardinality(ToSet(list)) = Len(list)
<1>1. DOMAIN list = 1..Len(list) /\ Len(list) \in Nat
  OBVIOUS
<1>2. PICK set, indices : set = ToSet(list) /\ indices = 1..Len(list)
  OBVIOUS
<1>3. set = {list[i] : i \in indices}
  BY <1>1, <1>2 DEF ToSet
<1>4. list \in [indices -> set]
  BY <1>1, <1>2, <1>3
<1>5. list \in Bijection(indices, set)
  <2>1. list \in Injection(indices, set)
    BY <1>1, <1>2, <1>4 DEF Injection, IsInjective, Distinct
  <2>2. list \in Surjection(indices, set)
    BY <1>3, <1>4 DEF Surjection
  <2> QED  BY <2>1, <2>2 DEF Bijection
<1>6. IsFiniteSet(indices) /\ Cardinality(indices) = Len(list)
  <2>1. IsFiniteSet(1..Len(list)) /\ (0 <= Len(list) => Cardinality(1..Len(list)) = Len(list))
    BY <1>1, FS_Interval, SMTT(30)
  <2> QED  BY <1>1, <1>2, <2>1
<1>7. IsFiniteSet(set) /\ Cardinality(set) = Cardinality(indices)
  BY <1>5, <1>6, FS_Bijection DEF ExistsBijection
<1> QED  BY <1>2, <1>6, <1>7

LEMMA PoliciesTrack == SimInv => PolicyTracksResidents
<1> SUFFICES ASSUME SimInv, NEW n \in Nodes
             PROVE  LET c == nodes[n].cache
                    IN  /\ Cardinality(c.resident) <= CacheBlocks
                        /\ ToSet(c.order \o c.protected) = c.resident
                        /\ Len(c.order \o c.protected) = Cardinality(c.resident)
  BY DEF PolicyTracksResidents
<1>1. PICK c, order, protected : /\ c = nodes[n].cache /\ order = c.order
                                 /\ protected = c.protected
  OBVIOUS
<1>2. CacheFits(c)
  BY <1>1 DEF SimInv, NodeInv
<1>3. /\ Cardinality(c.resident) <= CacheBlocks
      /\ order \in Seq(Block) /\ Distinct(order)
      /\ protected \in Seq(Block) /\ Distinct(protected)
      /\ ToSet(order) \cap ToSet(protected) = {}
      /\ ToSet(order) \cup ToSet(protected) = c.resident
  BY <1>1, <1>2 DEF CacheFits, ListsFit
<1>4. /\ IsFiniteSet(ToSet(order)) /\ Cardinality(ToSet(order)) = Len(order)
      /\ IsFiniteSet(ToSet(protected)) /\ Cardinality(ToSet(protected)) = Len(protected)
  BY <1>3, DistinctSize
<1>5. Cardinality(c.resident) = Len(order) + Len(protected)
  <2>1. Cardinality(ToSet(order) \cap ToSet(protected)) = 0
    BY <1>3, FS_EmptySet
  <2>2. Cardinality(ToSet(order) \cup ToSet(protected)) = Cardinality(ToSet(order))
           + Cardinality(ToSet(protected)) - Cardinality(ToSet(order) \cap ToSet(protected))
    BY <1>4, FS_Union
  <2>3. PICK a, b : a = Len(order) /\ b = Len(protected)
    OBVIOUS
  <2>4. a \in Nat /\ b \in Nat
    BY <1>3, <2>3
  <2>5. Cardinality(ToSet(order) \cup ToSet(protected)) = a + b - 0
    BY <1>4, <2>1, <2>2, <2>3
  <2>6. a + b - 0 = a + b
    BY <2>4
  <2> QED  BY <1>3, <2>3, <2>5, <2>6
<1>6. PICK both : both = order \o protected
  OBVIOUS
<1>7. /\ both \in Seq(Block) /\ Len(both) = Len(order) + Len(protected)
      /\ \A i \in 1..(Len(order) + Len(protected)) :
            both[i] = IF i <= Len(order) THEN order[i] ELSE protected[i - Len(order)]
  BY <1>3, <1>6, ConcatProperties
<1>8. ToSet(both) = c.resident
  <2>1. Len(order) \in Nat /\ Len(protected) \in Nat /\ DOMAIN both = 1..(Len(order) + Len(protected))
        /\ DOMAIN order = 1..Len(order) /\ DOMAIN protected = 1..Len(protected)
    BY <1>3, <1>7
  <2>2. ASSUME NEW i \in DOMAIN both PROVE both[i] \in ToSet(order) \cup ToSet(protected)
    <3>1. CASE i <= Len(order)
      BY <1>7, <2>1, <3>1 DEF ToSet
    <3>2. CASE ~(i <= Len(order))
      <4>1. i - Len(order) \in DOMAIN protected /\ both[i] = protected[i - Len(order)]
        BY <1>7, <2>1, <3>2
      <4> QED  BY <4>1 DEF ToSet
    <3> QED  BY <3>1, <3>2
  <2>3. ASSUME NEW i \in DOMAIN order PROVE order[i] \in ToSet(both)
    <3>1. i \in DOMAIN both /\ both[i] = order[i]
      BY <1>7, <2>1
    <3> QED  BY <3>1 DEF ToSet
  <2>4. ASSUME NEW i \in DOMAIN protected PROVE protected[i] \in ToSet(both)
    <3>1. /\ Len(order) + i \in DOMAIN both /\ ~(Len(order) + i <= Len(order))
          /\ (Len(order) + i) - Len(order) = i
      BY <2>1
    <3>2. both[Len(order) + i] = protected[i]
      BY <1>7, <2>1, <3>1
    <3> QED  BY <3>1, <3>2 DEF ToSet
  <2>5. ToSet(both) \subseteq ToSet(order) \cup ToSet(protected)
    BY <2>2 DEF ToSet
  <2>6. ToSet(order) \subseteq ToSet(both) /\ ToSet(protected) \subseteq ToSet(both)
    BY <2>3, <2>4 DEF ToSet
  <2>7. ToSet(both) = ToSet(order) \cup ToSet(protected)
    BY <2>5, <2>6
  <2> QED  BY <1>3, <2>7
<1> QED  BY <1>1, <1>3, <1>5, <1>6, <1>7, <1>8

\* No cache exceeds its capacity, and under FIFO, LRU, SLRU and second-hit
\* admission the policy's lists hold every resident block once and nothing
\* else, after any run of lookups, placements and pinned evictions.
THEOREM PoliciesTrackResidents == Spec => []PolicyTracksResidents
  BY PoliciesTrack, SimInvariance, PTL

LEMMA ViewsReadThePast == SimInv => DelayedViewReadsThePast
<1> SUFFICES ASSUME SimInv, observed # None, NEW n \in Nodes, NEW prefix \in PrefixChains
             PROVE  HitsInHistory(n, prefix, observed) = HitBlocks(residentThen[n], prefix)
  BY DEF DelayedViewReadsThePast
<1>1. residentThen[n] = {x.block : x \in {y \in history[n] : Covers(y, observed)}}
  BY DEF SimInv, NodeInv, HistoryFits
<1>2. {x.block : x \in {y \in history[n] : Covers(y, observed)}}
         = {h.block : h \in {x \in history[n] : /\ x.from <= observed
                                                /\ x.to = None \/ observed < x.to}}
  BY DEF Covers
<1> QED  BY <1>1, <1>2 DEF HitsInHistory

\* What a delayed view reads off the residency history is what each cache held
\* when the view was taken, whatever was placed and evicted since, at the very
\* time of the view included (_close_interval and preview_at).
THEOREM DelayedViewsReadThePast == Spec => []DelayedViewReadsThePast
  BY ViewsReadThePast, SimInvariance, PTL
=============================================================================
