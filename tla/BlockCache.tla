----------------------------- MODULE BlockCache -----------------------------
(***************************************************************************)
(* One node's block cache (cache.py) with its eviction policy              *)
(* (eviction.py), as operators on a cache record.  The record keeps what   *)
(* the two objects keep apart: the resident set of the cache, and the      *)
(* policy's own recency order, protected segment and ghost list.  A        *)
(* capacity names capacity_blocks of the cache (blocks) and the bounds of  *)
(* the policy's segment and ghost list (protected, ghost).                 *)
(***************************************************************************)
EXTENDS Integers, SequencesExt

Policy == {"FIFO", "LRU", "SLRU", "SECOND_HIT"}

\* order is the only segment of FIFO and LRU and the probation of SLRU.
EmptyCache(policy) == [policy |-> policy, resident |-> {}, order |-> <<>>,
                       protected |-> <<>>, ghost |-> <<>>]

\* popitem(last=False) once the list is longer than its capacity.
Trimmed(list, capacity) == IF Len(list) > capacity THEN Tail(list) ELSE list

\* pop or remove of a key: a list holds it once.
Without(list, block) ==
    IF Contains(list, block)
    THEN RemoveAt(list, CHOOSE i \in DOMAIN list : list[i] = block)
    ELSE list

-----------------------------------------------------------------------------
\* The policy.

MovedToEnd(list, block) == Append(Without(list, block), block)

\* on_lookup.  A probationary SLRU block is promoted, and the oldest protected
\* block falls back to probation when the segment overflows.
Touched(c, block, capacity) ==
    CASE c.policy = "FIFO" -> c
      [] c.policy \in {"LRU", "SECOND_HIT"} /\ Contains(c.order, block) ->
            [c EXCEPT !.order = MovedToEnd(@, block)]
      [] c.policy = "SLRU" /\ Contains(c.protected, block) ->
            [c EXCEPT !.protected = MovedToEnd(@, block)]
      [] c.policy = "SLRU" /\ Contains(c.order, block) ->
            LET promoted == Append(c.protected, block)
                kept     == Trimmed(promoted, capacity.protected)
                demoted  == SubSeq(promoted, 1, Len(promoted) - Len(kept))
            IN  [c EXCEPT !.protected = kept,
                          !.order = Without(@, block) \o demoted]
      [] OTHER -> c

\* admit: only SECOND_HIT asks for a second reference.
Admits(c, block) == c.policy = "SECOND_HIT" => Contains(c.ghost, block)

\* What admit leaves behind, whatever it answers.
Consulted(c, block, capacity) ==
    IF c.policy # "SECOND_HIT" THEN c
    ELSE [c EXCEPT !.ghost = IF Contains(@, block) THEN Without(@, block)
                             ELSE Trimmed(Append(@, block), capacity.ghost)]

\* victims for one block: the first that may go, probation first.
Victims(c, pinned) ==
    LET list     == c.order \o c.protected
        eligible == {i \in DOMAIN list : list[i] \in c.resident \ pinned}
    IN  {list[i] : i \in {j \in eligible : \A k \in eligible : j <= k}}

-----------------------------------------------------------------------------
\* The cache.

\* Variant: the protected segment keeps the block.
EvictedFromOrder(c, block) ==
    [c EXCEPT !.resident = @ \ {block}, !.order = Without(@, block)]

Evicted(c, block) ==
    [c EXCEPT !.resident = @ \ {block}, !.order = Without(@, block),
              !.protected = Without(@, block)]

Inserted(c, block) ==
    [c EXCEPT !.resident = @ \cup {block}, !.order = Append(@, block)]

\* The blocks of the longest resident prefix.
HitBlocks(resident, prefix) ==
    LET misses == {i \in 1..Len(prefix) : prefix[i] \notin resident}
    IN  IF misses = {} THEN Len(prefix) ELSE Min(misses) - 1

\* lookup refreshes the policy for every block it hits.
LookedUp(c, prefix, capacity) ==
    LET hits == HitBlocks(c.resident, prefix)
        touched[i \in 0..hits] ==
            IF i = 0 THEN c ELSE Touched(touched[i - 1], prefix[i], capacity)
    IN  touched[hits]

\* One step of place: st is the cache and the blocks this request inserted.
PlaceBlock(st, block, pinned, capacity) ==
    LET asked  == Consulted(st.cache, block, capacity)
        full   == Cardinality(st.cache.resident) + 1 > capacity.blocks
        victim == Victims(st.cache, pinned \cup st.inserted)
    IN  IF block \in st.cache.resident
        THEN [st EXCEPT !.cache = Touched(@, block, capacity)]
        ELSE IF ~Admits(st.cache, block) \/ (full /\ victim = {})
        THEN [st EXCEPT !.cache = asked]
        ELSE [cache    |-> Inserted(
                               IF full THEN Evicted(asked, CHOOSE v \in victim : TRUE)
                               ELSE asked, block),
              inserted |-> st.inserted \cup {block}]

Placed(c, prefix, pinned, capacity) ==
    LET placed[i \in 0..Len(prefix)] ==
            IF i = 0 THEN [cache |-> c, inserted |-> {}]
            ELSE PlaceBlock(placed[i - 1], prefix[i], pinned, capacity)
    IN  placed[Len(prefix)].cache
=============================================================================
