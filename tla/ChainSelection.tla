--------------------------- MODULE ChainSelection ---------------------------
(***************************************************************************)
(* The pure half of the selector protocol (chain/protocol.py): capability  *)
(* negotiation, the two host rankings and the fail-open decision.  The     *)
(* owner's map is a view: its epoch, whether it is older than the allowed  *)
(* age, its candidates in map order and the cached tokens of each.         *)
(***************************************************************************)
EXTENDS Naturals, Sequences, FiniteSets

\* The two capabilities whose absence changes what the chain does; the other
\* two (DECODE_LEASE_V1, R2_CHECKPOINT_STORE) are only reported.
Capability == {"PREFIX_CACHE_QUERY", "COOPERATIVE_PREEMPT"}

\* The result of negotiate(); done is FALSE while no handshake has happened.
Handshake == [done: BOOLEAN, accepted: BOOLEAN,
              degraded: SUBSET Capability, reported: SUBSET Capability]

NoHandshake == [done |-> FALSE, accepted |-> FALSE,
                degraded |-> {}, reported |-> {}]

\* reported keeps the instance's side of the exchange for the properties;
\* the code derives everything from accepted and degraded.
Negotiate(owner, instance, sameVersion) ==
    [done     |-> TRUE,
     accepted |-> sameVersion,
     degraded |-> IF sameVersion THEN owner \ instance ELSE owner,
     reported |-> instance]

D2Available(h) == h.done /\ h.accepted /\ "COOPERATIVE_PREEMPT" \notin h.degraded

CacheScoresNegotiated(h) ==
    h.done /\ h.accepted /\ "PREFIX_CACHE_QUERY" \notin h.degraded

-----------------------------------------------------------------------------

Allowed(view, excluded) ==
    {i \in 1..Len(view.map.candidates) : view.map.candidates[i] \notin excluded}

\* The positions of the baseline choice: the first candidate in map order
\* that is not excluded.
Baseline(view, excluded) ==
    {i \in Allowed(view, excluded) : \A j \in Allowed(view, excluded) : i <= j}

\* The positions of the cache-aware choice: the most reusable prefix, ties
\* broken by map order.
CacheAware(view, excluded) ==
    LET Hits(i) == view.map.hits[view.map.candidates[i]]
    IN  {i \in Allowed(view, excluded) :
            \A j \in Allowed(view, excluded) :
                \/ Hits(i) > Hits(j)
                \/ Hits(i) = Hits(j) /\ i <= j}

\* Variant: only the age of the map is looked at.
FailsOpenByAge(view, lastViewEpoch, handshake, timeout, error) ==
    timeout \/ error \/ view.aged \/ (handshake.done /\ ~handshake.accepted)

\* There is a reason not to apply the selector's score: it timed out, threw,
\* scored a map that is too old or whose epoch went back, or the handshake
\* was refused.  Which one only decides the counter and the score published.
FailsOpen(view, lastViewEpoch, handshake, timeout, error) ==
    \/ timeout
    \/ error
    \/ view.aged
    \/ view.epoch < lastViewEpoch
    \/ handshake.done /\ ~handshake.accepted
=============================================================================
