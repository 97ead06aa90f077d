----------------------------- MODULE Lifecycle -----------------------------
(* The request lifecycle study: simulate_lifecycle (lifecycle.py) books     *)
(* each request, in trace order, on one prefill and one decode node under   *)
(* one of five protocols, against the deadlines of slo.py.                  *)
EXTENDS Integers, Sequences, FiniteSetsExt

CONSTANTS
    Protocols,                     \* the protocols of the study
    LifePrefill, LifeDecode,       \* number of prefill and of decode nodes
    LifeRequests,                  \* bound: requests of a trace
    LifeArrival, LifeInput, LifeOutput,   \* arrivals and lengths, in tokens
    PrefillCost, DecodeCost,       \* per token
    MaxWait,                       \* max_post_prefill_wait
    ProbeCost, Staleness,          \* probe_cost, probe_staleness_work
    PutWork, PullWork              \* store_put_work, store_pull_work

\* The multipliers of the tiers are halves, so deadlines need even costs.  The
\* configuration checks the pools and the costs; lengths and times are not negative.
ASSUME LifecycleAssumption ==
    /\ LifePrefill \in Nat \ {0} /\ LifeDecode \in Nat \ {0}
    /\ PrefillCost \in Nat \ {0} /\ DecodeCost \in Nat \ {0}
    /\ PrefillCost % 2 = 0 /\ DecodeCost % 2 = 0
    /\ LifeArrival \subseteq Int /\ LifeInput \subseteq Nat /\ LifeOutput \subseteq Nat
    /\ MaxWait \in Int /\ Staleness \in Int
    /\ ProbeCost \in Nat /\ PutWork \in Nat /\ PullWork \in Nat

VARIABLES
    protocol,    \* LifecycleConfig.protocol
    pbusy,       \* p_available
    dbusy,       \* d_available
    records      \* the LifecycleRecords

lifeVars == <<protocol, pbusy, dbusy, records>>

Tier == {"STRICT", "STANDARD", "RELAXED"}

\* Twice the deadline multiplier of TieredSloOverlay, and twice the weight of
\* LifecycleConfig.tier_weights.
Multiplier == [STRICT |-> 3, STANDARD |-> 5, RELAXED |-> 8]
Weight     == [STRICT |-> 4, STANDARD |-> 2, RELAXED |-> 1]

LifeInit ==
    /\ protocol \in Protocols
    /\ pbusy = [p \in 1..LifePrefill |-> 0]
    /\ dbusy = [d \in 1..LifeDecode |-> 0]
    /\ records = <<>>

Gated == protocol \in {"P2_GATED_PD", "P3_GATED_DP"}
DecodeFirst == protocol \in {"P1_DP", "P3_GATED_DP"}

\* The profile: time to first token, and completion, both after the arrival.
TtftDeadline(q) == (q.input * PrefillCost * Multiplier[q.tier]) \div 2
Deadline(q) ==
    TtftDeadline(q) + (q.output * DecodeCost * Multiplier[q.tier]) \div 2

Earliest(busy) ==
    CHOOSE i \in DOMAIN busy : \A k \in DOMAIN busy \ {i} :
        busy[i] < busy[k] \/ (busy[i] = busy[k] /\ i < k)

\* Variant: GATED_PD trusts a stale probe as well.
RefusedOnStaleProbe(q, p, d) ==
    LET prefill == q.input * PrefillCost
        seen    == Max({q.arrival, dbusy[d] - Staleness})
        ready   == Max({q.arrival, pbusy[p]}) + ProbeCost + prefill
        finish  == Max({ready, seen}) + q.output * DecodeCost
        shares  == (finish - q.arrival) + prefill + Max({0, seen - ready})
    IN  Gated /\ 2 * shares > Weight[q.tier] * Deadline(q)

\* The gate: what the probe makes of the finish, the prefill and the stall, as
\* shares of the deadline, against the weight of the tier.  The probe of
\* GATED_DP sees the decode node as it was some time ago.
Refused(q, p, d) ==
    LET prefill == q.input * PrefillCost
        seen    == IF protocol = "P3_GATED_DP"
                   THEN Max({q.arrival, dbusy[d] - Staleness}) ELSE dbusy[d]
        ready   == Max({q.arrival, pbusy[p]}) + ProbeCost + prefill
        finish  == Max({ready, seen}) + q.output * DecodeCost
        shares  == (finish - q.arrival) + prefill + Max({0, seen - ready})
    IN  Gated /\ 2 * shares > Weight[q.tier] * Deadline(q)

\* _timeline.
Timeline(q, pfree, dfree) ==
    LET prefill == q.input * PrefillCost
        probe   == IF Gated THEN ProbeCost ELSE 0
        put     == IF protocol = "P4_KVS_DECOUPLED" THEN PutWork ELSE 0
        pull    == IF protocol = "P4_KVS_DECOUPLED" THEN PullWork ELSE 0
        pstart  == IF DecodeFirst THEN Max({q.arrival, pfree, dfree}) + probe
                   ELSE Max({q.arrival, pfree}) + probe
        pfinish == pstart + prefill + put
        dstart  == IF DecodeFirst THEN pfinish ELSE Max({pfinish, dfree})
    IN  [pstart |-> pstart, pfinish |-> pfinish, dstart |-> dstart,
         hold   |-> IF DecodeFirst THEN prefill ELSE dstart - pfinish,
         finish |-> dstart + pull + q.output * DecodeCost]

\* A record: what the request asked, how it ended, and what it used.
Record(q, outcome, t, p, d, emitted, until) ==
    [request |-> q, outcome |-> outcome, timeline |-> t, prefill |-> p, decode |-> d,
     emitted |-> emitted, until |-> until]

NoTimeline == [pstart |-> 0, pfinish |-> 0, dstart |-> 0, hold |-> 0, finish |-> 0]

\* The request is turned down before its prefill.
Reject(q, p, d) ==
    /\ Refused(q, p, d)
    /\ records' = Append(records, Record(q, "rejected", NoTimeline, p, d, 0, 0))
    /\ UNCHANGED <<pbusy, dbusy>>

\* GATED_DP finds after the prefill that the deadline is lost: the decode node
\* was held until then.
Rollback(q, p, d, t) ==
    /\ protocol = "P3_GATED_DP" /\ t.finish > q.arrival + Deadline(q)
    /\ pbusy' = [pbusy EXCEPT ![p] = t.pfinish]
    /\ dbusy' = [dbusy EXCEPT ![d] = t.pfinish]
    /\ records' = Append(records, Record(q, "rolled_back", t, p, d, 0, t.pfinish))

\* The prefill protocols give up a request that waits too long for decode.
GiveUp(q, p, d, t) ==
    /\ ~DecodeFirst /\ t.dstart - t.pfinish > MaxWait
    /\ pbusy' = [pbusy EXCEPT ![p] = t.pfinish]
    /\ records' = Append(records, Record(q, "failed", t, p, d, 0, 0))
    /\ UNCHANGED dbusy

\* strict_slo_met also asks for the first token in time.
Outcome(q, t) ==
    IF q.arrival + Deadline(q) < t.finish THEN "cut"
    ELSE IF t.dstart - q.arrival <= TtftDeadline(q) THEN "strict" ELSE "lenient"

\* The tokens a request gets, fewer when its deadline cuts it off.
Emitted(q, t) ==
    IF q.arrival + Deadline(q) < t.finish
    THEN Min({q.output,
              Max({0, (q.arrival + Deadline(q) - t.dstart) \div DecodeCost})})
    ELSE q.output

\* The request decodes, to its end or to its deadline.
Complete(q, p, d, t) ==
    /\ ~(protocol = "P3_GATED_DP" /\ t.finish > q.arrival + Deadline(q))
    /\ ~(~DecodeFirst /\ t.dstart - t.pfinish > MaxWait)
    /\ LET deadline == q.arrival + Deadline(q)
           until    == IF deadline < t.finish THEN Max({t.dstart, deadline})
                       ELSE t.finish
       IN  /\ pbusy' = [pbusy EXCEPT ![p] = t.pfinish]
           /\ dbusy' = [dbusy EXCEPT ![d] = until]
           /\ records' = Append(records,
                  Record(q, Outcome(q, t), t, p, d, Emitted(q, t), until))

Handle(q) ==
    \E p \in {Earliest(pbusy)}, d \in {Earliest(dbusy)} :
        \/ Reject(q, p, d)
        \/ /\ ~Refused(q, p, d)
           /\ \E t \in {Timeline(q, pbusy[p], dbusy[d])} :
                  Rollback(q, p, d, t) \/ GiveUp(q, p, d, t) \/ Complete(q, p, d, t)

LifeNext ==
    /\ Len(records) < LifeRequests
    /\ \E arrival \in LifeArrival, input \in LifeInput, output \in LifeOutput, tier \in Tier :
          /\ records # <<>> => arrival >= records[Len(records)].request.arrival
          /\ Handle([arrival |-> arrival, input |-> input, output |-> output, tier |-> tier])
    /\ UNCHANGED protocol

-----------------------------------------------------------------------------
\* A node works for one request at a time, whatever becomes of the requests: its
\* prefills do not overlap, and a decode node is held by one request from its
\* reservation (the prefill protocols: from its first token) until it is
\* released, also when the request is rolled back or cut off
\* (lifecycle.py 168-230 and 273-310).
NodesServeOneAtATime ==
    LET held(i) == IF DecodeFirst THEN records[i].timeline.pstart
                   ELSE records[i].timeline.dstart
        works == {i \in DOMAIN records : records[i].outcome # "rejected"}
    IN  \A j \in works : \A i \in works \cap 1..(j - 1) :
            /\ records[i].prefill = records[j].prefill =>
                   records[i].timeline.pfinish <= records[j].timeline.pstart
            /\ /\ records[i].decode = records[j].decode
               /\ records[i].outcome # "failed" /\ records[j].outcome # "failed"
               => records[i].until <= held(j)

\* GATED_PD keeps what its gate promises to the tiers whose weight is at most
\* one: a request it lets in is decoded in time, or given up because decode was
\* too far away, and never cut off (lifecycle.py 130-166 and 193-230).
GateKeepsItsPromise ==
    protocol = "P2_GATED_PD" =>
        \A i \in DOMAIN records :
            records[i].request.tier # "STRICT" => records[i].outcome # "cut"

\* What a request is credited with fits in the time its decode node gave it, and
\* that time ends by its deadline.  KVS_DECOUPLED is left out: there the tokens
\* of a request that is cut off are counted from the start of the pull
\* (lifecycle.py 215-230).
TokensFitTheNode ==
    protocol # "P4_KVS_DECOUPLED" =>
        \A i \in DOMAIN records :
            LET s == records[i]
            IN  s.emitted > 0 =>
                    /\ s.timeline.dstart + s.emitted * DecodeCost <= s.until
                    /\ s.until <= s.request.arrival + Deadline(s.request)

\* A booking, a gate and a credit are what the nodes can give.
BookingsAreHonest == NodesServeOneAtATime /\ GateKeepsItsPromise /\ TokensFitTheNode
=============================================================================
