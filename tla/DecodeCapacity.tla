--------------------------- MODULE DecodeCapacity ---------------------------
(***************************************************************************)
(* DecodeCapacityPolicy of m12_decode.py on the kernel: decode credits are *)
(* reserved against a prediction, attempts are deferred or gated while     *)
(* they are taken, and a leased decode may be aborted and retried.  Each   *)
(* action is the kernel's, with what the policy's hooks answer and change. *)
(***************************************************************************)
EXTENDS CausalKernel, DecodeLedger

CONSTANTS
    Gates,              \* NO_GATE, or the congestion action of a gated mode
    Predictions,        \* what an oracle, noisy or causal prediction may be
    Abortable           \* requests with an abort fence that allows an abort

ASSUME PolicyAssumption ==
    /\ Gates \subseteq {"NO_GATE", "DEFER", "GATED_PD", "GATED_DP"}
    /\ Predictions \subseteq Nat \ {0}
    /\ Abortable \subseteq Nat

VARIABLES
    gate,               \* config.mode and config.congestion_action
    ledger,
    credits,            \* _credits: what each attempt was predicted to take
    fences,             \* _decode_fences
    aborted,            \* _aborted
    raised              \* history variable: the ledger raised

policyVars == <<gate, ledger, credits, fences, aborted, raised>>
vars == <<kernelVars, policyVars>>

PolicyInit ==
    /\ Init
    /\ gate \in Gates
    /\ ledger = EmptyLedger
    /\ credits = <<>>
    /\ fences = <<>>
    /\ aborted = {}
    /\ raised = FALSE

-----------------------------------------------------------------------------
\* Helpers.

NoGate == gate = "NO_GATE"

With(f, a, value) == [b \in DOMAIN f \cup {a} |-> IF b = a THEN value ELSE f[b]]

\* Some node holds more of the prefix than p does.
MoreElsewhere(a, p) ==
    \E n \in PNodes : Cardinality(Leading(PrefixOf(a), cache[p]))
                        < Cardinality(Leading(PrefixOf(a), cache[n]))

\* M12PlacementPolicy plans for the decode node that is free first, and may
\* claim the prefix of a node that holds more of it.
Placements(a) ==
    LET earliest == Min({dAvailable[d] : d \in DNodes})
    IN  {plan \in
           {[p |-> p, d |-> d, delay |-> 0, claims |-> claims, fails |-> FALSE,
             missing |-> 0, reusable |-> TRUE, fence |-> 0] :
            p \in PNodes, d \in DNodes, claims \in {{}, ToSet(PrefixOf(a))}} :
         /\ dAvailable[plan.d] = earliest
         /\ plan.claims # {} => MoreElsewhere(a, plan.p)}

\* _predict.
Predicted == IF NoGate THEN {0} ELSE Predictions

\* GATED_DP reserves as it plans; the others only ask when they could.
ReservedAhead(l, a, amount) == IF gate = "GATED_DP" THEN Reserve(l, a, amount, now') ELSE l

ReservationStart(ahead, a, amount) ==
    CASE NoGate -> now'
      [] gate = "GATED_DP" -> StartsAt(ahead, a)
      [] OTHER -> AvailableAt(ahead, amount, now', <<>>)

\* reserve raises.
RaisedAhead(l, a) == raised \/ (gate = "GATED_DP" /\ ~MayReserve(l, a))

-----------------------------------------------------------------------------
\* The kernel's steps with the policy's hooks.

\* plan_attempts.
PlanAttempt(e) ==
    \E plan \in Placements(e.attempt), predicted \in Predicted :
    \E ahead \in {ReservedAhead(ledger, e.attempt, predicted)} :
    \E start \in {ReservationStart(ahead, e.attempt, predicted)} :
        LET a         == e.attempt
            free      == dAvailable[plan.d]
            congested == ~NoGate /\ (start > now' \/ free > now')
            until     == Max({now', free, start})
            deferred  == congested /\ gate \in {"DEFER", "GATED_DP"}
        IN  /\ Arrival(e, <<[plan EXCEPT !.delay = IF deferred THEN until - now' ELSE 0]>>)
            /\ credits' = With(credits, a, predicted)
            /\ ledger' = ahead
            /\ raised' = RaisedAhead(ledger, a)
            /\ fences' = IF congested /\ gate = "GATED_PD" THEN With(fences, a, start) ELSE fences
            /\ UNCHANGED <<gate, aborted>>

\* decode_not_before, before it reserves.
Fence(a) ==
    Max({now', IF a \in DOMAIN fences THEN fences[a] ELSE now',
         IF NoGate THEN now' ELSE AvailableAt(ledger, credits[a], now', a)})

\* GATED_PD reserves as the decode is first looked at, and again whenever the
\* reservation was lost.
ReservesNow(a) == gate = "GATED_PD" /\ ~Holds(ledger.active, a)

Reread(a) == IF ReservesNow(a) THEN Reserve(ledger, a, credits[a], now') ELSE ledger

DecodeNotBefore(a, reread) ==
    IF ReservesNow(a) THEN Max({Fence(a), StartsAt(reread, a)}) ELSE Fence(a)

\* decode_lease_tokens.
LeaseOf(a) == IF a[2] = 0 /\ LeaseTokens < attempts[a].emitted THEN LeaseTokens ELSE None

\* PREFILL_FINISH and DECODE_START: decode_not_before, and decode_started if
\* the kernel starts the decode.
LookAtDecode(e) ==
    \E reread \in {Reread(e.attempt)} :
    \E fence \in {DecodeNotBefore(e.attempt, reread)} :
    LET a       == e.attempt
        starts  == Admissible(a, fence)
        finish  == now' + attempts[a].emitted
    IN  /\ PrefillFinish(e, fence, LeaseOf(a)) \/ DecodeStart(e, fence, LeaseOf(a))
        /\ ledger' = IF starts /\ ~NoGate THEN Activate(reread, a, credits[a], now', finish)
                     ELSE reread
        /\ raised' = (raised \/ (ReservesNow(a) /\ ~MayReserve(ledger, a))
                             \/ (starts /\ ~NoGate
                                   /\ ~MayActivate(reread, a, credits[a], now', finish)))
        /\ UNCHANGED <<gate, credits, fences, aborted>>

Aborts(a) ==
    /\ a[2] = 0
    /\ a[1] \notin aborted
    /\ a[1] \in Abortable
    /\ RetryBudget - a[2] > 0

\* reprice_decode: one abort per request, while a retry is left.
Reprice(e) ==
    LET a == e.attempt
    IN  /\ LeaseBoundary(e, Aborts(a))
        /\ aborted' = IF Aborts(a) THEN aborted \cup {a[1]} ELSE aborted
        /\ UNCHANGED <<gate, ledger, credits, fences, raised>>

\* Variant: only failures are tried again.
RetriedIfFailed(a) == attempts[a].terminal = "FAILED"

Retried(a) == attempts[a].terminal = "ABORTED"

\* attempt_finished, cache_mutation and next_attempt: the attempt is settled,
\* then an aborted one is planned anew, to run to its end.
Finished(e) ==
    LET a       == e.attempt
        again   == <<a[1], a[2] + 1>>
        settled == IF NoGate THEN ledger ELSE Settle(ledger, a)
        fails   == raised \/ (~NoGate /\ ~MaySettle(ledger, a))
    IN  /\ \/ /\ ~Retried(a)
              /\ Completion(e, TRUE, {}, <<>>)
              /\ ledger' = settled
              /\ raised' = fails
              /\ UNCHANGED credits
           \/ /\ Retried(a)
              /\ \E predicted \in Predicted :
                 \E ahead \in {ReservedAhead(settled, again, predicted)} :
                    LET start == ReservationStart(ahead, again, predicted)
                        delay == IF gate \in {"DEFER", "GATED_DP"} THEN start - now' ELSE 0
                    IN  /\ Completion(e, TRUE, {}, <<[attempts[a].plan EXCEPT !.delay = delay]>>)
                        /\ ledger' = ahead
                        /\ raised' = (fails \/ RaisedAhead(settled, again))
                        /\ credits' = With(credits, again, predicted)
        /\ UNCHANGED <<gate, fences, aborted>>

PolicyStep(e) ==
    /\ Pops(e, e.kind)
    /\ \/ e.kind = "ARRIVAL" /\ PlanAttempt(e)
       \/ (AttemptReady(e) \/ PrefillStart(e) \/ StaleDecodeStart(e)) /\ UNCHANGED policyVars
       \/ e.kind \in {"PREFILL_FINISH", "DECODE_START"} /\ LookAtDecode(e)
       \/ e.kind = "LEASE_BOUNDARY" /\ Reprice(e)
       \/ e.kind = "COMPLETION" /\ Finished(e)

PolicyNext == \E e \in queue : PolicyStep(e)

PolicySpec == PolicyInit /\ [][PolicyNext]_vars /\ WF_vars(PolicyNext)

-----------------------------------------------------------------------------
\* Properties.

Running == {a \in DOMAIN attempts : Started(a) /\ a \notin done}

\* Every variable of the policy stays in the set of values the code gives it.
PolicyTypeOK ==
    /\ KernelTypeOK
    /\ gate \in Gates
    /\ Temporal(ledger) \subseteq
          [attempt: AttemptKey, credits: 1..Capacity, starts: Nat, releases: Nat]
    /\ DOMAIN ledger.reserved \subseteq DOMAIN attempts
    /\ {x.attempt : x \in ledger.active} \subseteq DOMAIN ledger.reserved
    /\ DOMAIN credits = DOMAIN attempts
    /\ \A a \in DOMAIN credits : credits[a] \in Predictions \cup {0}
    /\ DOMAIN fences \subseteq DOMAIN attempts
    /\ aborted \subseteq Abortable

\* At no moment do reservations and running decodes together hold more than
\* the capacity, however long a decode ran past what was predicted of it
\* (test_reservation_checks_future_starts_across_its_entire_interval).
CreditsWithinCapacity ==
    \A x \in Temporal(ledger) : Held(Temporal(ledger), x.starts) <= Capacity

\* The fence the kernel is given is one at which the ledger lets the decode
\* start: reserve, activate and settle never raise in a run.
LedgerNeverRaises == ~raised

\* The ledger runs exactly what the kernel decodes, and owes what was predicted
\* of every attempt that has been promised credits until it is settled: no debt
\* outlives its attempt, and none is lost when its reservation is ("Keep its
\* full debt in _reserved_totals", m12_decode.py:366).
LedgerMatchesKernel ==
    /\ PolicyTypeOK /\ LedgerNeverRaises
    /\ ~NoGate =>
          LET promised == CASE gate = "DEFER" -> Running
                            [] gate = "GATED_DP" -> DOMAIN attempts \ done
                            [] gate = "GATED_PD" -> Running \cup
                                  {a \in DOMAIN attempts \ done :
                                      \E e \in EventsOf(a) : e.kind = "DECODE_START"}
          IN  /\ {x.attempt : x \in ledger.executing} = Running
              /\ \A x \in ledger.executing : x.starts = attempts[x.attempt].decodeStart
              /\ DOMAIN ledger.reserved = promised
              /\ \A a \in promised : ledger.reserved[a] = credits[a]

\* An abort never loses its request: the request has an attempt under way or
\* one that completed, and is aborted at most once.
AbortsAreRetried ==
    \A a \in done :
        \/ attempts[a].terminal = "COMPLETED"
        \/ /\ <<a[1], a[2] + 1>> \in DOMAIN attempts
           /\ attempts[<<a[1], a[2] + 1>>].terminal = "COMPLETED"

\* Gated attempts do not wait for one another for ever: in a window that is
\* long enough every attempt completes and no credit stays reserved
\* (test_all_congestion_actions_gate_instead_of_dropping_offered_load).
EverythingSettles == <>[](done = DOMAIN attempts /\ queue = {} /\ ledger = EmptyLedger)
=============================================================================
