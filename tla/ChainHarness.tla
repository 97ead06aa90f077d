---------------------------- MODULE ChainHarness ----------------------------
(***************************************************************************)
(* One logical request driven across client, selector owner, prefill and   *)
(* decode: the state machine of chain/harness.py together with the output  *)
(* fence, the R2 store and the D2 controller of preemption.py.             *)
(*                                                                         *)
(* Every public method that changes state is one action.  A call that      *)
(* raises before it changes anything is a disabled action.  Counters, the  *)
(* event transcript, prefill work and the decision observer are left out.  *)
(***************************************************************************)
EXTENDS ChainSelection, Integers

CONSTANTS
    Hosts,              \* the instances the owner's map may name
    NoHost,             \* the absent selection
    Maps,               \* the maps the owner may hold: [candidates, hits]
    OwnerSupports,      \* the capability sets an owner may declare
    InstanceReports,    \* the capability sets an instance may report
    Mode,               \* ChainConfig.mode
    RetryBudget,        \* ChainConfig.retry_budget
    MaxRounds,          \* ChainConfig.max_rounds
    D2GateOpen,         \* ChainConfig.d2_gate_open
    DurableAck,         \* ChainConfig.durable_output_ack
    MaxPreemptions,     \* PreemptionConfig.max_preemptions
    \* Bounds of the instance, not of the code.
    MaxAttempts,        \* attempts begun
    MaxOutput,          \* frame positions a leg stamps
    MaxViewEpoch        \* epochs of the owner's map

ASSUME HarnessAssumption ==
    /\ NoHost \notin Hosts
    /\ Mode \in {"off", "shadow", "enforce", "required"}
    /\ RetryBudget \in Nat
    /\ MaxRounds \in Nat \ {0}
    /\ D2GateOpen \in BOOLEAN
    /\ DurableAck \in BOOLEAN
    /\ MaxPreemptions \in Nat
    /\ MaxAttempts \in Nat
    /\ MaxOutput \in Nat
    /\ MaxViewEpoch \in Nat
    /\ OwnerSupports \subseteq SUBSET Capability
    /\ InstanceReports \subseteq SUBSET Capability
    /\ \A m \in Maps :
          /\ m.candidates \in Seq(Hosts)
          /\ m.candidates # <<>>
          /\ \A i \in 1..Len(m.candidates) : m.hits[m.candidates[i]] \in Nat

VARIABLES
    \* what the user saw
    frames,             \* accepted frames, in order of acceptance
    terminals,          \* visible terminals
    \* the client's memory
    authority,          \* the live OutputAuthority
    delivered,
    framesThisAttempt,
    prefillCommitted,
    currentHost,        \* the owner's pending selection
    active,             \* index in legs of the active leg, 0 for none
    controllerEpoch,    \* the epoch the controller last authorized, as the client knows it
    \* the client's durable ledgers
    durable,            \* acked sequence and epoch of the output ack
    attempt,
    retryUsed,
    failedHosts,
    budgetExhausted,
    roundsExhausted,
    \* the selector protocol
    handshake,
    lastViewEpoch,      \* highest map epoch the owner was asked with
    appliedEpoch,       \* map epoch of the last selection the selector decided
    \* decode
    legs,               \* every leg ever admitted; superseded ones still emit
    \* the D2 controller
    latestEpoch,        \* epoch it expects the next checkpoint to carry
    preemptions,
    detached,           \* its OutputAuthority once the client rebuilt its own
    store               \* the R2 checkpoint of the request

stream     == <<frames, terminals>>
pending    == <<prefillCommitted, currentHost>>
ledger     == <<retryUsed, failedHosts, budgetExhausted, roundsExhausted>>
selector   == <<handshake, lastViewEpoch, appliedEpoch>>
controller == <<latestEpoch, preemptions, detached, store>>
fenceVars  == <<authority, delivered, framesThisAttempt, durable>>

vars == <<frames, terminals, authority, delivered, framesThisAttempt,
          prefillCommitted, currentHost, active, controllerEpoch, durable,
          attempt, retryUsed, failedHosts, budgetExhausted, roundsExhausted,
          handshake, lastViewEpoch, appliedEpoch, legs, latestEpoch,
          preemptions, detached, store>>

Reasons      == {"STOP", "LENGTH", "ERROR"}
Authority    == [epoch: Nat, next: Nat]
Frame        == [epoch: Nat, seq: Nat]
Leg          == [attempt: Nat, epoch: Nat, next: Nat]
Ledger       == [acked: Nat, epoch: Nat]
NoAuthority  == [epoch |-> -1, next |-> -1]
NoCheckpoint == [epoch |-> -1, seq |-> -1]
Finished     == terminals # <<>>
Larger(a, b) == IF a >= b THEN a ELSE b

\* Variant: only the retry budget counts.
BudgetExhaustedOnly == budgetExhausted

Exhausted == budgetExhausted \/ roundsExhausted

Init ==
    /\ frames = <<>>
    /\ terminals = <<>>
    /\ authority = [epoch |-> 0, next |-> 0]
    /\ delivered = 0
    /\ framesThisAttempt = 0
    /\ prefillCommitted = FALSE
    /\ currentHost = NoHost
    /\ active = 0
    /\ controllerEpoch = 0
    /\ durable = [acked |-> 0, epoch |-> 0]
    /\ attempt = 0
    /\ retryUsed = 0
    /\ failedHosts = {}
    /\ budgetExhausted = FALSE
    /\ roundsExhausted = FALSE
    /\ handshake = NoHandshake
    /\ lastViewEpoch = -1
    /\ appliedEpoch = -1
    /\ legs = <<>>
    /\ latestEpoch = 0
    /\ preemptions = 0
    /\ detached = NoAuthority
    /\ store = NoCheckpoint

-----------------------------------------------------------------------------
\* The selector protocol.

Shake(owner, instance, sameVersion) ==
    /\ handshake' = Negotiate(owner, instance, sameVersion)
    /\ UNCHANGED <<stream, fenceVars, pending, active, controllerEpoch, attempt,
                   ledger, lastViewEpoch, appliedEpoch, legs, controller>>

\* The owner answers with the candidate at position i; applied tells whether
\* the selector decided.
FinalizeSelection(view, i, applied) ==
    /\ currentHost' = view.map.candidates[i]
    /\ appliedEpoch' = IF applied THEN view.epoch ELSE appliedEpoch

\* The owner places the leg.  On a reason to fail open the baseline decides,
\* and REQUIRED mode raises instead: either way the epoch of the view has been
\* remembered.  SHADOW only records what the selector would have done.
Select(view, excluded, timeout, error) ==
    LET failsOpen == FailsOpen(view, lastViewEpoch, handshake, timeout, error)
        chosen    == IF CacheScoresNegotiated(handshake)
                     THEN CacheAware(view, excluded)
                     ELSE Baseline(view, excluded)
    IN  /\ ~Exhausted
        /\ excluded \subseteq failedHosts
        /\ Allowed(view, excluded) # {}
        /\ lastViewEpoch' = IF Mode = "off" THEN lastViewEpoch
                            ELSE Larger(lastViewEpoch, view.epoch)
        /\ \/ /\ Mode = "required" /\ failsOpen
              /\ UNCHANGED <<currentHost, appliedEpoch>>
           \/ /\ \/ Mode \in {"off", "shadow"}
                 \/ Mode = "enforce" /\ failsOpen
              /\ \E i \in Baseline(view, excluded) : FinalizeSelection(view, i, FALSE)
           \/ /\ Mode \in {"enforce", "required"} /\ ~failsOpen
              /\ \E i \in chosen : FinalizeSelection(view, i, TRUE)
        /\ UNCHANGED <<stream, fenceVars, prefillCommitted, active,
                       controllerEpoch, attempt, ledger, handshake, legs,
                       controller>>

-----------------------------------------------------------------------------
\* Prefill.

CommitPrefill ==
    /\ ~Exhausted
    /\ prefillCommitted' = TRUE
    /\ UNCHANGED <<stream, fenceVars, currentHost, active, controllerEpoch,
                   attempt, ledger, selector, legs, controller>>

\* The code rolls back whether or not a prefill was committed, and does not
\* ask whether the budget is exhausted.
RollbackPrefill ==
    /\ framesThisAttempt = 0
    /\ active = 0
    /\ prefillCommitted' = FALSE
    /\ UNCHANGED <<stream, fenceVars, currentHost, active, controllerEpoch,
                   attempt, ledger, selector, legs, controller>>

-----------------------------------------------------------------------------
\* Decode legs.

\* A leg is stamped with the attempt, the fence and the resume position of
\* the instant it is admitted.
NewLeg == [attempt |-> attempt, epoch |-> authority.epoch, next |-> delivered]

\* Admission consumes the selection and the commit.
AdmitDecode ==
    /\ ~Exhausted
    /\ active = 0
    /\ prefillCommitted
    /\ currentHost # NoHost
    /\ prefillCommitted' = FALSE
    /\ currentHost' = NoHost
    /\ framesThisAttempt' = 0
    /\ legs' = Append(legs, NewLeg)
    /\ active' = Len(legs) + 1
    /\ UNCHANGED <<stream, authority, delivered, durable, controllerEpoch,
                   attempt, ledger, selector, controller>>

\* Variant: one refusal too many.
BudgetOverspent(used) == RetryBudget - used < 0

BudgetSpent(used) == RetryBudget - used <= 0

\* Variant: a refusal gives budget back.
Credited == retryUsed - 1

Charged == retryUsed + 1

\* A capacity refusal of the pending admission: a fault, so it is charged.
RejectDecode ==
    /\ ~Exhausted
    /\ active = 0
    /\ currentHost # NoHost
    /\ prefillCommitted
    /\ attempt < MaxAttempts
    /\ failedHosts' = failedHosts \cup {currentHost}
    /\ currentHost' = NoHost
    /\ prefillCommitted' = FALSE
    /\ retryUsed' = Charged
    /\ attempt' = attempt + 1
    /\ budgetExhausted' = BudgetSpent(retryUsed')
    /\ UNCHANGED <<stream, fenceVars, active, controllerEpoch, roundsExhausted,
                   selector, legs, controller>>

\* Variants: the fence forgets the position, or the epoch.
AcceptsAnyPosition(frame) == frame.epoch = authority.epoch
AcceptsAnyEpoch(frame) == frame.seq = authority.next

\* OutputAuthority.accept: exactly the live epoch, exactly the next position.
Accepts(frame) ==
    frame.epoch = authority.epoch /\ frame.seq = authority.next

\* Variant: the position is only remembered in memory.
AckFrameLost(position) == durable

\* The durable output ack of a frame.
AckFrame(position) ==
    IF DurableAck THEN [durable EXCEPT !.acked = position] ELSE durable

\* The fence judges one frame.  A frame it refuses is dropped and counted.
DeliverFrame(frame) ==
    /\ ~Finished
    /\ legs # <<>>
    /\ frame.epoch <= authority.epoch
    /\ \/ /\ Accepts(frame)
          /\ authority' = [authority EXCEPT !.next = @ + 1]
          /\ frames' = Append(frames, frame)
          /\ delivered' = delivered + 1
          /\ durable' = AckFrame(delivered')
          /\ framesThisAttempt' = framesThisAttempt + 1
       \/ /\ ~Accepts(frame)
          /\ UNCHANGED <<authority, frames, delivered, durable, framesThisAttempt>>
    /\ UNCHANGED <<terminals, pending, active, controllerEpoch, attempt, ledger,
                   selector, controller>>

\* Any leg ever admitted emits its next frame and advances its own position,
\* whatever the fence says.
Emit(l) ==
    /\ legs[l].next < MaxOutput
    /\ DeliverFrame([epoch |-> legs[l].epoch, seq |-> legs[l].next])
    /\ legs' = [legs EXCEPT ![l].next = @ + 1]

\* A frame of some leg reaches the client late, twice or out of order.
StrayFrame(l, seq) ==
    /\ DeliverFrame([epoch |-> legs[l].epoch, seq |-> seq])
    /\ UNCHANGED legs

-----------------------------------------------------------------------------
\* The three ways a leg ends: lease, checkpoint grant, crash.

\* Variant: the lease boundary leaves the epoch where it was.
AdvancedInPlace(a, epoch, resume) ==
    [epoch |-> a.epoch, next |-> Larger(a.next, resume)]

\* OutputAuthority.advance_epoch.
Advanced(a, epoch, resume) == [epoch |-> epoch, next |-> Larger(a.next, resume)]

\* The durable output ack of an epoch advance.
AckEpoch(epoch) ==
    IF DurableAck THEN [durable EXCEPT !.epoch = epoch] ELSE durable

\* Exhausting max_rounds still fences the leg before the call raises.
ExpireLease ==
    /\ ~Finished
    /\ ~Exhausted
    /\ active # 0
    /\ attempt < MaxAttempts
    /\ active' = 0
    /\ attempt' = attempt + 1
    /\ authority' = Advanced(authority, authority.epoch + 1, delivered)
    /\ durable' = AckEpoch(authority'.epoch)
    /\ roundsExhausted' = (attempt' > MaxRounds)
    /\ UNCHANGED <<stream, delivered, framesThisAttempt, pending,
                   controllerEpoch, retryUsed, failedHosts, budgetExhausted,
                   selector, legs, controller>>

\* The authority object the controller holds: the client's own one until a
\* restart rebuilds the client's.
RegisteredAuthority == IF detached = NoAuthority THEN authority ELSE detached

\* Variant: the client does not notice that the controller fell behind.
ReportReachesAnyController ==
    /\ active # 0
    /\ legs[active].epoch = authority.epoch
    /\ legs[active].next = delivered
    /\ D2GateOpen
    /\ D2Available(handshake)

\* The report of the active leg gets past the harness to the controller.
\* Every other report is answered REPORT_CHECKPOINT, which changes nothing.
ReportReachesController ==
    /\ active # 0
    /\ legs[active].epoch = authority.epoch
    /\ legs[active].next = delivered
    /\ D2GateOpen
    /\ D2Available(handshake)
    /\ authority.epoch = controllerEpoch

\* R2CheckpointStore.put refuses an update that is not newer.
NewerThanStored(ckpt) ==
    \/ ckpt.epoch > store.epoch
    \/ ckpt.epoch = store.epoch /\ ckpt.seq > store.seq

\* The checks the controller makes of a checkpoint it grants ABORT_SELF.
ControllerAccepts(ckpt) ==
    /\ ckpt.epoch = latestEpoch
    /\ RegisteredAuthority.epoch = ckpt.epoch
    /\ NewerThanStored(ckpt)

\* The planner finds that moving pays, within the preemption bound: the
\* controller advances the epoch and the leg gives itself up.  Its arithmetic
\* on the economics of the move is a free choice.
AbortSelf ==
    LET ckpt   == [epoch |-> legs[active].epoch, seq |-> legs[active].next]
        target == ckpt.epoch + 1
        moved  == Advanced(RegisteredAuthority, target, ckpt.seq)
    IN  /\ ReportReachesController
        /\ preemptions < MaxPreemptions
        /\ ControllerAccepts(ckpt)
        /\ attempt < MaxAttempts
        /\ store' = ckpt
        /\ authority' = IF detached = NoAuthority THEN moved ELSE authority
        /\ detached' = IF detached = NoAuthority THEN detached ELSE moved
        /\ latestEpoch' = target
        /\ preemptions' = preemptions + 1
        /\ attempt' = attempt + 1
        /\ active' = 0
        /\ controllerEpoch' = target
        /\ durable' = AckEpoch(target)
        /\ UNCHANGED <<stream, delivered, framesThisAttempt, pending, ledger,
                       selector, legs>>

\* The client dies and restarts from its durable output ack.  Its ledgers,
\* the handshake, the R2 store and the controller (with the authority object
\* it was given) survive; the leg it had is orphaned and keeps emitting.
CrashAndRestart ==
    LET resume == durable.acked
    IN  /\ ~Finished
        /\ DurableAck
        /\ attempt < MaxAttempts
        /\ delivered' = resume
        /\ framesThisAttempt' = 0
        /\ prefillCommitted' = FALSE
        /\ currentHost' = NoHost
        /\ active' = 0
        /\ authority' = [epoch |-> durable.epoch + 1, next |-> resume]
        /\ durable' = [durable EXCEPT !.epoch = authority'.epoch]
        /\ detached' = RegisteredAuthority
        /\ attempt' = attempt + 1
        /\ UNCHANGED <<stream, controllerEpoch, ledger, selector, legs,
                       latestEpoch, preemptions, store>>

-----------------------------------------------------------------------------

Finish(reason) ==
    /\ ~Finished
    /\ Exhausted => reason = "ERROR"
    /\ terminals' = Append(terminals, reason)
    /\ UNCHANGED <<frames, fenceVars, pending, active, controllerEpoch, attempt,
                   ledger, selector, legs, controller>>

Views == [epoch: 0..MaxViewEpoch, aged: BOOLEAN, map: Maps]

SelectorNext ==
    \/ \E owner \in OwnerSupports, instance \in InstanceReports, same \in BOOLEAN :
          Shake(owner, instance, same)
    \/ \E view \in Views, excluded \in SUBSET failedHosts,
          timeout \in BOOLEAN, error \in BOOLEAN :
          Select(view, excluded, timeout, error)

LegNext ==
    \E l \in 1..Len(legs) :
       Emit(l) \/ \E seq \in 0..(MaxOutput - 1) : StrayFrame(l, seq)

Next ==
    \/ SelectorNext
    \/ CommitPrefill
    \/ RollbackPrefill
    \/ AdmitDecode
    \/ RejectDecode
    \/ LegNext
    \/ ExpireLease
    \/ AbortSelf
    \/ CrashAndRestart
    \/ \E reason \in Reasons : Finish(reason)

Spec == Init /\ [][Next]_vars

-----------------------------------------------------------------------------
\* Properties.

\* Every variable stays in the set of values the code gives it.
TypeOK ==
    /\ frames \in Seq(Frame)
    /\ terminals \in Seq(Reasons)
    /\ authority \in Authority
    /\ delivered \in Nat
    /\ framesThisAttempt \in Nat
    /\ prefillCommitted \in BOOLEAN
    /\ currentHost \in Hosts \cup {NoHost}
    /\ legs \in Seq(Leg)
    /\ active \in 0..Len(legs)
    /\ controllerEpoch \in Nat
    /\ durable \in Ledger
    /\ attempt \in Nat
    /\ retryUsed \in Nat
    /\ failedHosts \subseteq Hosts
    /\ budgetExhausted \in BOOLEAN
    /\ roundsExhausted \in BOOLEAN
    /\ handshake \in Handshake
    /\ lastViewEpoch \in Nat \cup {-1}
    /\ appliedEpoch \in Nat \cup {-1}
    /\ latestEpoch \in Nat
    /\ preemptions \in Nat
    /\ detached \in Authority \cup {NoAuthority}
    /\ store \in Frame \cup {NoCheckpoint}

\* The user receives every output position exactly once and in order, under
\* epochs that never go back, whatever legs, restarts and stray frames do
\* (test_every_scenario_delivers_the_full_output_exactly_once).
ExactlyOnceInOrder ==
    /\ \A i \in 1..Len(frames) : frames[i].seq = i - 1
    /\ \A i, j \in 1..Len(frames) : i <= j => frames[i].epoch <= frames[j].epoch

\* The fence expects the position after the last one the user received: it is
\* never rewound, by a restart or a stale checkpoint, nor skipped ahead.
FenceAtUserPosition ==
    /\ authority.next = Len(frames)
    /\ delivered = Len(frames)

\* With a durable output ack the ledger a restart reads is never behind what
\* the user saw nor behind the live fence: the memory mirrors the ledger.
LedgerMirrorsFence ==
    DurableAck => /\ durable.acked = Len(frames)
                  /\ durable.epoch = authority.epoch

\* Only the active leg stands under the live epoch; every superseded or
\* orphaned leg is fenced, though it keeps emitting.
SupersededLegsFenced ==
    \A l \in 1..Len(legs) : /\ legs[l].epoch <= authority.epoch
                            /\ legs[l].epoch = authority.epoch <=> l = active

\* Every leg carries an attempt and an epoch of its own, later than those of
\* the legs before it.
LegIdentitiesAdvance ==
    \A l, m \in 1..Len(legs) : l < m => /\ legs[l].attempt < legs[m].attempt
                                        /\ legs[l].epoch < legs[m].epoch

\* The active leg never stamps a position past the one the fence waits for,
\* so it never has to skip output it can no longer deliver.
LegNeverAheadOfFence ==
    active # 0 => legs[active].next <= authority.next

\* A checkpoint report that reaches the controller is one it can judge: its
\* epoch is authorized, the authority it holds is the client's live one, and
\* the R2 store accepts the checkpoint.  "None of these paths raises".
AdvisoryReportNeverRaises ==
    ReportReachesController =>
        /\ ControllerAccepts([epoch |-> legs[active].epoch,
                              seq |-> legs[active].next])
        /\ detached = NoAuthority

\* An attempt whose leg was admitted is over once the leg is: no later step,
\* a prefill rollback in particular, happens under the identity of a leg that
\* already ran.
AttemptsOutliveNoLeg ==
    \A l \in 1..Len(legs) :
        IF l = active THEN legs[l].attempt = attempt ELSE legs[l].attempt < attempt

\* The retry ledger is charged by capacity refusals alone, never beyond the
\* budget, and says exhausted exactly when it is spent.
RetryLedgerSound ==
    /\ retryUsed <= Larger(RetryBudget, 1)
    /\ budgetExhausted <=> retryUsed > 0 /\ retryUsed >= RetryBudget
    /\ Cardinality(failedHosts) <= retryUsed
    /\ retryUsed + Len(legs) <= attempt + (IF active = 0 THEN 0 ELSE 1)

\* Budget or lease rounds once exhausted, the user gets nothing more but a
\* single ERROR: no frame, no leg, no selection, no further refusal, and a
\* restart does not lift the exhaustion.
ExhaustionOnlyEndsInError ==
    [][budgetExhausted \/ roundsExhausted =>
          /\ budgetExhausted' \/ roundsExhausted'
          /\ frames' = frames
          /\ Len(legs') = Len(legs)
          /\ retryUsed' = retryUsed
          /\ currentHost' \in {currentHost, NoHost}
          /\ terminals' \in {terminals, <<"ERROR">>}]_vars

\* The selector never decides on a map older than one the owner was already
\* asked with, timeouts and refused selections included, and what it was
\* asked with is never forgotten.
AppliedViewsNeverRegress ==
    [][/\ appliedEpoch' # appliedEpoch => appliedEpoch' >= lastViewEpoch
       /\ lastViewEpoch' >= lastViewEpoch]_vars

\* What makes the properties above inductive: the stream's epochs stay below
\* the fence, and the controller's view of the epoch is the client's until a
\* client-driven advance leaves it behind for good.
FramesUnderFence ==
    \A i \in 1..Len(frames) : frames[i].epoch <= authority.epoch

ControllerInSync ==
    /\ latestEpoch = controllerEpoch
    /\ controllerEpoch <= authority.epoch
    /\ store.epoch < latestEpoch
    /\ detached # NoAuthority => controllerEpoch < authority.epoch

IInv ==
    /\ TypeOK
    /\ ExactlyOnceInOrder
    /\ FenceAtUserPosition
    /\ LedgerMirrorsFence
    /\ SupersededLegsFenced
    /\ LegIdentitiesAdvance
    /\ LegNeverAheadOfFence
    /\ AttemptsOutliveNoLeg
    /\ FramesUnderFence
    /\ ControllerInSync

Promise == INSTANCE FencedOutputStream
    WITH stream <- frames, fence <- authority.epoch, writer <- active,
         granted <- Len(legs), closed <- terminals

\* The chain implements the fenced output stream: leg admission grants the
\* fence, lease expiry, grants and restarts revoke it as they raise it.
ImplementsPromise == Promise!Spec
=============================================================================
