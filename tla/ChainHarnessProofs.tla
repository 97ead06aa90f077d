------------------------- MODULE ChainHarnessProofs -------------------------
(***************************************************************************)
(* The chain harness for any hosts, maps, budgets and bounds: its type     *)
(* invariant, the exactly-once stream and its fence, the soundness of the  *)
(* controller's view, and the refinement of FencedOutputStream.  And its   *)
(* budgets and its selector: the retry ledger is sound, exhaustion ends in *)
(* an error only, and no selection rests on a map older than one seen.     *)
(***************************************************************************)
EXTENDS ChainHarness, TLAPS, SequenceTheorems, FiniteSetTheorems

\* The frame a leg stamps is a frame.
LEMMA FrameOfLeg ==
    ASSUME legs \in Seq(Leg), NEW l \in 1..Len(legs)
    PROVE  [epoch |-> legs[l].epoch, seq |-> legs[l].next] \in Frame
<1>1. legs[l] \in Leg
  OBVIOUS
<1>2. QED
  BY <1>1 DEF Leg, Frame

\* The fence keeps the types of what it writes.
LEMMA DeliverFrameTypes ==
    ASSUME frames \in Seq(Frame), authority \in Authority, delivered \in Nat,
           durable \in Ledger, framesThisAttempt \in Nat,
           NEW frame \in Frame, DeliverFrame(frame)
    PROVE  /\ frames' \in Seq(Frame)
           /\ authority' \in Authority
           /\ delivered' \in Nat
           /\ durable' \in Ledger
           /\ framesThisAttempt' \in Nat
<1>1. authority' \in Authority
  BY DEF DeliverFrame, AckFrame, Authority
<1>2. delivered' \in Nat /\ durable' \in Ledger
  BY DEF DeliverFrame, AckFrame, Ledger
<1>3. frames' \in Seq(Frame) /\ framesThisAttempt' \in Nat
  BY SMTT(30) DEF DeliverFrame, AckFrame
<1>4. QED
  BY <1>1, <1>2, <1>3

\* A view names candidates that are hosts.
LEMMA ViewTypes ==
    ASSUME NEW view \in Views
    PROVE  /\ view.epoch \in Nat
           /\ \A i \in 1..Len(view.map.candidates) : view.map.candidates[i] \in Hosts
<1>1. view.map \in Maps /\ view.epoch \in Nat
  BY HarnessAssumption DEF Views
<1>2. view.map.candidates \in Seq(Hosts)
  BY <1>1, HarnessAssumption
<1>3. QED
  BY <1>1, <1>2

\* The type invariant, for every value of the constants.
THEOREM TypeCorrect == Spec => []TypeOK
<1>1. Init => TypeOK
  <2> SUFFICES ASSUME Init PROVE TypeOK
    OBVIOUS
  <2>1. handshake \in Handshake
    BY DEF Init, Handshake, NoHandshake
  <2>2. authority \in Authority /\ durable \in Ledger
    BY DEF Init, Authority, Ledger
  <2>3. /\ frames \in Seq(Frame)
        /\ terminals \in Seq(Reasons)
        /\ legs \in Seq(Leg)
        /\ active \in 0..Len(legs)
    BY DEF Init
  <2>4. QED
    BY <2>1, <2>2, <2>3 DEF Init, TypeOK, NoAuthority, NoCheckpoint
<1>2. TypeOK /\ [Next]_vars => TypeOK'
  <2> SUFFICES ASSUME TypeOK, [Next]_vars PROVE TypeOK'
    OBVIOUS
  <2>0. /\ frames \in Seq(Frame) /\ legs \in Seq(Leg)
        /\ authority \in Authority /\ durable \in Ledger
        /\ delivered \in Nat /\ framesThisAttempt \in Nat /\ attempt \in Nat
        /\ active \in 0..Len(legs)
    BY DEF TypeOK
  <2>1. ASSUME NEW owner \in OwnerSupports, NEW instance \in InstanceReports,
               NEW same \in BOOLEAN, Shake(owner, instance, same)
        PROVE  TypeOK'
    <3>1. handshake' \in Handshake
      BY <2>1, HarnessAssumption DEF Shake, Negotiate, Handshake
    <3>2. QED
      BY <2>1, <3>1 DEF TypeOK, Shake, stream, fenceVars, pending, ledger, controller
  <2>2. ASSUME NEW view \in Views, NEW excluded \in SUBSET failedHosts,
               NEW timeout \in BOOLEAN, NEW error \in BOOLEAN,
               Select(view, excluded, timeout, error)
        PROVE  TypeOK'
    <3>1. lastViewEpoch' \in Nat \cup {-1}
      BY <2>2, ViewTypes DEF TypeOK, Select, Larger
    <3>2. currentHost' \in Hosts \cup {NoHost} /\ appliedEpoch' \in Nat \cup {-1}
      <4>1. \/ UNCHANGED <<currentHost, appliedEpoch>>
            \/ \E i \in Allowed(view, excluded), applied \in BOOLEAN :
                  FinalizeSelection(view, i, applied)
        BY <2>2 DEF Select, Baseline, CacheAware
      <4>2. QED
        BY <4>1, ViewTypes DEF TypeOK, FinalizeSelection, Allowed
    <3>3. QED
      BY <2>2, <3>1, <3>2 DEF TypeOK, Select, stream, fenceVars, ledger, controller
  <2>3. CASE CommitPrefill
    BY <2>3 DEF TypeOK, CommitPrefill, stream, fenceVars, ledger, selector, controller
  <2>4. CASE RollbackPrefill
    BY <2>4 DEF TypeOK, RollbackPrefill, stream, fenceVars, ledger, selector, controller
  <2>5. CASE AdmitDecode
    <3>1. legs' \in Seq(Leg) /\ active' \in 0..Len(legs')
      BY <2>0, <2>5 DEF AdmitDecode, NewLeg, Authority, Leg
    <3>2. QED
      BY <2>5, <3>1 DEF TypeOK, AdmitDecode, NewLeg, stream, ledger, selector, controller
  <2>6. CASE RejectDecode
    <3>1. failedHosts' \subseteq Hosts
      BY <2>6 DEF TypeOK, RejectDecode, BudgetSpent, Charged
    <3>2. attempt' \in Nat /\ retryUsed' \in Nat /\ budgetExhausted' \in BOOLEAN
      BY <2>6 DEF TypeOK, RejectDecode, BudgetSpent, Charged
    <3>3. QED
      BY <2>6, <3>1, <3>2 DEF TypeOK, RejectDecode, BudgetSpent, Charged, stream, fenceVars, selector,
         controller
  <2>7. ASSUME NEW l \in 1..Len(legs), Emit(l)
        PROVE  TypeOK'
    <3>1. DeliverFrame([epoch |-> legs[l].epoch, seq |-> legs[l].next])
      BY <2>7 DEF Emit
    <3>2. /\ frames' \in Seq(Frame)
          /\ authority' \in Authority
          /\ delivered' \in Nat
          /\ durable' \in Ledger
          /\ framesThisAttempt' \in Nat
      BY <2>0, <3>1, FrameOfLeg, DeliverFrameTypes
    <3>3. legs' \in Seq(Leg) /\ Len(legs') = Len(legs)
      <4>1. legs[l] \in Leg
        BY <2>0
      <4>2. legs' = [legs EXCEPT ![l] = [legs[l] EXCEPT !.next = legs[l].next + 1]]
        BY <2>7 DEF Emit
      <4>3. [legs[l] EXCEPT !.next = legs[l].next + 1] \in Leg
        BY <4>1 DEF Leg
      <4>4. QED
        BY <2>0, <4>2, <4>3
    <3>4. QED
      BY <3>1, <3>2, <3>3 DEF TypeOK, DeliverFrame, AckFrame, pending, ledger, selector, controller
  <2>8. ASSUME NEW l \in 1..Len(legs), NEW seq \in 0..(MaxOutput - 1),
               StrayFrame(l, seq)
        PROVE  TypeOK'
    <3>1. [epoch |-> legs[l].epoch, seq |-> seq] \in Frame
      <4>1. legs[l] \in Leg
        BY <2>0
      <4>2. QED
        BY <4>1, HarnessAssumption DEF Leg, Frame
    <3>2. /\ DeliverFrame([epoch |-> legs[l].epoch, seq |-> seq])
          /\ legs' = legs
      BY <2>8 DEF StrayFrame
    <3>3. /\ frames' \in Seq(Frame)
          /\ authority' \in Authority
          /\ delivered' \in Nat
          /\ durable' \in Ledger
          /\ framesThisAttempt' \in Nat
      BY <2>0, <3>1, <3>2, DeliverFrameTypes
    <3>4. QED
      BY <3>2, <3>3 DEF TypeOK, DeliverFrame, AckFrame, pending, ledger, selector, controller
  <2>9. CASE ExpireLease
    <3>1. authority' \in Authority /\ durable' \in Ledger
      BY <2>0, <2>9, SMTT(30) DEF ExpireLease, AckEpoch, Advanced, Larger, Authority, Ledger
    <3>2. /\ roundsExhausted' \in BOOLEAN
          /\ legs' = legs /\ active' = 0
          /\ attempt' \in Nat
      BY <2>0, <2>9 DEF ExpireLease, AckEpoch
    <3>3. QED
      BY <2>0, <2>9, <3>1, <3>2, SMTT(30)
         DEF TypeOK, ExpireLease, AckEpoch, stream, pending, selector,
         controller
  <2>10. CASE AbortSelf
    <3>1. [epoch |-> legs[active].epoch, seq |-> legs[active].next] \in Frame
      BY <2>0, <2>10, FrameOfLeg DEF AbortSelf, AckEpoch, ReportReachesController
    <3>2. detached \in Authority \cup {NoAuthority} /\ preemptions \in Nat
      BY DEF TypeOK
    <3>3. legs[active].epoch \in Nat /\ legs[active].next \in Nat
      BY <3>1 DEF Frame
    <3>4. store' \in Frame /\ latestEpoch' \in Nat /\ controllerEpoch' \in Nat
      BY <2>10, <3>1, <3>3 DEF AbortSelf, AckEpoch
    <3>5. durable' \in Ledger
      <4>1. \/ durable' = durable
            \/ durable' = [durable EXCEPT !.epoch = legs[active].epoch + 1]
        BY <2>10 DEF AbortSelf, AckEpoch
      <4>2. QED
        BY <2>0, <3>3, <4>1, SMTT(30) DEF Ledger
    <3>6. authority' \in Authority /\ detached' \in Authority \cup {NoAuthority}
      <4>1. RegisteredAuthority \in Authority
        BY <2>0, <3>2 DEF RegisteredAuthority
      <4>2. Advanced(RegisteredAuthority, legs[active].epoch + 1, legs[active].next)
               \in Authority
        BY <3>3, <4>1 DEF Advanced, Larger, Authority
      <4>3. QED
        BY <2>0, <2>10, <3>2, <4>2 DEF AbortSelf, AckEpoch
    <3>7. preemptions' \in Nat /\ attempt' \in Nat /\ legs' = legs /\ active' = 0
      BY <2>0, <2>10, <3>2 DEF AbortSelf, AckEpoch
    <3>8. QED
      BY <2>0, <2>10, <3>4, <3>5, <3>6, <3>7, SMTT(30)
         DEF TypeOK, AbortSelf, AckEpoch, stream, pending,
         ledger, selector
  <2>11. CASE CrashAndRestart
    <3>1. authority' \in Authority
      BY <2>0, <2>11 DEF CrashAndRestart, Authority, Ledger
    <3>2. durable' \in Ledger
      <4>1. durable' = [durable EXCEPT !.epoch = authority'.epoch]
        BY <2>11 DEF CrashAndRestart
      <4>2. QED
        BY <2>0, <3>1, <4>1 DEF Authority, Ledger
    <3>3. detached' \in Authority \cup {NoAuthority}
      BY <2>11 DEF TypeOK, CrashAndRestart, RegisteredAuthority
    <3>4. /\ delivered' \in Nat /\ attempt' \in Nat
          /\ framesThisAttempt' \in Nat
          /\ legs' \in Seq(Leg) /\ active' \in 0..Len(legs')
      BY <2>0, <2>11 DEF CrashAndRestart, Ledger
    <3>5. /\ UNCHANGED <<stream, controllerEpoch, ledger, selector, latestEpoch,
                         preemptions, store>>
          /\ prefillCommitted' = FALSE /\ currentHost' = NoHost
      BY <2>11 DEF CrashAndRestart
    <3>6. QED
      BY <3>1, <3>2, <3>3, <3>4, <3>5 DEF TypeOK, stream, ledger, selector
  <2>12. ASSUME NEW reason \in Reasons, Finish(reason)
         PROVE  TypeOK'
    <3>1. terminals' \in Seq(Reasons)
      BY <2>12 DEF TypeOK, Finish
    <3>2. QED
      BY <2>12, <3>1 DEF TypeOK, Finish, fenceVars, pending, ledger, selector, controller
  <2>13. CASE UNCHANGED vars
    BY <2>13 DEF TypeOK, vars
  <2>14. QED
    BY <2>1, <2>2, <2>3, <2>4, <2>5, <2>6, <2>7, <2>8, <2>9, <2>10, <2>11, <2>12,
       <2>13 DEF Next, SelectorNext, LegNext
<1>3. QED
  BY <1>1, <1>2, PTL DEF Spec

-----------------------------------------------------------------------------

\* What a step that only touches the selector protocol, the pending admission,
\* the retry ledger or the terminals leaves alone.
streamState == <<frames, authority, delivered, durable, legs, active,
                 controllerEpoch, latestEpoch, preemptions, detached, store>>

\* The fields of a leg are numbers.
LEMMA LegFields ==
    ASSUME legs \in Seq(Leg)
    PROVE  \A l \in 1..Len(legs) : /\ legs[l].attempt \in Nat
                                   /\ legs[l].epoch \in Nat
                                   /\ legs[l].next \in Nat
<1>1. \A l \in 1..Len(legs) : legs[l] \in Leg
  OBVIOUS
<1>2. QED
  BY <1>1 DEF Leg

\* The initial state satisfies the inductive invariant.
LEMMA InitIInv == ASSUME Init, TypeOK PROVE IInv
<1>1. /\ ExactlyOnceInOrder /\ FramesUnderFence
      /\ SupersededLegsFenced /\ LegIdentitiesAdvance /\ AttemptsOutliveNoLeg
  BY DEF Init, ExactlyOnceInOrder, FramesUnderFence, SupersededLegsFenced,
         LegIdentitiesAdvance, AttemptsOutliveNoLeg
<1>2. FenceAtUserPosition /\ LedgerMirrorsFence /\ LegNeverAheadOfFence
  BY DEF Init, FenceAtUserPosition, LedgerMirrorsFence, LegNeverAheadOfFence
<1>3. ControllerInSync
  BY DEF Init, ControllerInSync, NoCheckpoint
<1>4. QED
  BY <1>1, <1>2, <1>3 DEF IInv

\* A step that leaves the stream, the fence, the legs and the controller alone
\* keeps the invariant; a refused admission moves the attempt on without a leg.
LEMMA QuietStep ==
    ASSUME IInv, TypeOK', UNCHANGED streamState,
           attempt' = attempt \/ (active = 0 /\ attempt' = attempt + 1)
    PROVE  IInv'
<1>1. /\ ExactlyOnceInOrder' /\ FenceAtUserPosition' /\ LedgerMirrorsFence'
      /\ SupersededLegsFenced' /\ LegIdentitiesAdvance' /\ LegNeverAheadOfFence'
      /\ FramesUnderFence' /\ ControllerInSync'
  BY DEF IInv, streamState, ExactlyOnceInOrder, FenceAtUserPosition,
         LedgerMirrorsFence, SupersededLegsFenced, LegIdentitiesAdvance,
         LegNeverAheadOfFence, FramesUnderFence, ControllerInSync
<1>2. AttemptsOutliveNoLeg'
  <2>1. /\ legs' = legs /\ active' = active
        /\ legs \in Seq(Leg) /\ attempt \in Nat
    BY DEF IInv, TypeOK, streamState
  <2>2. QED
    BY <2>1, LegFields DEF IInv, AttemptsOutliveNoLeg
<1>3. QED
  BY <1>1, <1>2 DEF IInv

\* What the fence does with a frame of leg l: it hears only the active leg,
\* and extends the stream by the one position the user lacks.
LEMMA FrameJudged ==
    ASSUME IInv, NEW l \in 1..Len(legs), NEW frame \in Frame,
           frame.epoch = legs[l].epoch, DeliverFrame(frame)
    PROVE  \/ /\ ~Accepts(frame)
              /\ UNCHANGED <<frames, authority, delivered, durable>>
           \/ /\ Accepts(frame)
              /\ l = active
              /\ frame = [epoch |-> authority.epoch, seq |-> Len(frames)]
              /\ frames' = Append(frames, frame)
              /\ authority' = [authority EXCEPT !.next = Len(frames) + 1]
              /\ delivered' = Len(frames) + 1
              /\ durable' = IF DurableAck
                            THEN [durable EXCEPT !.acked = Len(frames) + 1]
                            ELSE durable
<1>1. CASE ~Accepts(frame)
  BY <1>1 DEF DeliverFrame, AckFrame
<1>2. CASE Accepts(frame)
  <2>1. l = active
    BY <1>2 DEF IInv, SupersededLegsFenced, Accepts
  <2>2. authority.next = Len(frames) /\ delivered = Len(frames)
    BY DEF IInv, FenceAtUserPosition
  <2>3. frame = [epoch |-> authority.epoch, seq |-> Len(frames)]
    BY <1>2, <2>2 DEF Accepts, Frame
  <2>4. QED
    BY <1>2, <2>1, <2>2, <2>3 DEF DeliverFrame, AckFrame
<1>3. QED
  BY <1>1, <1>2

\* The stream's part of the invariant survives every frame.
LEMMA FrameKeepsStream ==
    ASSUME IInv, NEW l \in 1..Len(legs), NEW frame \in Frame,
           frame.epoch = legs[l].epoch, DeliverFrame(frame)
    PROVE  /\ ExactlyOnceInOrder' /\ FenceAtUserPosition'
           /\ LedgerMirrorsFence' /\ FramesUnderFence'
<1>0. /\ frames \in Seq(Frame) /\ authority \in Authority /\ durable \in Ledger
      /\ ExactlyOnceInOrder /\ FenceAtUserPosition /\ LedgerMirrorsFence
      /\ FramesUnderFence
  BY DEF IInv, TypeOK
<1>1. CASE UNCHANGED <<frames, authority, delivered, durable>>
  BY <1>0, <1>1 DEF ExactlyOnceInOrder, FenceAtUserPosition, LedgerMirrorsFence,
                    FramesUnderFence
<1>2. CASE /\ frame = [epoch |-> authority.epoch, seq |-> Len(frames)]
           /\ frames' = Append(frames, frame)
           /\ authority' = [authority EXCEPT !.next = Len(frames) + 1]
           /\ delivered' = Len(frames) + 1
           /\ durable' = IF DurableAck
                         THEN [durable EXCEPT !.acked = Len(frames) + 1]
                         ELSE durable
  <2>1. /\ Len(frames') = Len(frames) + 1
        /\ \A i \in 1..Len(frames) : frames'[i] = frames[i]
        /\ frames'[Len(frames) + 1] = frame
    BY <1>0, <1>2
  <2>2. authority'.epoch = authority.epoch /\ authority'.next = Len(frames) + 1
    BY <1>0, <1>2 DEF Authority
  <2>3. \A i \in 1..Len(frames) : frames[i].epoch \in Nat /\ frames[i].seq \in Nat
    <3>1. \A i \in 1..Len(frames) : frames[i] \in Frame
      BY <1>0
    <3>2. QED
      BY <3>1 DEF Frame
  <2>4. authority.epoch \in Nat /\ Len(frames) \in Nat
    BY <1>0 DEF Authority
  <2>5. frame.epoch = authority.epoch /\ frame.seq = Len(frames)
    BY <1>2
  <2>6. ExactlyOnceInOrder'
    <3>1. ASSUME NEW i \in 1..Len(frames')
          PROVE  frames'[i].seq = i - 1
      <4>1. CASE i \in 1..Len(frames)
        BY <1>0, <2>1, <4>1 DEF ExactlyOnceInOrder
      <4>2. CASE i = Len(frames) + 1
        BY <2>1, <2>4, <2>5, <4>2
      <4>3. QED
        BY <2>1, <2>4, <4>1, <4>2
    <3>2. ASSUME NEW i \in 1..Len(frames'), NEW j \in 1..Len(frames'), i <= j
          PROVE  frames'[i].epoch <= frames'[j].epoch
      <4>1. CASE j \in 1..Len(frames)
        <5>1. i \in 1..Len(frames)
          BY <3>2, <4>1, <2>4
        <5>2. QED
          BY <1>0, <2>1, <3>2, <4>1, <5>1 DEF ExactlyOnceInOrder
      <4>2. CASE j = Len(frames) + 1
        <5>1. frames'[j].epoch = authority.epoch
          BY <2>1, <2>5, <4>2
        <5>2. CASE i \in 1..Len(frames)
          BY <1>0, <2>1, <5>1, <5>2 DEF FramesUnderFence
        <5>3. CASE i = Len(frames) + 1
          BY <2>4, <4>2, <5>1, <5>3
        <5>4. QED
          BY <2>1, <2>4, <5>2, <5>3
      <4>3. QED
        BY <2>1, <2>4, <4>1, <4>2
    <3>3. QED
      BY <3>1, <3>2 DEF ExactlyOnceInOrder
  <2>7. FramesUnderFence'
    BY <1>0, <2>1, <2>2, <2>4, <2>5 DEF FramesUnderFence
  <2>8. FenceAtUserPosition'
    BY <1>2, <2>1, <2>2 DEF FenceAtUserPosition
  <2>9. LedgerMirrorsFence'
    <3>1. SUFFICES ASSUME DurableAck
                   PROVE  /\ durable'.acked = Len(frames')
                          /\ durable'.epoch = authority'.epoch
      BY DEF LedgerMirrorsFence
    <3>2. durable' = [durable EXCEPT !.acked = Len(frames) + 1]
      BY <1>2, <3>1
    <3>3. durable.epoch = authority.epoch
      BY <1>0, <3>1 DEF LedgerMirrorsFence
    <3>4. QED
      BY <1>0, <2>1, <2>2, <3>2, <3>3 DEF Ledger
  <2>10. QED
    BY <2>6, <2>7, <2>8, <2>9
<1>3. QED
  BY <1>1, <1>2, FrameJudged

\* An emitted or stray frame keeps the invariant; only an emitting leg moves,
\* and only its own position.
LEMMA FrameKeepsIInv ==
    ASSUME IInv, TypeOK', NEW l \in 1..Len(legs), NEW frame \in Frame,
           frame.epoch = legs[l].epoch, DeliverFrame(frame),
           \/ legs' = legs
           \/ /\ frame.seq = legs[l].next
              /\ legs' = [legs EXCEPT ![l].next = @ + 1]
    PROVE  IInv'
<1>0. /\ legs \in Seq(Leg) /\ legs' \in Seq(Leg) /\ authority \in Authority
      /\ attempt' = attempt /\ active' = active /\ active \in 0..Len(legs)
      /\ UNCHANGED <<controllerEpoch, latestEpoch, detached, store>>
      /\ authority.next = Len(frames) /\ Len(frames) \in Nat
  BY DEF IInv, TypeOK, FenceAtUserPosition, DeliverFrame, AckFrame, controller
<1>1. /\ authority'.epoch = authority.epoch
      /\ authority'.next \in {authority.next, authority.next + 1}
  <2>1. \/ authority' = authority
        \/ authority' = [authority EXCEPT !.next = Len(frames) + 1]
    BY FrameJudged
  <2>2. QED
    BY <1>0, <2>1 DEF Authority
<1>2. /\ Len(legs') = Len(legs)
      /\ \A m \in 1..Len(legs) : /\ legs'[m].attempt = legs[m].attempt
                                 /\ legs'[m].epoch = legs[m].epoch
                                 /\ m # l => legs'[m].next = legs[m].next
  <2>1. \A m \in 1..Len(legs) : legs[m] \in Leg
    BY <1>0
  <2>2. CASE legs' = legs
    BY <2>2
  <2>3. CASE legs' = [legs EXCEPT ![l].next = @ + 1]
    <3>1. legs' = [legs EXCEPT ![l] = [legs[l] EXCEPT !.next = legs[l].next + 1]]
      BY <2>3
    <3>2. /\ [legs[l] EXCEPT !.next = legs[l].next + 1].attempt = legs[l].attempt
          /\ [legs[l] EXCEPT !.next = legs[l].next + 1].epoch = legs[l].epoch
      BY <2>1 DEF Leg
    <3>3. Len(legs') = Len(legs)
      BY <1>0, <3>1
    <3>4. \A m \in 1..Len(legs) :
             legs'[m] = IF m = l THEN [legs[l] EXCEPT !.next = legs[l].next + 1]
                                 ELSE legs[m]
      BY <1>0, <3>1
    <3>5. QED
      BY <3>2, <3>3, <3>4
  <2>4. QED
    BY <2>2, <2>3
<1>3. /\ ExactlyOnceInOrder' /\ FenceAtUserPosition'
      /\ LedgerMirrorsFence' /\ FramesUnderFence'
  BY FrameKeepsStream
<1>4. SupersededLegsFenced' /\ LegIdentitiesAdvance' /\ AttemptsOutliveNoLeg'
  BY <1>0, <1>1, <1>2 DEF IInv, SupersededLegsFenced, LegIdentitiesAdvance,
                          AttemptsOutliveNoLeg
<1>5. LegNeverAheadOfFence'
  <2>1. SUFFICES ASSUME active # 0
                 PROVE  legs'[active].next <= authority'.next
    BY <1>0 DEF LegNeverAheadOfFence
  <2>2. active \in 1..Len(legs) /\ legs[active].next <= authority.next
    BY <1>0, <2>1 DEF IInv, LegNeverAheadOfFence
  <2>3. legs[active].next \in Nat /\ authority.next \in Nat
    BY <1>0, <2>2, LegFields DEF Authority
  <2>4. CASE legs'[active].next = legs[active].next
    BY <1>1, <2>2, <2>3, <2>4
  <2>5. CASE /\ l = active
             /\ frame.seq = legs[l].next
             /\ legs' = [legs EXCEPT ![l].next = @ + 1]
    <3>1. legs[l] \in Leg
      BY <1>0
    <3>2. legs'[active].next = legs[active].next + 1
      BY <1>0, <2>5, <3>1 DEF Leg
    <3>3. CASE legs[active].next < authority.next
      BY <1>1, <2>3, <3>2, <3>3
    <3>4. CASE legs[active].next = authority.next
      <4>1. Accepts(frame)
        BY <2>5, <3>4, <2>2 DEF Accepts, IInv, SupersededLegsFenced
      <4>2. authority' = [authority EXCEPT !.next = Len(frames) + 1]
        BY <4>1, FrameJudged
      <4>3. authority'.next = authority.next + 1
        BY <1>0, <4>2 DEF Authority
      <4>4. QED
        BY <3>2, <3>4, <4>3, <2>3
    <3>5. QED
      BY <2>2, <2>3, <3>3, <3>4
  <2>6. QED
    BY <1>2, <2>2, <2>4, <2>5
<1>6. ControllerInSync'
  BY <1>0, <1>1 DEF IInv, ControllerInSync
<1>7. QED
  BY <1>3, <1>4, <1>5, <1>6 DEF IInv

\* Whatever ends a leg (lease, grant, restart) raises the fence by one over the
\* position the user has and leaves no leg active: every leg is then behind it.
LEMMA FenceRaised ==
    ASSUME IInv, TypeOK', frames' = frames, legs' = legs, active' = 0,
           attempt' = attempt + 1, delivered' = Len(frames),
           authority' = [epoch |-> authority.epoch + 1, next |-> Len(frames)],
           DurableAck => /\ durable'.acked = Len(frames)
                         /\ durable'.epoch = authority.epoch + 1,
           ControllerInSync'
    PROVE  IInv'
<1>0. /\ legs \in Seq(Leg) /\ attempt \in Nat /\ authority.epoch \in Nat
      /\ active \in 0..Len(legs) /\ frames \in Seq(Frame)
  BY DEF IInv, TypeOK, Authority
<1>1. authority'.epoch = authority.epoch + 1 /\ authority'.next = Len(frames)
  OBVIOUS
<1>2. ExactlyOnceInOrder' /\ FenceAtUserPosition' /\ LedgerMirrorsFence'
  BY <1>1 DEF IInv, ExactlyOnceInOrder, FenceAtUserPosition, LedgerMirrorsFence
<1>3. FramesUnderFence'
  <2>1. \A i \in 1..Len(frames) : frames[i] \in Frame
    BY <1>0
  <2>2. QED
    BY <1>0, <1>1, <2>1 DEF IInv, FramesUnderFence, Frame
<1>4. SupersededLegsFenced'
  BY <1>0, <1>1, LegFields DEF IInv, SupersededLegsFenced
<1>5. LegIdentitiesAdvance' /\ LegNeverAheadOfFence'
  BY DEF IInv, LegIdentitiesAdvance, LegNeverAheadOfFence
<1>6. AttemptsOutliveNoLeg'
  BY <1>0, LegFields DEF IInv, AttemptsOutliveNoLeg
<1>7. QED
  BY <1>2, <1>3, <1>4, <1>5, <1>6 DEF IInv

-----------------------------------------------------------------------------

\* Every step of the chain keeps the inductive invariant.
LEMMA StepIInv == ASSUME IInv, TypeOK', [Next]_vars PROVE IInv'
<1>0. /\ legs \in Seq(Leg) /\ authority \in Authority /\ durable \in Ledger
      /\ attempt \in Nat /\ active \in 0..Len(legs) /\ Len(frames) \in Nat
      /\ authority.next = Len(frames) /\ delivered = Len(frames)
      /\ authority.epoch \in Nat /\ controllerEpoch \in Nat
  BY DEF IInv, TypeOK, FenceAtUserPosition, Authority
<1>1. ASSUME NEW owner \in OwnerSupports, NEW instance \in InstanceReports,
             NEW same \in BOOLEAN, Shake(owner, instance, same)
      PROVE  IInv'
  BY <1>1, QuietStep DEF Shake, streamState, stream, fenceVars, controller
<1>2. ASSUME NEW view \in Views, NEW excluded \in SUBSET failedHosts,
             NEW timeout \in BOOLEAN, NEW error \in BOOLEAN,
             Select(view, excluded, timeout, error)
      PROVE  IInv'
  BY <1>2, QuietStep DEF Select, streamState, stream, fenceVars, controller
<1>3. CASE CommitPrefill
  BY <1>3, QuietStep DEF CommitPrefill, streamState, stream, fenceVars, controller
<1>4. CASE RollbackPrefill
  BY <1>4, QuietStep DEF RollbackPrefill, streamState, stream, fenceVars, controller
<1>5. CASE RejectDecode
  BY <1>5, QuietStep DEF RejectDecode, streamState, stream, fenceVars, controller
<1>6. ASSUME NEW reason \in Reasons, Finish(reason)
      PROVE  IInv'
  BY <1>6, QuietStep DEF Finish, streamState, fenceVars, controller
<1>7. CASE AdmitDecode
  <2>1. /\ legs' = Append(legs, [attempt |-> attempt, epoch |-> authority.epoch,
                                 next |-> delivered])
        /\ active = 0 /\ active' = Len(legs) + 1
        /\ UNCHANGED <<frames, authority, delivered, durable, attempt,
                       controllerEpoch, latestEpoch, detached, store>>
    BY <1>7 DEF AdmitDecode, NewLeg, stream, controller
  <2>2. /\ Len(legs') = Len(legs) + 1
        /\ \A l \in 1..Len(legs) : legs'[l] = legs[l]
        /\ legs'[Len(legs) + 1].attempt = attempt
        /\ legs'[Len(legs) + 1].epoch = authority.epoch
        /\ legs'[Len(legs) + 1].next = delivered
    BY <1>0, <2>1
  <2>3. \A l \in 1..Len(legs) :
           /\ legs[l].attempt < attempt /\ legs[l].epoch < authority.epoch
           /\ legs[l].attempt \in Nat /\ legs[l].epoch \in Nat
    BY <1>0, <2>1, LegFields DEF IInv, AttemptsOutliveNoLeg, SupersededLegsFenced
  <2>4. SupersededLegsFenced' /\ LegNeverAheadOfFence' /\ AttemptsOutliveNoLeg'
    BY <1>0, <2>1, <2>2, <2>3 DEF SupersededLegsFenced, LegNeverAheadOfFence,
                                  AttemptsOutliveNoLeg
  <2>5. LegIdentitiesAdvance'
    <3>1. SUFFICES ASSUME NEW l \in 1..Len(legs'), NEW m \in 1..Len(legs'), l < m
                   PROVE  /\ legs'[l].attempt < legs'[m].attempt
                          /\ legs'[l].epoch < legs'[m].epoch
      BY DEF LegIdentitiesAdvance
    <3>2. l \in 1..Len(legs)
      BY <1>0, <2>2, <3>1
    <3>3. CASE m \in 1..Len(legs)
      BY <2>2, <3>1, <3>2, <3>3 DEF IInv, LegIdentitiesAdvance
    <3>4. CASE m = Len(legs) + 1
      BY <2>2, <2>3, <3>2, <3>4
    <3>5. QED
      BY <1>0, <2>2, <3>3, <3>4
  <2>6. /\ ExactlyOnceInOrder' /\ FenceAtUserPosition' /\ LedgerMirrorsFence'
        /\ FramesUnderFence' /\ ControllerInSync'
    BY <2>1 DEF IInv, ExactlyOnceInOrder, FenceAtUserPosition, LedgerMirrorsFence,
                FramesUnderFence, ControllerInSync
  <2>7. QED
    BY <2>4, <2>5, <2>6 DEF IInv
<1>8. ASSUME NEW l \in 1..Len(legs), Emit(l)
      PROVE  IInv'
  <2>1. [epoch |-> legs[l].epoch, seq |-> legs[l].next] \in Frame
    BY <1>0, FrameOfLeg
  <2>2. QED
    BY <1>8, <2>1, FrameKeepsIInv DEF Emit
<1>9. ASSUME NEW l \in 1..Len(legs), NEW seq \in 0..(MaxOutput - 1),
             StrayFrame(l, seq)
      PROVE  IInv'
  <2>1. [epoch |-> legs[l].epoch, seq |-> seq] \in Frame
    BY <1>0, LegFields, HarnessAssumption DEF Frame
  <2>2. QED
    BY <1>9, <2>1, FrameKeepsIInv DEF StrayFrame
<1>10. CASE ExpireLease
  <2>1. authority' = [epoch |-> authority.epoch + 1, next |-> Len(frames)]
    BY <1>0, <1>10 DEF ExpireLease, AckEpoch, Advanced, Larger
  <2>2. DurableAck => /\ durable'.acked = Len(frames)
                      /\ durable'.epoch = authority.epoch + 1
    BY <1>0, <1>10, <2>1 DEF ExpireLease, AckEpoch, IInv, LedgerMirrorsFence, Ledger
  <2>3. ControllerInSync'
    BY <1>0, <1>10, <2>1 DEF ExpireLease, AckEpoch, IInv, ControllerInSync, controller
  <2>4. QED
    BY <1>0, <1>10, <2>1, <2>2, <2>3, FenceRaised DEF ExpireLease, AckEpoch, stream
<1>11. CASE AbortSelf
  <2>1. /\ legs[active].epoch = authority.epoch
        /\ legs[active].next = Len(frames)
        /\ authority.epoch = controllerEpoch
        /\ detached = NoAuthority
    BY <1>0, <1>11 DEF AbortSelf, AckEpoch, ReportReachesController, IInv, ControllerInSync
  <2>2. authority' = [epoch |-> authority.epoch + 1, next |-> Len(frames)]
    BY <1>0, <1>11, <2>1 DEF AbortSelf, AckEpoch, RegisteredAuthority, Advanced, Larger
  <2>3. DurableAck => /\ durable'.acked = Len(frames)
                      /\ durable'.epoch = authority.epoch + 1
    <3>1. ASSUME DurableAck
          PROVE  durable' = [durable EXCEPT !.epoch = authority.epoch + 1]
      BY <1>11, <2>1, <3>1 DEF AbortSelf, AckEpoch
    <3>2. DurableAck => durable.acked = Len(frames)
      BY DEF IInv, LedgerMirrorsFence
    <3>3. QED
      BY <1>0, <3>1, <3>2 DEF Ledger
  <2>4. ControllerInSync'
    <3>1. /\ store' = [epoch |-> authority.epoch, seq |-> Len(frames)]
          /\ latestEpoch' = authority.epoch + 1
          /\ controllerEpoch' = authority.epoch + 1
          /\ detached' = NoAuthority
      BY <1>11, <2>1 DEF AbortSelf, AckEpoch
    <3>2. QED
      BY <1>0, <2>2, <3>1 DEF ControllerInSync
  <2>5. QED
    BY <1>0, <1>11, <2>2, <2>3, <2>4, FenceRaised DEF AbortSelf, AckEpoch, stream
<1>12. CASE CrashAndRestart
  <2>1. durable.acked = Len(frames) /\ durable.epoch = authority.epoch
    BY <1>12 DEF CrashAndRestart, IInv, LedgerMirrorsFence
  <2>2. /\ authority' = [epoch |-> authority.epoch + 1, next |-> Len(frames)]
        /\ durable' = [durable EXCEPT !.epoch = authority'.epoch]
    BY <1>12, <2>1 DEF CrashAndRestart
  <2>3. /\ durable'.acked = Len(frames)
        /\ durable'.epoch = authority.epoch + 1
    BY <1>0, <2>1, <2>2 DEF Ledger
  <2>4. ControllerInSync'
    BY <1>0, <1>12, <2>2 DEF CrashAndRestart, IInv, ControllerInSync
  <2>5. QED
    BY <1>0, <1>12, <2>1, <2>2, <2>3, <2>4, FenceRaised DEF CrashAndRestart, stream
<1>13. CASE UNCHANGED vars
  BY <1>13, QuietStep DEF vars, streamState
<1>14. QED
  BY <1>1, <1>2, <1>3, <1>4, <1>5, <1>6, <1>7, <1>8, <1>9, <1>10, <1>11, <1>12,
     <1>13 DEF Next, SelectorNext, LegNext

\* The inductive invariant, for every value of the constants.
THEOREM Invariance == Spec => []IInv
<1>1. Init /\ TypeOK => IInv
  BY InitIInv
<1>2. IInv /\ TypeOK' /\ [Next]_vars => IInv'
  BY StepIInv
<1>3. QED
  BY <1>1, <1>2, TypeCorrect, PTL DEF Spec

\* The user receives every position exactly once and in order.
THEOREM ExactlyOnce == Spec => []ExactlyOnceInOrder
<1>1. IInv => ExactlyOnceInOrder
  BY DEF IInv
<1>2. QED
  BY <1>1, Invariance, PTL

\* A superseded or orphaned leg never stands under the live fence.
THEOREM SupersededLegsStayFenced == Spec => []SupersededLegsFenced
<1>1. IInv => SupersededLegsFenced
  BY DEF IInv
<1>2. QED
  BY <1>1, Invariance, PTL

\* A restart finds the user's exact position and epoch in the durable ledger.
THEOREM LedgerIsCurrent == Spec => []LedgerMirrorsFence
<1>1. IInv => LedgerMirrorsFence
  BY DEF IInv
<1>2. QED
  BY <1>1, Invariance, PTL

\* No report the harness forwards can make the controller or the R2 store raise.
THEOREM ReportsNeverRaise == Spec => []AdvisoryReportNeverRaises
<1>1. IInv => AdvisoryReportNeverRaises
  <2> SUFFICES ASSUME IInv, ReportReachesController
               PROVE  AdvisoryReportNeverRaises
    BY DEF AdvisoryReportNeverRaises
  <2>1. /\ legs[active].epoch = authority.epoch
        /\ authority.epoch = controllerEpoch
        /\ controllerEpoch = latestEpoch
        /\ store.epoch < latestEpoch
        /\ detached = NoAuthority
        /\ controllerEpoch \in Nat
    BY DEF ReportReachesController, IInv, TypeOK, ControllerInSync
  <2>2. QED
    BY <2>1 DEF AdvisoryReportNeverRaises, ControllerAccepts, NewerThanStored,
                RegisteredAuthority
<1>2. QED
  BY <1>1, Invariance, PTL

-----------------------------------------------------------------------------

\* A step of the chain is a step of the fenced output stream, or stutters.
LEMMA StepRefines ==
    ASSUME IInv, [Next]_vars
    PROVE  [Promise!Next]_(Promise!streamVars)
<1> USE DEF Promise!streamVars
<1>0. /\ legs \in Seq(Leg) /\ authority \in Authority /\ durable \in Ledger
      /\ active \in 0..Len(legs) /\ frames \in Seq(Frame) /\ Len(legs) \in Nat
  BY DEF IInv, TypeOK
<1>1. ASSUME NEW owner \in OwnerSupports, NEW instance \in InstanceReports,
             NEW same \in BOOLEAN, Shake(owner, instance, same)
      PROVE  UNCHANGED Promise!streamVars
  BY <1>1 DEF Shake, stream, fenceVars
<1>2. ASSUME NEW view \in Views, NEW excluded \in SUBSET failedHosts,
             NEW timeout \in BOOLEAN, NEW error \in BOOLEAN,
             Select(view, excluded, timeout, error)
      PROVE  UNCHANGED Promise!streamVars
  BY <1>2 DEF Select, stream, fenceVars
<1>3. CASE CommitPrefill \/ RollbackPrefill \/ RejectDecode
  BY <1>3 DEF CommitPrefill, RollbackPrefill, RejectDecode, stream, fenceVars
<1>4. CASE AdmitDecode
  <2>1. Len(legs') = Len(legs) + 1
    BY <1>0, <1>4 DEF AdmitDecode, NewLeg
  <2>2. Promise!Grant
    BY <1>4, <2>1 DEF AdmitDecode, NewLeg, Promise!Grant, stream
  <2>3. QED
    BY <2>2 DEF Promise!Next
<1>5. ASSUME NEW l \in 1..Len(legs), NEW frame \in Frame,
             frame.epoch = legs[l].epoch, DeliverFrame(frame),
             Len(legs') = Len(legs)
      PROVE  [Promise!Next]_(Promise!streamVars)
  <2>0. /\ terminals' = terminals /\ terminals = <<>> /\ active' = active
    BY <1>5 DEF DeliverFrame, AckFrame, Finished
  <2>1. CASE UNCHANGED <<frames, authority>>
    BY <1>5, <2>0, <2>1
  <2>2. CASE /\ l = active
             /\ frames' = Append(frames, [epoch |-> authority.epoch,
                                          seq |-> Len(frames)])
             /\ authority' = [authority EXCEPT !.next = Len(frames) + 1]
    <3>1. authority'.epoch = authority.epoch
      BY <1>0, <2>2 DEF Authority
    <3>2. active # 0
      BY <1>5, <2>2
    <3>3. Promise!Write
      BY <1>5, <2>0, <2>2, <3>1, <3>2 DEF Promise!Write
    <3>4. QED
      BY <3>3 DEF Promise!Next
  <2>3. QED
    BY <1>5, <2>1, <2>2, FrameJudged
<1>6. ASSUME NEW l \in 1..Len(legs), Emit(l)
      PROVE  [Promise!Next]_(Promise!streamVars)
  <2>1. [epoch |-> legs[l].epoch, seq |-> legs[l].next] \in Frame
    BY <1>0, FrameOfLeg
  <2>2. Len(legs') = Len(legs)
    BY <1>0, <1>6 DEF Emit
  <2>3. QED
    BY <1>5, <1>6, <2>1, <2>2 DEF Emit
<1>7. ASSUME NEW l \in 1..Len(legs), NEW seq \in 0..(MaxOutput - 1),
             StrayFrame(l, seq)
      PROVE  [Promise!Next]_(Promise!streamVars)
  <2>1. [epoch |-> legs[l].epoch, seq |-> seq] \in Frame
    BY <1>0, LegFields, HarnessAssumption DEF Frame
  <2>2. QED
    BY <1>5, <1>7, <2>1 DEF StrayFrame
<1>8. ASSUME UNCHANGED <<frames, legs, terminals>>, active' = 0,
             authority'.epoch = authority.epoch + 1
      PROVE  [Promise!Next]_(Promise!streamVars)
  BY <1>8 DEF Promise!Next, Promise!Revoke
<1>9. CASE ExpireLease
  <2>1. authority'.epoch = authority.epoch + 1
    BY <1>9 DEF ExpireLease, AckEpoch, Advanced
  <2>2. QED
    BY <1>8, <1>9, <2>1 DEF ExpireLease, AckEpoch, stream
<1>10. CASE AbortSelf
  <2>1. legs[active].epoch = authority.epoch /\ detached = NoAuthority
    <3>1. controllerEpoch \in Nat
      BY DEF IInv, TypeOK
    <3>2. QED
      BY <1>10, <3>1 DEF AbortSelf, AckEpoch, ReportReachesController, IInv, ControllerInSync
  <2>2. authority'.epoch = authority.epoch + 1
    BY <1>10, <2>1 DEF AbortSelf, AckEpoch, RegisteredAuthority, Advanced
  <2>3. QED
    BY <1>8, <1>10, <2>2 DEF AbortSelf, AckEpoch, stream
<1>11. CASE CrashAndRestart
  <2>1. durable.epoch = authority.epoch
    BY <1>11 DEF CrashAndRestart, IInv, LedgerMirrorsFence
  <2>2. authority'.epoch = authority.epoch + 1
    BY <1>11, <2>1 DEF CrashAndRestart
  <2>3. QED
    BY <1>8, <1>11, <2>2 DEF CrashAndRestart, stream
<1>12. ASSUME NEW reason \in Reasons, Finish(reason)
       PROVE  [Promise!Next]_(Promise!streamVars)
  <2>1. terminals = <<>> /\ terminals' = <<reason>>
    <3>1. terminals = <<>> /\ terminals' = Append(terminals, reason)
      BY <1>12 DEF Finish, Finished
    <3>2. Append(<<>>, reason) = <<reason>>
      OBVIOUS
    <3>3. QED
      BY <3>1, <3>2
  <2>2. Promise!Close(reason)
    BY <1>12, <2>1 DEF Finish, Promise!Close, fenceVars
  <2>3. QED
    BY <2>2 DEF Promise!Next
<1>13. CASE UNCHANGED vars
  BY <1>13 DEF vars
<1>14. QED
  BY <1>1, <1>2, <1>3, <1>4, <1>6, <1>7, <1>9, <1>10, <1>11, <1>12, <1>13
     DEF Next, SelectorNext, LegNext

\* The chain implements the fenced output stream.
THEOREM Refinement == Spec => ImplementsPromise
<1>1. Init => Promise!Init
  BY DEF Init, Promise!Init
<1>2. IInv /\ [Next]_vars => [Promise!Next]_(Promise!streamVars)
  BY StepRefines
<1>3. QED
  BY <1>1, <1>2, Invariance, PTL DEF Spec, ImplementsPromise, Promise!Spec
-----------------------------------------------------------------------------
\* What the ledgers need besides their own soundness: hosts fail one at a time,
\* and a budget runs out only while no leg is active.
LedgerInv ==
    /\ IsFiniteSet(failedHosts)
    /\ RetryLedgerSound
    /\ Exhausted => active = 0

\* Nothing the ledger is about.
ledgerState == <<ledger, attempt, active>>

LEMMA InitLedgerInv == ASSUME Init PROVE LedgerInv
<1>1. IsFiniteSet({}) /\ Cardinality({}) = 0
  BY FS_EmptySet
<1>2. RetryBudget \in Nat
  BY HarnessAssumption
<1>3. QED
  BY <1>1, <1>2 DEF Init, LedgerInv, RetryLedgerSound, Exhausted, Larger

\* A step that leaves the ledger, the attempt and the legs' number alone.
LEMMA LedgerIdle ==
    ASSUME LedgerInv, UNCHANGED ledgerState, Len(legs') = Len(legs)
    PROVE  LedgerInv'
BY DEF LedgerInv, RetryLedgerSound, Exhausted, ledgerState, ledger

\* A leg ends: its attempt is over and nothing was charged for it.
LEMMA LedgerLegEnds ==
    ASSUME LedgerInv, TypeOK, active' = 0, attempt' = attempt + 1, legs' = legs,
           UNCHANGED <<retryUsed, failedHosts, budgetExhausted>>
    PROVE  LedgerInv'
<1>1. /\ retryUsed \in Nat /\ attempt \in Nat /\ Len(legs) \in Nat
  BY DEF TypeOK
<1>2. RetryLedgerSound'
  BY <1>1 DEF LedgerInv, RetryLedgerSound
<1>3. QED
  BY <1>2 DEF LedgerInv

\* A refusal is charged once, and the host that refused is at most one more.
LEMMA LedgerCharged ==
    ASSUME LedgerInv, TypeOK, RejectDecode
    PROVE  LedgerInv'
<1>1. /\ retryUsed \in Nat /\ attempt \in Nat /\ Len(legs) \in Nat
      /\ RetryBudget \in Nat /\ active = 0 /\ ~budgetExhausted
  BY HarnessAssumption DEF TypeOK, RejectDecode, Exhausted
<1>2. /\ retryUsed' = retryUsed + 1 /\ attempt' = attempt + 1
      /\ legs' = legs /\ active' = 0
  BY <1>1 DEF RejectDecode, Charged, fenceVars
<1>3. /\ IsFiniteSet(failedHosts)
      /\ Cardinality(failedHosts) <= retryUsed
      /\ retryUsed <= Larger(RetryBudget, 1)
      /\ budgetExhausted <=> retryUsed > 0 /\ retryUsed >= RetryBudget
      /\ retryUsed + Len(legs) <= attempt
  BY <1>1 DEF LedgerInv, RetryLedgerSound
<1>4. /\ IsFiniteSet(failedHosts')
      /\ Cardinality(failedHosts') <= retryUsed'
  <2>1. failedHosts' = failedHosts \cup {currentHost}
    BY DEF RejectDecode
  <2>2. /\ IsFiniteSet(failedHosts')
        /\ Cardinality(failedHosts') \in
               {Cardinality(failedHosts), Cardinality(failedHosts) + 1}
    BY <1>3, <2>1, FS_AddElement
  <2>3. Cardinality(failedHosts) \in Nat
    BY <1>3, FS_CardinalityType
  <2>4. QED
    BY <1>1, <1>2, <1>3, <2>2, <2>3
<1>5. retryUsed' <= Larger(RetryBudget, 1)
  BY <1>1, <1>2, <1>3 DEF Larger
<1>6. budgetExhausted' <=> retryUsed' > 0 /\ retryUsed' >= RetryBudget
  <2>1. budgetExhausted' <=> RetryBudget - retryUsed' <= 0
    BY DEF RejectDecode, BudgetSpent
  <2>2. RetryBudget - retryUsed' <= 0 <=> retryUsed' > 0 /\ retryUsed' >= RetryBudget
    BY <1>1, <1>2
  <2>3. QED
    BY <2>1, <2>2
<1>7. retryUsed' + Len(legs') <= attempt' + (IF active' = 0 THEN 0 ELSE 1)
  BY <1>1, <1>2, <1>3
<1>8. QED
  BY <1>2, <1>4, <1>5, <1>6, <1>7 DEF LedgerInv, RetryLedgerSound

LEMMA StepLedgerInv == ASSUME LedgerInv, TypeOK, [Next]_vars PROVE LedgerInv'
<1>0. legs \in Seq(Leg) /\ Len(legs) \in Nat /\ retryUsed \in Nat /\ attempt \in Nat
  BY DEF TypeOK
<1>1. CASE SelectorNext
  <2>1. UNCHANGED ledgerState /\ legs' = legs
    BY <1>1, ZenonT(40) DEF SelectorNext, Shake, Select, ledgerState
  <2>2. QED
    BY <2>1, LedgerIdle
<1>2. CASE CommitPrefill \/ RollbackPrefill \/ \E reason \in Reasons : Finish(reason)
  <2>1. UNCHANGED ledgerState /\ legs' = legs
    BY <1>2 DEF CommitPrefill, RollbackPrefill, Finish, ledgerState
  <2>2. QED
    BY <2>1, LedgerIdle
<1>3. CASE AdmitDecode
  <2>1. /\ active = 0 /\ active' = Len(legs) + 1 /\ UNCHANGED <<ledger, attempt>>
        /\ legs' = Append(legs, NewLeg) /\ ~Exhausted
    BY <1>3 DEF AdmitDecode
  <2>2. Len(legs') = Len(legs) + 1
    BY <1>0, <2>1
  <2>3. QED
    BY <1>0, <2>1, <2>2 DEF LedgerInv, RetryLedgerSound, Exhausted, ledger
<1>4. CASE RejectDecode
  BY <1>4, LedgerCharged
<1>5. CASE LegNext
  <2>1. UNCHANGED ledgerState
    BY <1>5 DEF LegNext, Emit, StrayFrame, DeliverFrame, ledgerState
  <2>2. Len(legs') = Len(legs)
    <3>1. legs' = legs \/ \E l \in 1..Len(legs) : legs' = [legs EXCEPT ![l].next = @ + 1]
      BY <1>5 DEF LegNext, Emit, StrayFrame
    <3>2. QED
      BY <1>0, <3>1
  <2>3. QED
    BY <2>1, <2>2, LedgerIdle
<1>6. CASE ExpireLease
  BY <1>6, LedgerLegEnds DEF ExpireLease
<1>7. CASE AbortSelf
  BY <1>7, LedgerLegEnds DEF AbortSelf, ledger
<1>8. CASE CrashAndRestart
  BY <1>8, LedgerLegEnds DEF CrashAndRestart, ledger
<1>9. CASE UNCHANGED vars
  BY <1>9, LedgerIdle DEF vars, ledgerState, ledger
<1>10. QED
  BY <1>1, <1>2, <1>3, <1>4, <1>5, <1>6, <1>7, <1>8, <1>9 DEF Next

\* The ledger's strengthened invariant holds of every step of the harness.
THEOREM LedgerInvariance == Spec => []LedgerInv
<1>1. Init => LedgerInv
  BY InitLedgerInv
<1>2. LedgerInv /\ TypeOK /\ [Next]_vars => LedgerInv'
  BY StepLedgerInv
<1>3. QED
  BY <1>1, <1>2, TypeCorrect, PTL DEF Spec

\* The retry ledger is charged by refusals alone, within its budget, and every
\* attempt beyond the legs admitted was one of them or a restart.
THEOREM RetriesAreAccounted == Spec => []RetryLedgerSound
<1>1. LedgerInv => RetryLedgerSound
  BY DEF LedgerInv
<1>2. QED
  BY <1>1, LedgerInvariance, PTL
-----------------------------------------------------------------------------
\* The steps of ExhaustionOnlyEndsInError.
EndsInError ==
    budgetExhausted \/ roundsExhausted =>
        /\ budgetExhausted' \/ roundsExhausted'
        /\ frames' = frames
        /\ Len(legs') = Len(legs)
        /\ retryUsed' = retryUsed
        /\ currentHost' \in {currentHost, NoHost}
        /\ terminals' \in {terminals, <<"ERROR">>}

LEMMA StepEndsInError ==
    ASSUME IInv, LedgerInv, [Next]_vars
    PROVE  EndsInError
<1> SUFFICES ASSUME Exhausted
             PROVE  /\ Exhausted' /\ frames' = frames
                    /\ Len(legs') = Len(legs) /\ retryUsed' = retryUsed
                    /\ currentHost' \in {currentHost, NoHost}
                    /\ terminals' \in {terminals, <<"ERROR">>}
  BY DEF EndsInError, Exhausted
<1>0. legs \in Seq(Leg) /\ Len(legs) \in Nat /\ active = 0
  BY DEF IInv, TypeOK, LedgerInv
<1>1. CASE SelectorNext
  BY <1>1, ZenonT(40) DEF SelectorNext, Shake, Select, Exhausted, stream, pending, ledger
<1>2. CASE RollbackPrefill
  BY <1>2 DEF RollbackPrefill, Exhausted, stream, ledger
<1>3. ASSUME NEW reason \in Reasons, Finish(reason)
      PROVE  /\ Exhausted' /\ frames' = frames
             /\ Len(legs') = Len(legs) /\ retryUsed' = retryUsed
             /\ currentHost' \in {currentHost, NoHost}
             /\ terminals' \in {terminals, <<"ERROR">>}
  <2>1. terminals = <<>> /\ terminals' = Append(terminals, "ERROR")
    BY <1>3 DEF Finish, Finished
  <2>2. terminals' = <<"ERROR">>
    BY <2>1
  <2>3. QED
    BY <1>3, <2>2 DEF Finish, Exhausted, pending, ledger
<1>4. ASSUME NEW l \in 1..Len(legs), NEW frame \in Frame,
             frame.epoch = legs[l].epoch, DeliverFrame(frame),
             Len(legs') = Len(legs)
      PROVE  /\ Exhausted' /\ frames' = frames
             /\ Len(legs') = Len(legs) /\ retryUsed' = retryUsed
             /\ currentHost' \in {currentHost, NoHost}
             /\ terminals' \in {terminals, <<"ERROR">>}
  <2>1. frames' = frames
    BY <1>0, <1>4, FrameJudged
  <2>2. QED
    BY <1>4, <2>1 DEF DeliverFrame, Exhausted, pending, ledger
<1>5. CASE LegNext
  <2>1. PICK l \in 1..Len(legs) :
            Emit(l) \/ \E seq \in 0..(MaxOutput - 1) : StrayFrame(l, seq)
    BY <1>5 DEF LegNext
  <2>2. CASE Emit(l)
    <3>1. [epoch |-> legs[l].epoch, seq |-> legs[l].next] \in Frame
      BY <1>0, FrameOfLeg
    <3>2. Len(legs') = Len(legs)
      BY <1>0, <2>2 DEF Emit
    <3>3. QED
      BY <1>4, <2>2, <3>1, <3>2 DEF Emit
  <2>3. ASSUME NEW seq \in 0..(MaxOutput - 1), StrayFrame(l, seq)
        PROVE  /\ Exhausted' /\ frames' = frames
               /\ Len(legs') = Len(legs) /\ retryUsed' = retryUsed
               /\ currentHost' \in {currentHost, NoHost}
               /\ terminals' \in {terminals, <<"ERROR">>}
    <3>1. [epoch |-> legs[l].epoch, seq |-> seq] \in Frame
      BY <1>0, LegFields, HarnessAssumption DEF Frame
    <3>2. QED
      BY <1>4, <2>3, <3>1 DEF StrayFrame
  <2>4. QED
    BY <2>1, <2>2, <2>3
<1>6. CASE CrashAndRestart
  BY <1>6 DEF CrashAndRestart, Exhausted, stream, ledger
<1>7. CASE UNCHANGED vars
  BY <1>7 DEF vars, Exhausted
<1>8. ~CommitPrefill /\ ~AdmitDecode /\ ~RejectDecode /\ ~ExpireLease /\ ~AbortSelf
  BY <1>0 DEF CommitPrefill, AdmitDecode, RejectDecode, ExpireLease, AbortSelf,
              ReportReachesController
<1>9. QED
  BY <1>1, <1>2, <1>3, <1>5, <1>6, <1>7, <1>8 DEF Next

\* Once a budget is exhausted the user gets nothing more but one ERROR, and no
\* restart lifts it.
THEOREM ExhaustionEnds == Spec => ExhaustionOnlyEndsInError
<1>1. IInv /\ LedgerInv /\ [Next]_vars => [EndsInError]_vars
  BY StepEndsInError
<1>2. QED
  BY <1>1, Invariance, LedgerInvariance, PTL
  DEF Spec, ExhaustionOnlyEndsInError, EndsInError
-----------------------------------------------------------------------------
\* The steps of AppliedViewsNeverRegress.
ViewsAdvance ==
    /\ appliedEpoch' # appliedEpoch => appliedEpoch' >= lastViewEpoch
    /\ lastViewEpoch' >= lastViewEpoch

LEMMA StepViewsAdvance == ASSUME TypeOK, [Next]_vars PROVE ViewsAdvance
<1>0. lastViewEpoch \in Int
  BY DEF TypeOK
<1>1. ASSUME NEW view \in Views, NEW excluded \in SUBSET failedHosts,
             NEW timeout \in BOOLEAN, NEW error \in BOOLEAN,
             Select(view, excluded, timeout, error)
      PROVE  ViewsAdvance
  <2>1. view.epoch \in Nat
    BY ViewTypes
  <2>2. lastViewEpoch' >= lastViewEpoch
    BY <1>0, <1>1, <2>1 DEF Select, Larger
  <2>3. \/ appliedEpoch' = appliedEpoch
        \/ appliedEpoch' = view.epoch /\ ~(view.epoch < lastViewEpoch)
    BY <1>1 DEF Select, FinalizeSelection, FailsOpen
  <2>4. QED
    BY <1>0, <2>1, <2>2, <2>3 DEF ViewsAdvance
<1>2. ASSUME NEW owner \in OwnerSupports, NEW instance \in InstanceReports,
             NEW same \in BOOLEAN, Shake(owner, instance, same)
      PROVE  ViewsAdvance
  BY <1>0, <1>2 DEF Shake, ViewsAdvance
<1>3. CASE UNCHANGED <<lastViewEpoch, appliedEpoch>>
  BY <1>0, <1>3 DEF ViewsAdvance
<1>4. CASE LegNext
  <2>1. UNCHANGED selector
    BY <1>4 DEF LegNext, Emit, StrayFrame, DeliverFrame
  <2>2. QED
    BY <1>3, <2>1 DEF selector
<1>5. CASE \/ CommitPrefill \/ RollbackPrefill \/ AdmitDecode \/ RejectDecode
           \/ ExpireLease \/ AbortSelf \/ CrashAndRestart
           \/ \E reason \in Reasons : Finish(reason)
  <2>1. UNCHANGED selector
    BY <1>5 DEF CommitPrefill, RollbackPrefill, AdmitDecode, RejectDecode,
                ExpireLease, AbortSelf, CrashAndRestart, Finish
  <2>2. QED
    BY <1>3, <2>1 DEF selector
<1>6. CASE UNCHANGED vars
  BY <1>3, <1>6 DEF vars
<1>7. QED
  BY <1>1, <1>2, <1>4, <1>5, <1>6 DEF Next, SelectorNext

\* A selector decision never rests on a map older than one the owner was asked
\* with before.
THEOREM SelectionsNeverRegress == Spec => AppliedViewsNeverRegress
<1>1. TypeOK /\ [Next]_vars => [ViewsAdvance]_vars
  BY StepViewsAdvance
<1>2. QED
  BY <1>1, TypeCorrect, PTL DEF Spec, AppliedViewsNeverRegress, ViewsAdvance
=============================================================================
