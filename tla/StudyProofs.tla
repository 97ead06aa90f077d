---------------------------- MODULE StudyProofs ----------------------------
(* Proofs about the studies of PhaseStudies: for every value of the         *)
(* constants, a lifecycle's bookings are honest, a placement keeps what it  *)
(* promised, affinity gives way only under load, a sizing verdict is one of *)
(* what ran, and the tiers of the KVS replay are sound.  The studies share  *)
(* no state, so each has an invariant of its own.                           *)
EXTENDS PhaseStudies, SumTheorems, SequenceTheorems, TLAPS

-----------------------------------------------------------------------------
\* The request lifecycle.

\* The node that is free first is one of them.
LEMMA EarliestIs ==
    ASSUME NEW n \in Nat \ {0}, NEW busy \in [1..n -> Int]
    PROVE  Earliest(busy) \in 1..n
<1>1. IsFiniteSet(1..n) /\ 1..n # {} /\ 1..n \subseteq Int
  <2>1. IsFiniteSet(1..n)
    BY FS_Interval
  <2>2. 1 \in 1..n
    OBVIOUS
  <2> QED  BY <2>1, <2>2
<1>2. \E j \in 1..n : \A k \in 1..n \ {j} :
          busy[j] < busy[k] \/ (busy[j] = busy[k] /\ j < k)
  BY <1>1, LeastScoreExists
<1>3. PICK i \in 1..n : \A k \in 1..n \ {i} :
          busy[i] < busy[k] \/ (busy[i] = busy[k] /\ i < k)
  BY <1>2
<1>4. DOMAIN busy = 1..n
  OBVIOUS
<1> DEFINE IsFirst(j) == \A k \in DOMAIN busy \ {j} :
               busy[j] < busy[k] \/ (busy[j] = busy[k] /\ j < k)
<1>5. i \in DOMAIN busy /\ IsFirst(i)
  BY <1>3, <1>4
<1>6. Earliest(busy) = CHOOSE j \in DOMAIN busy : IsFirst(j)
  BY DEF Earliest
<1> HIDE DEF IsFirst
<1>7. Earliest(busy) \in DOMAIN busy
  BY <1>5, <1>6
<1> QED  BY <1>4, <1>7

Outcomes == {"rejected", "rolled_back", "failed", "cut", "strict", "lenient"}
Asked == [arrival : LifeArrival, input : LifeInput, output : LifeOutput, tier : Tier]
Times == [pstart : Int, pfinish : Int, dstart : Int, hold : Int, finish : Int]
Entry == [request : Asked, outcome : Outcomes, timeline : Times, prefill : 1..LifePrefill,
          decode : 1..LifeDecode, emitted : Int, until : Int]

\* The deadlines are not negative.
LEMMA DeadlineIs ==
    ASSUME NEW q \in Asked
    PROVE  /\ q.arrival \in Int /\ q.input * PrefillCost \in Nat /\ q.output * DecodeCost \in Nat
           /\ q.output \in Nat /\ TtftDeadline(q) \in Nat /\ Deadline(q) \in Nat
<1>1. /\ q.arrival \in Int /\ q.input \in Nat /\ q.output \in Nat /\ q.tier \in Tier
      /\ PrefillCost \in Nat /\ DecodeCost \in Nat
  BY LifecycleAssumption DEF Asked
<1>2. PICK p \in Nat : p = q.input * PrefillCost
  BY <1>1
<1>3. PICK d \in Nat : d = q.output * DecodeCost
  BY <1>1
<1>4. PICK m \in Nat : m = Multiplier[q.tier]
  BY <1>1 DEF Multiplier, Tier
<1>5. p * m \in Nat /\ d * m \in Nat
  BY <1>2, <1>3, <1>4
<1>6. (p * m) \div 2 \in Nat /\ (d * m) \div 2 \in Nat
  BY <1>5
<1> QED  BY <1>1, <1>2, <1>3, <1>4, <1>6 DEF TtftDeadline, Deadline

Latest(x, y) == Max({x, y})

\* A node works for a request no sooner than it is free, and until it is done.
LEMMA TimelineIs ==
    ASSUME NEW q \in Asked, NEW pat \in Int, NEW dat \in Int,
           NEW t, t = Timeline(q, pat, dat)
    PROVE  /\ t \in Times
           /\ pat <= t.pstart /\ t.pstart <= t.pfinish /\ t.pfinish <= t.dstart
           /\ DecodeFirst => dat <= t.pstart
           /\ dat <= t.dstart
           /\ t.dstart + q.output * DecodeCost <= t.finish
           /\ protocol # "P4_KVS_DECOUPLED" => t.finish = t.dstart + q.output * DecodeCost
           /\ protocol = "P2_GATED_PD" =>
                 /\ t.pfinish = Latest(q.arrival, pat) + ProbeCost + q.input * PrefillCost
                 /\ t.dstart = Latest(t.pfinish, dat)
<1>1. PICK a \in Int : a = q.arrival
  BY DeadlineIs
<1>2. PICK prefill \in Nat : prefill = q.input * PrefillCost
  BY DeadlineIs
<1>3. PICK decode \in Nat : decode = q.output * DecodeCost
  BY DeadlineIs
<1>4. ProbeCost \in Nat /\ PutWork \in Nat /\ PullWork \in Nat
  BY LifecycleAssumption
<1>5. PICK probe \in Nat : probe = IF Gated THEN ProbeCost ELSE 0
  BY <1>4
<1>6. PICK put \in Nat : put = IF protocol = "P4_KVS_DECOUPLED" THEN PutWork ELSE 0
  BY <1>4
<1>7. PICK pull \in Nat : pull = IF protocol = "P4_KVS_DECOUPLED" THEN PullWork ELSE 0
  BY <1>4
<1>8. PICK two : two = Max({a, pat})
  OBVIOUS
<1>9. two \in Int /\ a <= two /\ pat <= two
  BY <1>8, MaxOfTwo
<1>10. PICK three : three = Max({a, pat, dat})
  OBVIOUS
<1>11. three \in Int /\ a <= three /\ pat <= three /\ dat <= three
  <2>1. \E m \in {a, pat, dat} : \A n \in {a, pat, dat} : m >= n
    BY a <= pat \/ pat <= a, a <= dat \/ dat <= a, pat <= dat \/ dat <= pat
  <2>2. three \in {a, pat, dat} /\ \A n \in {a, pat, dat} : three >= n
    BY <1>10, <2>1 DEF Max
  <2> QED  BY <2>2
<1>12. PICK pstart \in Int : pstart = IF DecodeFirst THEN three + probe ELSE two + probe
  BY <1>9, <1>11
<1>13. PICK pfinish \in Int : pfinish = pstart + prefill + put
  OBVIOUS
<1>14. PICK later : later = Max({pfinish, dat})
  OBVIOUS
<1>15. later \in Int /\ pfinish <= later /\ dat <= later
  BY <1>14, MaxOfTwo
<1>16. PICK dstart \in Int : dstart = IF DecodeFirst THEN pfinish ELSE later
  BY <1>15
<1>17. PICK hold \in Int : hold = IF DecodeFirst THEN prefill ELSE dstart - pfinish
  BY <1>2, <1>13, <1>16
<1>18. t = [pstart |-> pstart, pfinish |-> pfinish, dstart |-> dstart, hold |-> hold,
            finish |-> dstart + pull + decode]
  BY <1>1, <1>2, <1>3, <1>5, <1>6, <1>7, <1>8, <1>10, <1>12, <1>13, <1>14, <1>16, <1>17
     DEF Timeline
<1>19. t \in Times
  BY <1>18 DEF Times
<1>20. /\ t.pstart = pstart /\ t.pfinish = pfinish /\ t.dstart = dstart
       /\ t.finish = dstart + pull + decode
  BY <1>18
<1>21. pat <= pstart /\ pstart <= pfinish /\ pfinish <= dstart
  BY <1>9, <1>11, <1>12, <1>13, <1>15, <1>16
<1>22. (DecodeFirst => dat <= pstart) /\ dat <= dstart
  BY <1>11, <1>12, <1>13, <1>15, <1>16
<1>23. protocol # "P4_KVS_DECOUPLED" => pull = 0
  BY <1>7
<1>24. protocol = "P2_GATED_PD" =>
          /\ pfinish = two + ProbeCost + prefill
          /\ dstart = later
  BY <1>4, <1>5, <1>6, <1>9, <1>12, <1>13, <1>16 DEF Gated, DecodeFirst
<1>25. dstart + decode <= dstart + pull + decode /\ (pull = 0 => dstart + pull + decode = dstart + decode)
  OBVIOUS
<1>26. two = Latest(q.arrival, pat) /\ later = Latest(t.pfinish, dat)
  BY <1>1, <1>8, <1>14, <1>20 DEF Latest
<1> QED  BY <1>1, <1>2, <1>3, <1>19, <1>20, <1>21, <1>22, <1>23, <1>24, <1>25, <1>26

\* A node has been booked up to the time it is free, and never twice at once.
LifeInv ==
    /\ pbusy \in [1..LifePrefill -> Int] /\ dbusy \in [1..LifeDecode -> Int]
    /\ records \in Seq(Entry)
    /\ \A i \in DOMAIN records :
          /\ records[i].outcome # "rejected" =>
                records[i].timeline.pfinish <= pbusy[records[i].prefill]
          /\ records[i].outcome \notin {"rejected", "failed"} =>
                records[i].until <= dbusy[records[i].decode]
    /\ BookingsAreHonest

\* What a new record adds, when the nodes were free and the request is honest.
Books(p, d, r) ==
    /\ pbusy[p] <= r.timeline.pstart /\ r.timeline.pfinish <= pbusy'[p] /\ pbusy[p] <= pbusy'[p]
    /\ r.outcome # "failed" =>
          /\ dbusy[d] <= IF DecodeFirst THEN r.timeline.pstart ELSE r.timeline.dstart
          /\ r.until <= dbusy'[d]
    /\ dbusy[d] <= dbusy'[d]

Fair(r) ==
    /\ protocol = "P2_GATED_PD" /\ r.request.tier # "STRICT" => r.outcome # "cut"
    /\ protocol # "P4_KVS_DECOUPLED" /\ r.emitted > 0 =>
          /\ r.timeline.dstart + r.emitted * DecodeCost <= r.until
          /\ r.until <= r.request.arrival + Deadline(r.request)

\* Whoever books a node when it is free, and is served fairly, keeps the books.
LEMMA BookedKeeps ==
    ASSUME LifeInv, UNCHANGED protocol,
           NEW r \in Entry, records' = Append(records, r),
           NEW p \in 1..LifePrefill, NEW d \in 1..LifeDecode, r.prefill = p, r.decode = d,
           pbusy' \in [1..LifePrefill -> Int], dbusy' \in [1..LifeDecode -> Int],
           \A n \in 1..LifePrefill \ {p} : pbusy'[n] = pbusy[n],
           \A n \in 1..LifeDecode \ {d} : dbusy'[n] = dbusy[n],
           IF r.outcome = "rejected" THEN pbusy' = pbusy /\ dbusy' = dbusy ELSE Books(p, d, r),
           Fair(r)
    PROVE  LifeInv'
<1>1. PICK n \in Nat : n = Len(records) /\ DOMAIN records = 1..n
  BY DEF LifeInv
<1>2. /\ records' \in Seq(Entry) /\ DOMAIN records' = 1..(n + 1)
      /\ \A i \in 1..n : records'[i] = records[i]
      /\ records'[n + 1] = r
  BY <1>1 DEF LifeInv
<1>3. \A i \in 1..n : records[i] \in Entry
  BY <1>1 DEF LifeInv
<1>4. \A i \in 1..n : /\ records[i].prefill \in 1..LifePrefill /\ records[i].decode \in 1..LifeDecode
                      /\ records[i].until \in Int /\ records[i].timeline.pfinish \in Int
                      /\ records[i].timeline.pstart \in Int /\ records[i].timeline.dstart \in Int
  BY <1>3 DEF Entry, Times
<1>5. /\ r.until \in Int /\ r.timeline.pfinish \in Int
      /\ r.timeline.pstart \in Int /\ r.timeline.dstart \in Int
  BY DEF Entry, Times
<1>6. (DecodeFirst <=> DecodeFirst')
  BY DEF DecodeFirst
<1>7. /\ \A k \in 1..LifePrefill : pbusy[k] <= pbusy'[k] /\ pbusy[k] \in Int /\ pbusy'[k] \in Int
      /\ \A k \in 1..LifeDecode : dbusy[k] <= dbusy'[k] /\ dbusy[k] \in Int /\ dbusy'[k] \in Int
  <2>1. ASSUME NEW k \in 1..LifePrefill
        PROVE  pbusy[k] <= pbusy'[k] /\ pbusy[k] \in Int /\ pbusy'[k] \in Int
    BY DEF LifeInv, Books
  <2>2. ASSUME NEW k \in 1..LifeDecode
        PROVE  dbusy[k] <= dbusy'[k] /\ dbusy[k] \in Int /\ dbusy'[k] \in Int
    BY DEF LifeInv, Books
  <2> QED  BY <2>1, <2>2
<1>8. ASSUME NEW i \in DOMAIN records'
      PROVE  /\ records'[i].outcome # "rejected" =>
                   records'[i].timeline.pfinish <= pbusy'[records'[i].prefill]
             /\ records'[i].outcome \notin {"rejected", "failed"} =>
                   records'[i].until <= dbusy'[records'[i].decode]
  <2>1. CASE i \in 1..n
    <3>1. /\ records[i].outcome # "rejected" =>
                records[i].timeline.pfinish <= pbusy[records[i].prefill]
          /\ records[i].outcome \notin {"rejected", "failed"} =>
                records[i].until <= dbusy[records[i].decode]
      BY <1>1, <2>1 DEF LifeInv
    <3>2. /\ pbusy[records[i].prefill] <= pbusy'[records[i].prefill]
          /\ dbusy[records[i].decode] <= dbusy'[records[i].decode]
          /\ pbusy[records[i].prefill] \in Int /\ pbusy'[records[i].prefill] \in Int
          /\ dbusy[records[i].decode] \in Int /\ dbusy'[records[i].decode] \in Int
      BY <1>4, <1>7, <2>1
    <3>3. records[i].until \in Int /\ records[i].timeline.pfinish \in Int
      BY <1>4, <2>1
    <3>4. records'[i] = records[i]
      BY <1>2, <2>1
    <3>5. records[i].outcome # "rejected" =>
             records[i].timeline.pfinish <= pbusy'[records[i].prefill]
      BY <3>1, <3>2, <3>3, SMTT(30)
    <3>6. records[i].outcome \notin {"rejected", "failed"} =>
             records[i].until <= dbusy'[records[i].decode]
      BY <3>1, <3>2, <3>3
    <3> QED  BY <3>4, <3>5, <3>6
  <2>2. CASE i = n + 1
    BY <1>2, <2>2 DEF Books
  <2> QED  BY <1>2, <2>1, <2>2
<1>9. NodesServeOneAtATime'
  <2> DEFINE held(s) == IF DecodeFirst THEN s.timeline.pstart ELSE s.timeline.dstart
             Apart(s, t) == /\ s.prefill = t.prefill => s.timeline.pfinish <= t.timeline.pstart
                            /\ s.decode = t.decode /\ s.outcome # "failed" /\ t.outcome # "failed"
                               => s.until <= held(t)
  <2>1. \A j \in 1..n : \A i \in 1..(j - 1) :
           records[j].outcome # "rejected" /\ records[i].outcome # "rejected"
           => Apart(records[i], records[j])
    <3>1. NodesServeOneAtATime
      BY DEF LifeInv, BookingsAreHonest
    <3>2. ASSUME NEW j \in 1..n, NEW i \in 1..(j - 1),
                 records[j].outcome # "rejected", records[i].outcome # "rejected"
          PROVE  Apart(records[i], records[j])
      <4>1. j \in DOMAIN records /\ i \in DOMAIN records
        BY <1>1
      <4> QED  BY <3>1, <3>2, <4>1 DEF NodesServeOneAtATime
    <3> QED  BY <3>2
  <2>2. ASSUME NEW i \in 1..n, r.outcome # "rejected", records[i].outcome # "rejected"
        PROVE  Apart(records[i], r)
    <3>1. Books(p, d, r)
      BY <2>2
    <3>2. records[i].prefill = p => records[i].timeline.pfinish <= pbusy[p]
      BY <1>1, <2>2 DEF LifeInv
    <3>3. records[i].decode = d /\ records[i].outcome # "failed" => records[i].until <= dbusy[d]
      BY <1>1, <2>2 DEF LifeInv
    <3>4. pbusy[p] \in Int /\ dbusy[d] \in Int
      BY <1>7
    <3>5. pbusy[p] <= r.timeline.pstart
      BY <3>1 DEF Books
    <3>6. r.outcome # "failed" => dbusy[d] <= held(r) /\ held(r) \in Int
      BY <1>5, <3>1 DEF Books
    <3>7. records[i].timeline.pfinish \in Int /\ records[i].until \in Int /\ r.timeline.pstart \in Int
      BY <1>4, <1>5
    <3>8. records[i].prefill = p => records[i].timeline.pfinish <= r.timeline.pstart
      BY <3>2, <3>4, <3>5, <3>7
    <3> HIDE DEF held
    <3>9. records[i].decode = d /\ records[i].outcome # "failed" /\ r.outcome # "failed"
          => records[i].until <= held(r)
      BY <3>3, <3>4, <3>6, <3>7
    <3> QED  BY <3>8, <3>9
  <2>3. ASSUME NEW j \in 1..(n + 1), NEW i \in 1..(j - 1),
               records'[j].outcome # "rejected", records'[i].outcome # "rejected"
        PROVE  Apart(records'[i], records'[j])
    <3> HIDE DEF Apart
    <3>1. CASE j \in 1..n
      <4>1. i \in 1..n
        BY <3>1
      <4> QED  BY <1>2, <2>1, <2>3, <3>1, <4>1
    <3>2. CASE j = n + 1
      <4>1. i \in 1..n
        BY <3>2
      <4> QED  BY <1>2, <2>2, <2>3, <3>2, <4>1
    <3>3. j \in 1..n \/ j = n + 1
      BY <1>1, SMTT(30)
    <3> QED  BY <3>1, <3>2, <3>3
  <2>4. \A j \in 1..(n + 1) : \A i \in 1..(j - 1) :
           records'[j].outcome # "rejected" /\ records'[i].outcome # "rejected"
           => /\ records'[i].prefill = records'[j].prefill =>
                    records'[i].timeline.pfinish <= records'[j].timeline.pstart
              /\ /\ records'[i].decode = records'[j].decode
                 /\ records'[i].outcome # "failed" /\ records'[j].outcome # "failed"
                 => records'[i].until <= IF DecodeFirst' THEN records'[j].timeline.pstart
                                         ELSE records'[j].timeline.dstart
    BY <1>6, <2>3
  <2> HIDE DEF held, Apart
  <2> QED  BY <1>2, <2>4 DEF NodesServeOneAtATime
<1>10. GateKeepsItsPromise'
  <2>1. GateKeepsItsPromise
    BY DEF LifeInv, BookingsAreHonest
  <2> QED  BY <1>1, <1>2, <2>1 DEF GateKeepsItsPromise, Fair
<1>11. TokensFitTheNode'
  <2>1. TokensFitTheNode
    BY DEF LifeInv, BookingsAreHonest
  <2>2. SUFFICES ASSUME protocol # "P4_KVS_DECOUPLED", NEW i \in 1..(n + 1), records'[i].emitted > 0
                 PROVE  /\ records'[i].timeline.dstart + records'[i].emitted * DecodeCost <= records'[i].until
                        /\ records'[i].until <= records'[i].request.arrival + Deadline(records'[i].request)
    BY <1>2 DEF TokensFitTheNode, Deadline, TtftDeadline
  <2>3. CASE i \in 1..n
    BY <1>1, <1>2, <2>1, <2>2, <2>3 DEF TokensFitTheNode
  <2>4. CASE i = n + 1
    BY <1>2, <2>2, <2>4 DEF Fair
  <2> QED  BY <1>2, <2>2, <2>3, <2>4
<1> QED  BY <1>2, <1>8, <1>9, <1>10, <1>11 DEF LifeInv, BookingsAreHonest

\* What a record holds.
LEMMA RecordIs ==
    ASSUME NEW q \in Asked, NEW ending \in Outcomes, NEW t \in Times,
           NEW p \in 1..LifePrefill, NEW d \in 1..LifeDecode, NEW emitted \in Int, NEW until \in Int,
           NEW r, r = Record(q, ending, t, p, d, emitted, until)
    PROVE  /\ r \in Entry
           /\ r.request = q /\ r.outcome = ending /\ r.timeline = t /\ r.prefill = p
           /\ r.decode = d /\ r.emitted = emitted /\ r.until = until
BY DEF Record, Entry

\* A request that is refused books nothing.
LEMMA RejectKeeps ==
    ASSUME LifeInv, UNCHANGED protocol, NEW q \in Asked,
           NEW p \in 1..LifePrefill, NEW d \in 1..LifeDecode, Reject(q, p, d)
    PROVE  LifeInv'
<1>1. NoTimeline \in Times /\ "rejected" \in Outcomes
  BY DEF NoTimeline, Times, Outcomes
<1>2. PICK r : r = Record(q, "rejected", NoTimeline, p, d, 0, 0)
  OBVIOUS
<1>3. r \in Entry /\ r.outcome = "rejected" /\ r.prefill = p /\ r.decode = d /\ r.emitted = 0
  BY <1>1, <1>2, RecordIs
<1>4. records' = Append(records, r) /\ pbusy' = pbusy /\ dbusy' = dbusy
  BY <1>2 DEF Reject
<1>5. Fair(r)
  BY <1>3 DEF Fair
<1>6. pbusy' \in [1..LifePrefill -> Int] /\ dbusy' \in [1..LifeDecode -> Int]
  BY <1>4 DEF LifeInv
<1> QED  BY <1>3, <1>4, <1>5, <1>6, BookedKeeps

\* The nodes after they were booked.
LEMMA FreedLater ==
    ASSUME NEW n \in Nat, NEW busy \in [1..n -> Int], NEW p \in 1..n, NEW v \in Int
    PROVE  /\ [busy EXCEPT ![p] = v] \in [1..n -> Int]
           /\ [busy EXCEPT ![p] = v][p] = v
           /\ \A k \in 1..n \ {p} : [busy EXCEPT ![p] = v][k] = busy[k]
OBVIOUS

\* A rollback books both nodes until the prefill ends.
LEMMA RollbackKeeps ==
    ASSUME LifeInv, UNCHANGED protocol, NEW q \in Asked,
           NEW p \in 1..LifePrefill, NEW d \in 1..LifeDecode,
           NEW t, t = Timeline(q, pbusy[p], dbusy[d]), Rollback(q, p, d, t)
    PROVE  LifeInv'
<1>1. /\ pbusy[p] \in Int /\ dbusy[d] \in Int /\ LifePrefill \in Nat /\ LifeDecode \in Nat
      /\ pbusy \in [1..LifePrefill -> Int] /\ dbusy \in [1..LifeDecode -> Int]
  BY LifecycleAssumption DEF LifeInv
<1>2. /\ t \in Times /\ pbusy[p] <= t.pstart /\ t.pstart <= t.pfinish
      /\ DecodeFirst => dbusy[d] <= t.pstart
  BY <1>1, TimelineIs
<1>3. t.pstart \in Int /\ t.pfinish \in Int
  BY <1>2 DEF Times
<1>4. PICK r : r = Record(q, "rolled_back", t, p, d, 0, t.pfinish)
  OBVIOUS
<1>5. "rolled_back" \in Outcomes
  BY DEF Outcomes
<1>6. /\ r \in Entry /\ r.outcome = "rolled_back" /\ r.timeline = t /\ r.prefill = p
      /\ r.decode = d /\ r.emitted = 0 /\ r.until = t.pfinish
  BY <1>2, <1>3, <1>4, <1>5, RecordIs
<1>7. DecodeFirst
  BY DEF Rollback, DecodeFirst
<1>8. /\ pbusy' \in [1..LifePrefill -> Int] /\ pbusy'[p] = t.pfinish
      /\ \A k \in 1..LifePrefill \ {p} : pbusy'[k] = pbusy[k]
  BY <1>1, <1>3, FreedLater DEF Rollback
<1>9. /\ dbusy' \in [1..LifeDecode -> Int] /\ dbusy'[d] = t.pfinish
      /\ \A k \in 1..LifeDecode \ {d} : dbusy'[k] = dbusy[k]
  BY <1>1, <1>3, FreedLater DEF Rollback
<1>10. Books(p, d, r)
  BY <1>1, <1>2, <1>3, <1>6, <1>7, <1>8, <1>9, SMTT(30) DEF Books
<1>11. Fair(r)
  BY <1>6 DEF Fair
<1>12. records' = Append(records, r)
  BY <1>4 DEF Rollback
<1> QED  BY <1>6, <1>8, <1>9, <1>10, <1>11, <1>12, BookedKeeps

\* A failed handoff books the prefill node alone.
LEMMA GiveUpKeeps ==
    ASSUME LifeInv, UNCHANGED protocol, NEW q \in Asked,
           NEW p \in 1..LifePrefill, NEW d \in 1..LifeDecode,
           NEW t, t = Timeline(q, pbusy[p], dbusy[d]), GiveUp(q, p, d, t)
    PROVE  LifeInv'
<1>1. /\ pbusy[p] \in Int /\ dbusy[d] \in Int /\ LifePrefill \in Nat
      /\ pbusy \in [1..LifePrefill -> Int] /\ dbusy \in [1..LifeDecode -> Int]
  BY LifecycleAssumption DEF LifeInv
<1>2. t \in Times /\ pbusy[p] <= t.pstart /\ t.pstart <= t.pfinish
  BY <1>1, TimelineIs
<1>3. t.pstart \in Int /\ t.pfinish \in Int
  BY <1>2 DEF Times
<1>4. PICK r : r = Record(q, "failed", t, p, d, 0, 0)
  OBVIOUS
<1>5. "failed" \in Outcomes
  BY DEF Outcomes
<1>6. /\ r \in Entry /\ r.outcome = "failed" /\ r.timeline = t /\ r.prefill = p
      /\ r.decode = d /\ r.emitted = 0
  BY <1>2, <1>4, <1>5, RecordIs
<1>7. /\ pbusy' \in [1..LifePrefill -> Int] /\ pbusy'[p] = t.pfinish
      /\ \A k \in 1..LifePrefill \ {p} : pbusy'[k] = pbusy[k]
  BY <1>1, <1>3, FreedLater DEF GiveUp
<1>8. dbusy' = dbusy /\ dbusy' \in [1..LifeDecode -> Int]
  BY <1>1 DEF GiveUp
<1>9. Books(p, d, r)
  BY <1>1, <1>2, <1>3, <1>6, <1>7, <1>8, SMTT(30) DEF Books
<1>10. Fair(r)
  BY <1>6 DEF Fair
<1>11. records' = Append(records, r)
  BY <1>4 DEF GiveUp
<1> QED  BY <1>6, <1>7, <1>8, <1>9, <1>10, <1>11, BookedKeeps

\* Whoever passes GATED_PD's gate with a weight of at most one ends in time.
LEMMA GateForesees ==
    ASSUME NEW q \in Asked, q.tier # "STRICT", protocol = "P2_GATED_PD",
           NEW p \in 1..LifePrefill, NEW d \in 1..LifeDecode,
           pbusy[p] \in Int, dbusy[d] \in Int, ~Refused(q, p, d),
           NEW t, t = Timeline(q, pbusy[p], dbusy[d])
    PROVE  t.finish <= q.arrival + Deadline(q)
<1>1. /\ t \in Times
      /\ t.finish = t.dstart + q.output * DecodeCost
      /\ t.pfinish = Max({q.arrival, pbusy[p]}) + ProbeCost + q.input * PrefillCost
      /\ t.dstart = Max({t.pfinish, dbusy[d]})
  <2>1. /\ t \in Times
        /\ protocol # "P4_KVS_DECOUPLED" => t.finish = t.dstart + q.output * DecodeCost
        /\ protocol = "P2_GATED_PD" =>
              /\ t.pfinish = Latest(q.arrival, pbusy[p]) + ProbeCost + q.input * PrefillCost
              /\ t.dstart = Latest(t.pfinish, dbusy[d])
    BY TimelineIs
  <2> QED  BY <2>1 DEF Latest
<1>2. PICK prefill \in Nat : prefill = q.input * PrefillCost
  BY DeadlineIs
<1>3. PICK decode \in Nat : decode = q.output * DecodeCost
  BY DeadlineIs
<1>4. PICK weight \in {1, 2} : weight = Weight[q.tier]
  BY DEF Asked, Tier, Weight
<1>5. q.arrival \in Int /\ Deadline(q) \in Nat
  BY DeadlineIs
<1>6. t.finish \in Int /\ t.pfinish \in Int
  BY <1>1 DEF Times
<1>7. PICK over : over = Max({0, dbusy[d] - t.pfinish})
  OBVIOUS
<1>8. over \in Int /\ 0 <= over
  <2>1. 0 \in Int /\ dbusy[d] - t.pfinish \in Int
    BY <1>6
  <2> QED  BY <1>7, <2>1, MaxOfTwo
<1>9. ~(2 * ((t.finish - q.arrival) + prefill + over) > weight * Deadline(q))
  BY <1>1, <1>2, <1>3, <1>4, <1>7 DEF Refused, Gated
<1>10. PICK dl \in Nat : dl = Deadline(q)
  BY <1>5
<1>11. weight * dl <= 2 * dl
  BY <1>4
<1>12. PICK w : w = weight * dl
  OBVIOUS
<1>13. w \in Int /\ w <= 2 * dl /\ ~(2 * ((t.finish - q.arrival) + prefill + over) > w)
  BY <1>4, <1>9, <1>10, <1>11, <1>12
<1> QED  BY <1>5, <1>6, <1>8, <1>10, <1>13

\* A quotient is within its dividend.
LEMMA QuotientFits ==
    ASSUME NEW x \in Int, NEW y \in Nat \ {0}
    PROVE  (x \div y) \in Int /\ (x \div y) * y <= x
OBVIOUS

\* The tokens of a request that is cut off fit what is left before its deadline.
LEMMA EmittedFits ==
    ASSUME NEW q \in Asked, NEW t \in Times
    PROVE  /\ Emitted(q, t) \in Int
           /\ q.arrival + Deadline(q) < t.finish /\ Emitted(q, t) > 0 =>
                 t.dstart + Emitted(q, t) * DecodeCost <= q.arrival + Deadline(q)
           /\ ~(q.arrival + Deadline(q) < t.finish) => Emitted(q, t) = q.output
<1>1. PICK by \in Int : by = q.arrival + Deadline(q)
  BY DeadlineIs
<1>2. t.dstart \in Int /\ q.output \in Nat /\ DecodeCost \in Nat \ {0}
  BY DeadlineIs, LifecycleAssumption DEF Times
<1>3. PICK left \in Int : left = by - t.dstart
  BY <1>2
<1>4. PICK fits : fits = left \div DecodeCost
  OBVIOUS
<1>5. fits \in Int /\ fits * DecodeCost <= left
  BY <1>2, <1>4, QuotientFits
<1>6. PICK some : some = Max({0, fits})
  OBVIOUS
<1>7. some \in {0, fits} /\ some \in Int
  <2>1. 0 \in Int /\ fits \in Int
    BY <1>5
  <2> QED  BY <1>6, <2>1, MaxOfTwo
<1>8. PICK least : least = Min({q.output, some})
  OBVIOUS
<1>9. least \in Int /\ least <= some
  <2>1. q.output \in Int /\ some \in Int
    BY <1>2, <1>7
  <2> QED  BY <1>8, <2>1, MinOfTwo
<1>10. Emitted(q, t) = IF by < t.finish THEN least ELSE q.output
  <2>1. (q.arrival + Deadline(q) - t.dstart) \div DecodeCost = fits
    <3>1. q.arrival + Deadline(q) - t.dstart = left
      <4>1. q.arrival \in Int /\ Deadline(q) \in Int
        BY DeadlineIs
      <4> QED  BY <1>1, <1>2, <1>3, <4>1
    <3> QED  BY <1>4, <3>1
  <2>2. Max({0, (q.arrival + Deadline(q) - t.dstart) \div DecodeCost}) = some
    BY <1>6, <2>1
  <2>3. Min({q.output, Max({0, (q.arrival + Deadline(q) - t.dstart) \div DecodeCost})}) = least
    BY <1>8, <2>2
  <2> QED  BY <1>1, <2>3 DEF Emitted
<1>11. ASSUME least > 0 PROVE t.dstart + least * DecodeCost <= by
  <2>1. some = fits /\ least <= fits
    BY <1>7, <1>9, <1>11
  <2>2. least * DecodeCost <= fits * DecodeCost
    BY <1>2, <1>5, <1>9, <2>1
  <2>3. PICK x \in Int : x = least * DecodeCost
    BY <1>2, <1>9
  <2>4. PICK y \in Int : y = fits * DecodeCost
    BY <1>2, <1>5
  <2> QED  BY <1>2, <1>3, <1>5, <2>2, <2>3, <2>4
<1> QED  BY <1>1, <1>2, <1>9, <1>10, <1>11

\* A request that is decoded books both, until it ends or is cut off.
LEMMA CompleteKeeps ==
    ASSUME LifeInv, UNCHANGED protocol, NEW q \in Asked,
           NEW p \in 1..LifePrefill, NEW d \in 1..LifeDecode,
           NEW t, t = Timeline(q, pbusy[p], dbusy[d]), ~Refused(q, p, d), Complete(q, p, d, t)
    PROVE  LifeInv'
<1>1. /\ pbusy[p] \in Int /\ dbusy[d] \in Int /\ LifePrefill \in Nat /\ LifeDecode \in Nat
      /\ pbusy \in [1..LifePrefill -> Int] /\ dbusy \in [1..LifeDecode -> Int]
  BY LifecycleAssumption DEF LifeInv
<1>2. /\ t \in Times /\ pbusy[p] <= t.pstart /\ t.pstart <= t.pfinish
      /\ DecodeFirst => dbusy[d] <= t.pstart
      /\ dbusy[d] <= t.dstart
      /\ t.dstart + q.output * DecodeCost <= t.finish
      /\ protocol # "P4_KVS_DECOUPLED" => t.finish = t.dstart + q.output * DecodeCost
  BY <1>1, TimelineIs
<1>3. t.pstart \in Int /\ t.pfinish \in Int /\ t.dstart \in Int /\ t.finish \in Int
  BY <1>2 DEF Times
<1>4. PICK by \in Int : by = q.arrival + Deadline(q)
  BY DeadlineIs
<1>5. PICK until : until = IF by < t.finish THEN Max({t.dstart, by}) ELSE t.finish
  OBVIOUS
<1>6. PICK last : last = Max({t.dstart, by})
  OBVIOUS
<1>7. last \in {t.dstart, by} /\ t.dstart <= last /\ by <= last /\ last \in Int
  BY <1>3, <1>6, MaxOfTwo
<1>8. PICK decode \in Nat : decode = q.output * DecodeCost
  BY DeadlineIs
<1>9. until \in Int /\ t.dstart <= until
  BY <1>2, <1>3, <1>5, <1>6, <1>7, <1>8
<1>10. PICK r : r = Record(q, Outcome(q, t), t, p, d, Emitted(q, t), until)
  OBVIOUS
<1>11. Outcome(q, t) \in {"cut", "strict", "lenient"} /\ Outcome(q, t) \in Outcomes
  BY DEF Outcome, Outcomes
<1>12. Emitted(q, t) \in Int
  BY <1>2, EmittedFits
<1>13. /\ r \in Entry /\ r.request = q /\ r.outcome = Outcome(q, t) /\ r.timeline = t /\ r.prefill = p
       /\ r.decode = d /\ r.emitted = Emitted(q, t) /\ r.until = until
  BY <1>2, <1>9, <1>10, <1>11, <1>12, RecordIs
<1>14. /\ pbusy' = [pbusy EXCEPT ![p] = t.pfinish]
       /\ dbusy' = [dbusy EXCEPT ![d] = until]
       /\ records' = Append(records, r)
  BY <1>4, <1>5, <1>10 DEF Complete
<1>15. /\ pbusy' \in [1..LifePrefill -> Int] /\ pbusy'[p] = t.pfinish
       /\ \A k \in 1..LifePrefill \ {p} : pbusy'[k] = pbusy[k]
  BY <1>1, <1>3, <1>14, FreedLater
<1>16. /\ dbusy' \in [1..LifeDecode -> Int] /\ dbusy'[d] = until
       /\ \A k \in 1..LifeDecode \ {d} : dbusy'[k] = dbusy[k]
  BY <1>1, <1>9, <1>14, FreedLater
<1>17. Books(p, d, r)
  BY <1>1, <1>2, <1>3, <1>9, <1>11, <1>13, <1>15, <1>16, SMTT(30) DEF Books
<1>18. protocol = "P2_GATED_PD" /\ q.tier # "STRICT" => Outcome(q, t) # "cut"
  <2>1. SUFFICES ASSUME protocol = "P2_GATED_PD", q.tier # "STRICT" PROVE Outcome(q, t) # "cut"
    OBVIOUS
  <2>2. t.finish <= by
    BY <1>1, <1>4, <2>1, GateForesees
  <2> QED  BY <1>3, <1>4, <2>2 DEF Outcome
<1>19. ASSUME protocol # "P4_KVS_DECOUPLED", Emitted(q, t) > 0
       PROVE  t.dstart + Emitted(q, t) * DecodeCost <= until /\ until <= by
  <2>1. CASE by < t.finish
    <3>1. t.dstart + Emitted(q, t) * DecodeCost <= by
      BY <1>2, <1>4, <1>19, <2>1, EmittedFits
    <3>2. DecodeCost \in Nat \ {0}
      BY LifecycleAssumption
    <3>3. Emitted(q, t) * DecodeCost >= 0
      BY <1>12, <1>19, <3>2
    <3>4. PICK used \in Int : used = Emitted(q, t) * DecodeCost
      BY <1>12, <3>2
    <3>5. t.dstart <= by
      BY <1>3, <3>1, <3>3, <3>4
    <3>6. until = by
      BY <1>3, <1>5, <1>6, <1>7, <2>1, <3>5
    <3> QED  BY <3>1, <3>6
  <2>2. CASE ~(by < t.finish)
    <3>1. Emitted(q, t) = q.output
      BY <1>2, <1>4, <2>2, EmittedFits
    <3>2. until = t.finish /\ t.finish = t.dstart + q.output * DecodeCost
      BY <1>2, <1>5, <1>19, <2>2
    <3> QED  BY <1>3, <2>2, <3>1, <3>2
  <2> QED  BY <2>1, <2>2
<1>20. Fair(r)
  BY <1>4, <1>13, <1>18, <1>19 DEF Fair
<1> QED  BY <1>13, <1>14, <1>15, <1>16, <1>17, <1>20, <1>11, BookedKeeps

\* Any request leaves the books in order.
LEMMA LifeKeeps == ASSUME LifeInv, LifeNext PROVE LifeInv'
<1>1. PICK arrival \in LifeArrival, input \in LifeInput, output \in LifeOutput, tier \in Tier :
         Handle([arrival |-> arrival, input |-> input, output |-> output, tier |-> tier])
  BY DEF LifeNext
<1>2. PICK q : q = [arrival |-> arrival, input |-> input, output |-> output, tier |-> tier]
  OBVIOUS
<1>3. q \in Asked /\ Handle(q) /\ UNCHANGED protocol
  BY <1>1, <1>2 DEF Asked, LifeNext
<1>4. PICK p, d : p = Earliest(pbusy) /\ d = Earliest(dbusy)
  OBVIOUS
<1>5. p \in 1..LifePrefill /\ d \in 1..LifeDecode
  BY <1>4, EarliestIs, LifecycleAssumption DEF LifeInv
<1>6. \/ Reject(q, p, d)
      \/ /\ ~Refused(q, p, d)
         /\ \E t \in {Timeline(q, pbusy[p], dbusy[d])} :
                Rollback(q, p, d, t) \/ GiveUp(q, p, d, t) \/ Complete(q, p, d, t)
  BY <1>3, <1>4 DEF Handle
<1> QED  BY <1>3, <1>5, <1>6, RejectKeeps, RollbackKeeps, GiveUpKeeps, CompleteKeeps

\* The bookings of both pools are in order, and cover what was recorded.
THEOREM LifecycleInvariance == Spec => []LifeInv
<1>1. Init => LifeInv
  <2>1. SUFFICES ASSUME Init PROVE LifeInv
    OBVIOUS
  <2>2. records = <<>> /\ DOMAIN <<>> = {} /\ <<>> \in Seq(Entry)
    BY <2>1 DEF Init, LifeInit
  <2>3. pbusy \in [1..LifePrefill -> Int] /\ dbusy \in [1..LifeDecode -> Int]
    BY <2>1 DEF Init, LifeInit
  <2> QED  BY <2>2, <2>3 DEF LifeInv, BookingsAreHonest, NodesServeOneAtATime, GateKeepsItsPromise,
                             TokensFitTheNode
<1>2. LifeInv /\ [Next]_vars => LifeInv'
  <2>1. SUFFICES ASSUME LifeInv, [Next]_vars PROVE LifeInv'
    OBVIOUS
  <2>2. CASE Life
    BY <2>1, <2>2, LifeKeeps DEF Life
  <2>3. CASE UNCHANGED lifeVars
    BY <2>1, <2>3 DEF LifeInv, BookingsAreHonest, NodesServeOneAtATime, GateKeepsItsPromise,
                      TokensFitTheNode, DecodeFirst, Deadline, TtftDeadline, lifeVars
  <2> QED  BY <2>1, <2>2, <2>3 DEF Next, Select, Kvs, Lease, Size, Place, Over, vars
<1> QED  BY <1>1, <1>2, PTL DEF Spec

\* For any pools, costs, lengths and arrivals: a node serves one request at a
\* time, GATED_PD cuts off nobody of weight one or less, and the tokens credited
\* fit the time of the node (lifecycle.py 122-310).
THEOREM BookingsStayHonest == Spec => []BookingsAreHonest
BY LifecycleInvariance, PTL DEF LifeInv

-----------------------------------------------------------------------------
\* The placement of M12.

\* The blocks of a request are a sequence.
LEMMA RawIs ==
    ASSUME NEW q \in Arriving
    PROVE  q.raw \in Seq(ToSet(q.raw)) /\ Len(q.raw) \in Nat /\ DOMAIN q.raw = 1..Len(q.raw)
<1>1. q.raw \in Seq(ToSet(q.raw))
  BY PlacementAssumption
<1> QED  BY <1>1

\* The longest prefix that is cached.
LEMMA PrefixIs ==
    ASSUME NEW q \in Arriving, NEW cached
    PROVE  /\ PrefixTokens(q, cached) \in 0..Len(q.raw)
           /\ \A i \in 1..PrefixTokens(q, cached) : Keys(q)[i] \in cached
           /\ \A k \in 0..Len(q.raw) :
                 (\A i \in 1..k : Keys(q)[i] \in cached) => k <= PrefixTokens(q, cached)
<1>1. PICK n \in Nat : n = Len(q.raw)
  BY RawIs
<1>2. PICK lengths : lengths = {k \in 0..n : \A i \in 1..k : Keys(q)[i] \in cached}
  OBVIOUS
<1>3. 0 \in lengths
  BY <1>2
<1>4. IsFiniteSet(0..n)
  BY FS_Interval
<1>5. IsFiniteSet(lengths) /\ lengths \subseteq Int
  BY <1>2, <1>4, FS_Subset
<1>6. \E m \in lengths : \A k \in lengths : m >= k
  BY <1>3, <1>5, GreatestExists
<1>7. PrefixTokens(q, cached) = Max(lengths)
  BY <1>1, <1>2 DEF PrefixTokens
<1>8. Max(lengths) \in lengths /\ \A k \in lengths : Max(lengths) >= k
  BY <1>6 DEF Max
<1> QED  BY <1>1, <1>2, <1>5, <1>7, <1>8

\* It only grows with what is cached.
LEMMA PrefixGrows ==
    ASSUME NEW q \in Arriving, NEW cached, NEW more, cached \subseteq more
    PROVE  PrefixTokens(q, cached) <= PrefixTokens(q, more)
<1>1. PICK k : k = PrefixTokens(q, cached)
  OBVIOUS
<1>2. k \in 0..Len(q.raw) /\ \A i \in 1..k : Keys(q)[i] \in cached
  BY <1>1, PrefixIs
<1>3. \A i \in 1..k : Keys(q)[i] \in more
  BY <1>2
<1> QED  BY <1>1, <1>2, <1>3, PrefixIs

\* The longest prefix that any node holds is held by one of them.
LEMMA BestIs ==
    ASSUME NEW q \in Arriving, PNode # {}
    PROVE  \E n \in PNode : Best(q) = Held(q, n)
<1>1. PICK all : all = {Held(q, n) : n \in PNode}
  OBVIOUS
<1>2. all # {} /\ all \subseteq 0..Len(q.raw)
  BY <1>1, PrefixIs DEF Held
<1>3. Len(q.raw) \in Int
  BY RawIs
<1>4. IsFiniteSet(0..Len(q.raw)) /\ 0..Len(q.raw) \subseteq Int
  BY <1>3, FS_Interval
<1>5. IsFiniteSet(all) /\ all \subseteq Int
  BY <1>2, <1>4, FS_Subset
<1>6. \E m \in all : \A k \in all : m >= k
  BY <1>2, <1>5, GreatestExists
<1>7. Max(all) \in all
  BY <1>6 DEF Max
<1>8. Best(q) = Max(all)
  BY <1>1 DEF Best
<1> QED  BY <1>1, <1>7, <1>8

\* What an attempt at a node has in reach, and what it finds covered.
Within(fetch, cached, n) == IF fetch THEN UNION {cached[k] : k \in PNode} ELSE cached[n]
Cover(a, cached, n) == PrefixTokens(a.request, Within(a.fetch, cached, n))

\* What a node holds is in reach of it, and what any node holds is when it is fetched.
LEMMA HeldIsInReach ==
    ASSUME NEW q \in Arriving, NEW n \in PNode
    PROVE  /\ Held(q, n) \in Nat /\ Best(q) \in Nat
           /\ \A fetch \in BOOLEAN : Held(q, n) <= PrefixTokens(q, Within(fetch, resident, n))
           /\ Best(q) <= PrefixTokens(q, Within(TRUE, resident, n))
<1>1. Len(q.raw) \in Nat
  BY RawIs
<1>2. \A k \in PNode : Held(q, k) \in Nat
  BY <1>1, PrefixIs DEF Held
<1>3. PICK k \in PNode : Best(q) = Held(q, k)
  BY BestIs
<1>4. PICK all : all = UNION {resident[m] : m \in PNode}
  OBVIOUS
<1>5. \A m \in PNode : resident[m] \subseteq all
  BY <1>4
<1>6. \A m \in PNode : Held(q, m) <= PrefixTokens(q, all) /\ Held(q, m) <= PrefixTokens(q, resident[m])
  BY <1>5, PrefixGrows DEF Held
<1>7. Within(TRUE, resident, n) = all /\ Within(FALSE, resident, n) = resident[n]
  BY <1>4 DEF Within
<1>8. Best(q) <= PrefixTokens(q, Within(TRUE, resident, n))
  BY <1>3, <1>6, <1>7
<1>9. ASSUME NEW fetch \in BOOLEAN PROVE Held(q, n) <= PrefixTokens(q, Within(fetch, resident, n))
  <2>1. CASE fetch = TRUE
    BY <1>6, <1>7, <2>1
  <2>2. CASE fetch = FALSE
    BY <1>6, <1>7, <2>2
  <2> QED  BY <2>1, <2>2
<1> QED  BY <1>2, <1>3, <1>8, <1>9

\* A decision counts on what the node holds, or on the best and fetches it.
LEMMA DecisionIs ==
    ASSUME NEW q, NEW queue, NEW nodes, NEW decision \in Decisions(q, queue, nodes)
    PROVE  /\ decision.fetch \in BOOLEAN
           /\ \/ decision.covered = Held(q, decision.node)
              \/ decision.fetch = TRUE /\ decision.covered = Best(q)
<1>1. ASSUME NEW S, decision \in {Decision(n, FALSE, Held(q, n)) : n \in S}
      PROVE  decision.fetch = FALSE /\ decision.covered = Held(q, decision.node)
  BY <1>1 DEF Decision
<1>2. ASSUME NEW n, NEW fetch \in BOOLEAN, NEW covered, decision = Decision(n, fetch, covered),
             covered = Held(q, n) \/ (fetch = TRUE /\ covered = Best(q))
      PROVE  /\ decision.fetch \in BOOLEAN
             /\ \/ decision.covered = Held(q, decision.node)
                \/ decision.fetch = TRUE /\ decision.covered = Best(q)
  BY <1>2 DEF Decision
<1>3. CASE strategy = "PRICED_SPILL"
  <2>1. decision \in PricedSpill(q, queue, nodes)
    BY <1>3 DEF Decisions
  <2>2. PICK S : decision \in {Decision(n, kvsOn /\ Best(q) > Held(q, n),
                    IF kvsOn /\ Best(q) > Held(q, n) THEN Best(q) ELSE Held(q, n)) : n \in S}
    BY <2>1 DEF PricedSpill
  <2>3. PICK n : decision = Decision(n, kvsOn /\ Best(q) > Held(q, n),
                    IF kvsOn /\ Best(q) > Held(q, n) THEN Best(q) ELSE Held(q, n))
    BY <2>2
  <2>4. CASE kvsOn /\ Best(q) > Held(q, n)
    <3>1. decision = Decision(n, TRUE, Best(q))
      BY <2>3, <2>4
    <3> QED  BY <1>2, <3>1
  <2>5. CASE ~(kvsOn /\ Best(q) > Held(q, n))
    <3>1. decision = Decision(n, FALSE, Held(q, n))
      BY <2>3, <2>5
    <3> QED  BY <1>2, <3>1
  <2> QED  BY <2>4, <2>5
<1>4. CASE strategy = "S3"
  BY <1>1, <1>4 DEF Decisions
<1>5. CASE strategy = "S4"
  <2>1. decision \in SessionAffinity(q, nodes)
    BY <1>5 DEF Decisions
  <2>2. PICK S : decision \in {Decision(n, FALSE, Held(q, n)) : n \in S}
    BY <2>1 DEF SessionAffinity
  <2> QED  BY <1>1, <2>2
<1>6. CASE strategy \notin {"PRICED_SPILL", "S3", "S4"}
  <2>1. decision = Scored(q, Nearest(q, queue, nodes))
    BY <1>6 DEF Decisions
  <2>2. PICK n : n = Nearest(q, queue, nodes)
    OBVIOUS
  <2>3. \/ decision = Decision(n, UsesRemote(q, n), HybridCover(q, n))
        \/ decision = Decision(n, kvsOn /\ Best(q) > Held(q, n), Held(q, n))
    BY <2>1, <2>2 DEF Scored
  <2>4. CASE decision = Decision(n, UsesRemote(q, n), HybridCover(q, n))
    <3>1. CASE UsesRemote(q, n)
      <4>1. UsesRemote(q, n) = TRUE
        BY <3>1 DEF UsesRemote
      <4>2. decision = Decision(n, TRUE, Best(q))
        BY <2>4, <4>1 DEF HybridCover
      <4> QED  BY <1>2, <4>2
    <3>2. CASE ~UsesRemote(q, n)
      <4>1. UsesRemote(q, n) = FALSE
        BY <3>2 DEF UsesRemote
      <4>2. decision = Decision(n, FALSE, Held(q, n))
        BY <2>4, <4>1 DEF HybridCover
      <4> QED  BY <1>2, <4>2
    <3> QED  BY <3>1, <3>2
  <2>5. CASE decision = Decision(n, kvsOn /\ Best(q) > Held(q, n), Held(q, n))
    <3>1. CASE kvsOn /\ Best(q) > Held(q, n)
      <4>1. decision = Decision(n, TRUE, Held(q, n))
        BY <2>5, <3>1
      <4> QED  BY <1>2, <4>1
    <3>2. CASE ~(kvsOn /\ Best(q) > Held(q, n))
      <4>1. decision = Decision(n, FALSE, Held(q, n))
        BY <2>5, <3>2
      <4> QED  BY <1>2, <4>1
    <3> QED  BY <3>1, <3>2
  <2> QED  BY <2>3, <2>4, <2>5
<1> QED  BY <1>3, <1>4, <1>5, <1>6

Attempts == [request : Arriving, fetch : BOOLEAN, covered : Nat]

\* What waits still finds what it counted on, and what runs is charged no more.
CoverInv ==
    /\ DOMAIN resident = PNode /\ DOMAIN running = PNode
    /\ waiting \in [PNode -> Seq(Attempts)]
    /\ \A n \in PNode : \A i \in DOMAIN waiting[n] :
          waiting[n][i].covered <= Cover(waiting[n][i], resident, n)
    /\ \A n \in PNode : \A i \in DOMAIN running[n] : running[n][i].request \in Arriving
    /\ PlanCoversCharge

\* Cover says what the kernel finds when it prices an attempt.
LEMMA CoveredIs == \A a, n : Covered(a, n) = Cover(a, resident, n)
BY DEF Covered, Cover, Within

\* It is a length.
LEMMA CoverIs ==
    ASSUME NEW a \in Attempts, NEW cached, NEW n
    PROVE  Cover(a, cached, n) \in Nat
<1>1. a.request \in Arriving
  BY DEF Attempts
<1>2. Len(a.request.raw) \in Nat
  BY <1>1, RawIs
<1> QED  BY <1>1, <1>2, PrefixIs DEF Cover

\* Caches only grow, so what waits loses nothing.
LEMMA CoverGrows ==
    ASSUME NEW cached, NEW more, \A n \in PNode : cached[n] \subseteq more[n],
           NEW n \in PNode, NEW a \in Attempts
    PROVE  Cover(a, cached, n) <= Cover(a, more, n)
<1>1. a.request \in Arriving
  BY DEF Attempts
<1>2. Within(a.fetch, cached, n) \subseteq Within(a.fetch, more, n)
  BY DEF Within
<1> QED  BY <1>1, <1>2, PrefixGrows DEF Cover

\* The queue of a node after something joined it.
LEMMA QueueIs ==
    ASSUME NEW n \in PNode, NEW q \in [PNode -> Seq(Attempts)], NEW a \in Attempts
    PROVE  /\ [q EXCEPT ![n] = Append(q[n], a)] \in [PNode -> Seq(Attempts)]
           /\ \A k \in PNode \ {n} : [q EXCEPT ![n] = Append(q[n], a)][k] = q[k]
           /\ \A i \in DOMAIN [q EXCEPT ![n] = Append(q[n], a)][n] :
                 \/ i \in DOMAIN q[n] /\ [q EXCEPT ![n] = Append(q[n], a)][n][i] = q[n][i]
                 \/ [q EXCEPT ![n] = Append(q[n], a)][n][i] = a
<1>1. PICK s : s = Append(q[n], a)
  OBVIOUS
<1>2. s \in Seq(Attempts) /\ q[n] \in Seq(Attempts)
  BY <1>1
<1>3. \A i \in DOMAIN s : (i \in DOMAIN q[n] /\ s[i] = q[n][i]) \/ s[i] = a
  BY <1>1, <1>2
<1>4. PICK later : later = [q EXCEPT ![n] = s]
  OBVIOUS
<1>5. later \in [PNode -> Seq(Attempts)] /\ later[n] = s /\ \A k \in PNode \ {n} : later[k] = q[k]
  BY <1>2, <1>4
<1> QED  BY <1>1, <1>3, <1>4, <1>5

\* A decision joins the queue of its node with what it counts on in reach.
LEMMA PlannedCovers ==
    ASSUME CoverInv, NEW q \in Arriving, NEW family, NEW decision,
           decision.fetch \in BOOLEAN, decision.covered \in Nat, decision.node \in PNode,
           decision.covered <= PrefixTokens(q, Within(decision.fetch, resident, decision.node)),
           Planned(q, family, decision), UNCHANGED <<resident, running>>
    PROVE  CoverInv'
<1>1. PICK m : m = decision.node
  OBVIOUS
<1>2. PICK a : a = [request |-> q, fetch |-> decision.fetch, covered |-> decision.covered]
  OBVIOUS
<1>3. a \in Attempts /\ a.request = q /\ a.fetch = decision.fetch /\ a.covered = decision.covered
  BY <1>2 DEF Attempts
<1>4. waiting' = [waiting EXCEPT ![m] = Append(waiting[m], a)]
  BY <1>1, <1>2 DEF Planned
<1>5. waiting \in [PNode -> Seq(Attempts)] /\ m \in PNode
  BY <1>1 DEF CoverInv
<1>6. /\ waiting' \in [PNode -> Seq(Attempts)]
      /\ \A k \in PNode \ {m} : waiting'[k] = waiting[k]
      /\ \A i \in DOMAIN waiting'[m] :
            (i \in DOMAIN waiting[m] /\ waiting'[m][i] = waiting[m][i]) \/ waiting'[m][i] = a
  BY <1>3, <1>4, <1>5, QueueIs
<1>7. a.covered <= Cover(a, resident, m)
  BY <1>1, <1>3 DEF Cover
<1>8. ASSUME NEW n \in PNode, NEW i \in DOMAIN waiting'[n]
      PROVE  waiting'[n][i].covered <= Cover(waiting'[n][i], resident, n)
  BY <1>6, <1>7, <1>8 DEF CoverInv
<1>9. resident' = resident /\ running' = running
  OBVIOUS
<1>10. \A n \in PNode : \A i \in DOMAIN waiting'[n] :
          waiting'[n][i].covered <= Cover(waiting'[n][i], resident', n)
  BY <1>8, <1>9
<1> QED  BY <1>6, <1>9, <1>10 DEF CoverInv, PlanCoversCharge

\* An arrival leaves what waits covered.
LEMMA ArriveCovers == ASSUME CoverInv, Arrive PROVE CoverInv'
<1>1. PICK q, queue : q \in Arriving /\ (PlanEmpty(q) \/ PlanRequest(q, queue) \/ NoCandidate(q, queue))
  BY DEF Arrive
<1>2. resident' = resident /\ running' = running
  BY DEF Arrive
<1>3. ASSUME waiting' = waiting PROVE CoverInv'
  BY <1>2, <1>3 DEF CoverInv, PlanCoversCharge
<1>4. ASSUME NEW family, NEW decision, decision.fetch \in BOOLEAN, Planned(q, family, decision),
             decision.node \in PNode =>
                 /\ decision.covered \in Nat
                 /\ decision.covered <= PrefixTokens(q, Within(decision.fetch, resident, decision.node))
      PROVE  CoverInv'
  <2>1. CASE decision.node \in PNode
    BY <1>1, <1>2, <1>4, <2>1, PlannedCovers
  <2>2. CASE decision.node \notin PNode
    <3>1. waiting' = waiting
      BY <1>4, <2>2 DEF Planned, CoverInv
    <3> QED  BY <1>3, <3>1
  <2> QED  BY <2>1, <2>2
<1>5. CASE PlanEmpty(q)
  <2>1. PICK decision : decision = Decision(Min(PNode), FALSE, 0)
    OBVIOUS
  <2>2. Planned(q, 0, decision)
    BY <1>5, <2>1 DEF PlanEmpty
  <2>3. decision.fetch = FALSE /\ decision.covered = 0
    BY <2>1 DEF Decision
  <2>4. Len(q.raw) \in Nat
    BY <1>1, RawIs
  <2>5. \A reach : PrefixTokens(q, reach) \in Nat
    BY <1>1, <2>4, PrefixIs
  <2>6. PICK z \in Nat : z = PrefixTokens(q, Within(decision.fetch, resident, decision.node))
    BY <2>5
  <2>7. 0 <= z /\ 0 \in Nat
    OBVIOUS
  <2>8. decision.covered \in Nat /\ decision.fetch \in BOOLEAN
    <3>1. decision.covered \in Nat
      BY <2>3, <2>7
    <3>2. decision.fetch \in BOOLEAN
      BY <2>3
    <3> QED  BY <3>1, <3>2
  <2>9. decision.covered <= PrefixTokens(q, Within(decision.fetch, resident, decision.node))
    BY <2>3, <2>6, <2>7
  <2> QED  BY <1>4, <2>2, <2>8, <2>9
<1>6. CASE PlanRequest(q, queue)
  <2>1. PICK decision, family : /\ decision \in Decisions(q, queue, Candidates(q, queue))
                                /\ Planned(q, family, decision)
    BY <1>6 DEF PlanRequest
  <2>2. /\ decision.fetch \in BOOLEAN
        /\ \/ decision.covered = Held(q, decision.node)
           \/ decision.fetch = TRUE /\ decision.covered = Best(q)
    BY <2>1, DecisionIs
  <2>3. ASSUME decision.node \in PNode
        PROVE  /\ decision.covered \in Nat
               /\ decision.covered <= PrefixTokens(q, Within(decision.fetch, resident, decision.node))
    <3>1. PICK n \in PNode : n = decision.node
      BY <2>3
    <3>2. /\ Held(q, n) \in Nat /\ Best(q) \in Nat
          /\ \A fetch \in BOOLEAN : Held(q, n) <= PrefixTokens(q, Within(fetch, resident, n))
          /\ Best(q) <= PrefixTokens(q, Within(TRUE, resident, n))
      BY <1>1, HeldIsInReach
    <3> QED  BY <2>2, <3>1, <3>2
  <2> QED  BY <1>4, <2>1, <2>2, <2>3
<1>7. CASE NoCandidate(q, queue)
  BY <1>3, <1>7 DEF NoCandidate
<1> QED  BY <1>1, <1>5, <1>6, <1>7

\* An attempt that starts is charged for what it does not find.
LEMMA StartCovers ==
    ASSUME CoverInv, NEW n \in PNode, StartPrefill(n)
    PROVE  CoverInv'
<1>1. waiting \in [PNode -> Seq(Attempts)] /\ waiting[n] # <<>>
  BY DEF CoverInv, StartPrefill
<1>2. PICK a : a = Head(waiting[n])
  OBVIOUS
<1>3. a \in Attempts /\ 1 \in DOMAIN waiting[n] /\ a = waiting[n][1]
  BY <1>1, <1>2
<1>4. a.covered <= Cover(a, resident, n) /\ a.request \in Arriving /\ a.covered \in Nat
  BY <1>3 DEF CoverInv, Attempts
<1>5. PICK found \in Nat : found = Covered(a, n) /\ a.covered <= found
  BY <1>3, <1>4, CoverIs, CoveredIs
<1>6. PICK len \in Nat : len = Len(a.request.raw)
  BY <1>4, RawIs
<1>7. PICK spent : running' = [running EXCEPT ![n] =
               <<[request |-> a.request, covered |-> a.covered,
                  charge  |-> (len - found) * PrefillPerToken, fetched |-> spent]>>]
  BY <1>2, <1>5, <1>6 DEF StartPrefill
<1>8. PICK r : r = [request |-> a.request, covered |-> a.covered,
                    charge  |-> (len - found) * PrefillPerToken, fetched |-> spent]
  OBVIOUS
<1>9. /\ r.request = a.request /\ r.covered = a.covered
      /\ r.charge = (len - found) * PrefillPerToken
  BY <1>8
<1>10. DOMAIN running' = PNode /\ running'[n] = <<r>> /\ \A k \in PNode \ {n} : running'[k] = running[k]
  BY <1>7, <1>8 DEF CoverInv
<1>11. DOMAIN running'[n] = {1} /\ running'[n][1] = r
  BY <1>10
<1>12. r.charge <= (Len(r.request.raw) - r.covered) * PrefillPerToken
  <2>1. PICK x \in Int : x = len - found
    OBVIOUS
  <2>2. PICK y \in Int : y = len - a.covered
    BY <1>4
  <2>3. x <= y /\ PrefillPerToken \in Nat
    BY <1>4, <1>5, <2>1, <2>2, PlacementAssumption
  <2>4. x * PrefillPerToken <= y * PrefillPerToken
    BY <2>3
  <2> QED  BY <1>6, <1>9, <2>1, <2>2, <2>4
<1>13. waiting' = [waiting EXCEPT ![n] = Tail(waiting[n])] /\ resident' = resident
  BY DEF StartPrefill
<1>14. waiting' \in [PNode -> Seq(Attempts)] /\ \A k \in PNode \ {n} : waiting'[k] = waiting[k]
  BY <1>1, <1>13
<1>15. ASSUME NEW k \in PNode, NEW i \in DOMAIN waiting'[k]
       PROVE  waiting'[k][i].covered <= Cover(waiting'[k][i], resident, k)
  <2>1. CASE k # n
    BY <1>14, <1>15, <2>1 DEF CoverInv
  <2>2. CASE k = n
    <3>1. waiting'[k] = Tail(waiting[k]) /\ waiting[k] \in Seq(Attempts) /\ waiting[k] # <<>>
      BY <1>1, <1>13, <2>2
    <3>2. i + 1 \in DOMAIN waiting[k] /\ waiting'[k][i] = waiting[k][i + 1]
      BY <1>15, <3>1
    <3> QED  BY <3>2 DEF CoverInv
  <2> QED  BY <2>1, <2>2
<1>16. ASSUME NEW k \in PNode, NEW i \in DOMAIN running'[k]
       PROVE  /\ running'[k][i].request \in Arriving
              /\ running'[k][i].charge <=
                    (Len(running'[k][i].request.raw) - running'[k][i].covered) * PrefillPerToken
  <2>1. CASE k # n
    BY <1>10, <1>16, <2>1 DEF CoverInv, PlanCoversCharge
  <2>2. CASE k = n
    BY <1>4, <1>9, <1>11, <1>12, <1>16, <2>2
  <2> QED  BY <2>1, <2>2
<1>17. \A k \in PNode : \A i \in DOMAIN waiting'[k] :
          waiting'[k][i].covered <= Cover(waiting'[k][i], resident', k)
  BY <1>13, <1>15
<1>18. DOMAIN resident' = PNode
  BY <1>13 DEF CoverInv
<1> QED  BY <1>10, <1>14, <1>16, <1>17, <1>18 DEF CoverInv, PlanCoversCharge

\* An attempt that ends only adds to a cache.
LEMMA EndCovers ==
    ASSUME CoverInv, NEW n \in PNode, EndPrefill(n)
    PROVE  CoverInv'
<1>1. waiting \in [PNode -> Seq(Attempts)] /\ waiting' = waiting
  BY DEF CoverInv, EndPrefill
<1>2. PICK new : resident' = [resident EXCEPT ![n] = resident[n] \cup new]
  BY DEF EndPrefill
<1>3. DOMAIN resident' = PNode /\ \A k \in PNode : resident[k] \subseteq resident'[k]
  BY <1>2 DEF CoverInv
<1>4. DOMAIN running' = PNode /\ running'[n] = <<>> /\ \A k \in PNode \ {n} : running'[k] = running[k]
  BY DEF CoverInv, EndPrefill
<1>5. DOMAIN running'[n] = {}
  BY <1>4
<1>6. ASSUME NEW k \in PNode, NEW i \in DOMAIN waiting[k]
      PROVE  waiting[k][i].covered <= Cover(waiting[k][i], resident', k)
  <2>1. PICK a : a = waiting[k][i]
    OBVIOUS
  <2>2. a \in Attempts /\ a.covered <= Cover(a, resident, k) /\ a.covered \in Nat
    <3>1. waiting[k] \in Seq(Attempts)
      BY <1>1, <1>6
    <3>2. a \in Attempts
      BY <1>6, <2>1, <3>1
    <3>3. a.covered <= Cover(a, resident, k)
      BY <1>6, <2>1 DEF CoverInv
    <3> QED  BY <3>2, <3>3 DEF Attempts
  <2>3. Cover(a, resident, k) <= Cover(a, resident', k)
    BY <1>3, <2>2, CoverGrows
  <2>4. Cover(a, resident, k) \in Nat /\ Cover(a, resident', k) \in Nat
    BY <2>2, CoverIs
  <2>5. a.covered <= Cover(a, resident', k)
    BY <2>2, <2>3, <2>4
  <2> QED  BY <2>1, <2>5
<1>7. ASSUME NEW k \in PNode, NEW i \in DOMAIN running'[k]
      PROVE  /\ running'[k][i].request \in Arriving
             /\ running'[k][i].charge <=
                   (Len(running'[k][i].request.raw) - running'[k][i].covered) * PrefillPerToken
  BY <1>4, <1>5, <1>7 DEF CoverInv, PlanCoversCharge
<1> QED  BY <1>1, <1>3, <1>4, <1>6, <1>7 DEF CoverInv, PlanCoversCharge

\* What a sequence is after something was appended, whatever it holds.
LEMMA AppendedIs ==
    ASSUME NEW s, s \in Seq(ToSet(s)), NEW x
    PROVE  /\ Len(s) \in Nat /\ DOMAIN s = 1..Len(s)
           /\ Append(s, x) \in Seq(ToSet(Append(s, x)))
           /\ DOMAIN Append(s, x) = 1..(Len(s) + 1)
           /\ \A i \in 1..Len(s) : Append(s, x)[i] = s[i]
           /\ Append(s, x)[Len(s) + 1] = x
<1>1. PICK V : V = ToSet(s) \cup {x}
  OBVIOUS
<1>2. s \in Seq(V)
  BY <1>1, WiderSeq
<1>3. PICK t : t = Append(s, x)
  OBVIOUS
<1>4. /\ Len(s) \in Nat /\ DOMAIN s = 1..Len(s) /\ t \in Seq(V) /\ Len(t) = Len(s) + 1
      /\ DOMAIN t = 1..(Len(s) + 1)
      /\ \A i \in 1..Len(s) : t[i] = s[i]
      /\ t[Len(s) + 1] = x
  BY <1>1, <1>2, <1>3
<1>5. t \in [1..Len(t) -> ToSet(t)]
  <2>1. \A i \in 1..Len(t) : t[i] \in ToSet(t)
    BY <1>4 DEF ToSet
  <2> QED  BY <1>4, <2>1
<1>6. t \in Seq(ToSet(t))
  BY <1>4, <1>5
<1> QED  BY <1>3, <1>4, <1>6

\* What a prefix of two or more blocks begins with.
LEMMA PrefixBegins ==
    ASSUME NEW q \in Arriving, NEW d \in 2..Len(q.raw)
    PROVE  /\ PrefixOf(q, d)[1] = q.cohort /\ PrefixOf(q, d)[2] = q.raw[1]
           /\ PrefixOf(q, d)[3] = q.raw[2]
<1>1. PICK V : V = ToSet(q.raw) \cup {q.cohort}
  OBVIOUS
<1>2. q.raw \in Seq(ToSet(q.raw)) /\ Len(q.raw) \in Nat
  BY RawIs
<1>3. q.raw \in Seq(V)
  BY <1>1, <1>2, WiderSeq
<1>4. PICK front : front = SubSeq(q.raw, 1, d)
  OBVIOUS
<1>5. front \in Seq(V) /\ Len(front) = d /\ front[1] = q.raw[1] /\ front[2] = q.raw[2]
  BY <1>2, <1>3, <1>4
<1>6. PICK one : one = <<q.cohort>>
  OBVIOUS
<1>7. one \in Seq(V) /\ Len(one) = 1 /\ one[1] = q.cohort
  BY <1>1, <1>6
<1>8. (one \o front)[1] = one[1] /\ (one \o front)[2] = front[1] /\ (one \o front)[3] = front[2]
  <2>1. d \in Int /\ d >= 2 /\ Len(one) + Len(front) = d + 1
    <3>1. d \in Int /\ d >= 2
      BY <1>2
    <3> QED  BY <1>5, <1>7, <3>1
  <2>2. \A i \in 1..(Len(one) + Len(front)) :
           (one \o front)[i] = IF i <= Len(one) THEN one[i] ELSE front[i - Len(one)]
    BY <1>5, <1>7, ConcatProperties
  <2>3. \A i \in 1..(d + 1) : (one \o front)[i] = IF i <= 1 THEN one[i] ELSE front[i - 1]
    BY <1>7, <2>1, <2>2
  <2>4. 1 \in 1..(d + 1) /\ 2 \in 1..(d + 1) /\ 3 \in 1..(d + 1) /\ 2 - 1 = 1 /\ 3 - 1 = 2
    BY <2>1
  <2>5. PICK s : s = one \o front
    OBVIOUS
  <2>6. \A i \in 1..(d + 1) : s[i] = IF i <= 1 THEN one[i] ELSE front[i - 1]
    BY <2>3, <2>5
  <2>7. s[1] = one[1]
    BY <2>4, <2>6
  <2>8. s[2] = front[1]
    BY <2>4, <2>6
  <2>9. s[3] = front[2]
    BY <2>4, <2>6
  <2> QED  BY <2>5, <2>7, <2>8, <2>9
<1>9. PrefixOf(q, d) = one \o front
  BY <1>4, <1>6 DEF PrefixOf
<1> QED  BY <1>5, <1>7, <1>8, <1>9

\* Who is of a family.
MembersOf(s, f) == {i \in DOMAIN s : s[i].family = f}

\* They are the members of the decisions so far.
LEMMA MembersAre == \A f : Members(f) = MembersOf(placed, f)
BY DEF Members, MembersOf

\* A request that begins with the cohort and the blocks a prefix begins with.
Under(x, q) == Len(q.raw) >= 2 /\ q.cohort = x[1] /\ q.raw[1] = x[2] /\ q.raw[2] = x[3]

\* What FamiliesShareTheirRoot says, of a sequence of decisions.
Kin(q, r) == /\ q.cohort = r.cohort /\ Len(q.raw) >= 2 /\ Len(r.raw) >= 2
             /\ \A b \in 1..2 : q.raw[b] = r.raw[b]

Rooted(s) ==
    \A i \in DOMAIN s : s[i].family # 0 =>
        /\ Cardinality(MembersOf(s, s[i].family)) <= FamilyLimit
        /\ \A j \in MembersOf(s, s[i].family) \ {i} : Kin(s[i].request, s[j].request)

\* The prefixes point to known whose requests all begin with them.
FamilyInv ==
    /\ placed \in Seq(ToSet(placed))
    /\ \A i \in DOMAIN placed : placed[i].request \in Arriving /\ placed[i].family \in Nat
    /\ Rooted(placed)
    /\ \A x \in DOMAIN prefixes :
          /\ prefixes[x] # 0
          /\ \E i \in DOMAIN placed : placed[i].family = prefixes[x]
          /\ \A i \in DOMAIN placed : placed[i].family = prefixes[x] => Under(x, placed[i].request)

\* A family is finite.
LEMMA MembersFinite ==
    ASSUME FamilyInv, NEW f
    PROVE  IsFiniteSet(Members(f)) /\ Cardinality(Members(f)) \in Nat
<1>1. DOMAIN placed = 1..Len(placed) /\ Len(placed) \in Nat
  BY AppendedIs DEF FamilyInv
<1>2. IsFiniteSet(DOMAIN placed)
  BY <1>1, FS_Interval
<1>3. Members(f) \subseteq DOMAIN placed
  BY DEF Members
<1> QED  BY <1>2, <1>3, FS_Subset, FS_CardinalityType

\* The members of the known when a request joins one.
LEMMA JoinedMembers ==
    ASSUME FamilyInv, NEW q, NEW family, NEW n, placed' = Append(placed, [request |-> q, node |-> n, family |-> family])
    PROVE  /\ DOMAIN placed = 1..Len(placed) /\ Len(placed) \in Nat
           /\ placed' \in Seq(ToSet(placed')) /\ DOMAIN placed' = 1..(Len(placed) + 1)
           /\ \A i \in 1..Len(placed) : placed'[i] = placed[i]
           /\ placed'[Len(placed) + 1].request = q /\ placed'[Len(placed) + 1].family = family
           /\ \A f : MembersOf(placed', f) = MembersOf(placed, f) \cup (IF f = family THEN {Len(placed) + 1} ELSE {})
<1>1. PICK r : r = [request |-> q, node |-> n, family |-> family]
  OBVIOUS
<1>2. placed \in Seq(ToSet(placed)) /\ placed' = Append(placed, r)
  BY <1>1 DEF FamilyInv
<1>3. /\ Len(placed) \in Nat /\ DOMAIN placed = 1..Len(placed)
      /\ placed' \in Seq(ToSet(placed'))
      /\ DOMAIN placed' = 1..(Len(placed) + 1)
      /\ \A i \in 1..Len(placed) : placed'[i] = placed[i]
      /\ placed'[Len(placed) + 1] = r
  BY <1>2, AppendedIs
<1>4. r.request = q /\ r.family = family
  BY <1>1
<1>5. ASSUME NEW f PROVE MembersOf(placed', f) = MembersOf(placed, f) \cup (IF f = family THEN {Len(placed) + 1} ELSE {})
  <2>1. MembersOf(placed, f) = {i \in 1..Len(placed) : placed[i].family = f}
    BY <1>3 DEF MembersOf
  <2>2. MembersOf(placed', f) = {i \in 1..(Len(placed) + 1) : placed'[i].family = f}
    BY <1>3 DEF MembersOf
  <2>3. \A i \in 1..(Len(placed) + 1) : i \in 1..Len(placed) \/ i = Len(placed) + 1
    BY <1>3
  <2>4. Len(placed) + 1 \in 1..(Len(placed) + 1) /\ 1..Len(placed) \subseteq 1..(Len(placed) + 1)
    BY <1>3
  <2>5. ASSUME NEW i
        PROVE  i \in MembersOf(placed', f) <=> i \in MembersOf(placed, f) \/ (f = family /\ i = Len(placed) + 1)
    BY <1>3, <1>4, <2>1, <2>2, <2>3, <2>4
  <2> QED  BY <2>5
<1> QED  BY <1>3, <1>4, <1>5

\* A request of a family of its kin joins it, or founds one, and its prefixes follow.
LEMMA JoinKeeps ==
    ASSUME FamilyInv, NEW q \in Arriving, NEW family \in Nat, NEW n,
           placed' = Append(placed, [request |-> q, node |-> n, family |-> family]),
           family # 0 =>
              /\ Cardinality(Members(family)) < FamilyLimit
              /\ \A i \in DOMAIN placed : placed[i].family = family =>
                     Len(q.raw) >= 2 /\ Under(<<q.cohort, q.raw[1], q.raw[2]>>, placed[i].request),
           \A x \in DOMAIN prefixes' :
              \/ x \in DOMAIN prefixes /\ prefixes'[x] = prefixes[x]
              \/ prefixes'[x] = family /\ family # 0 /\ Under(x, q)
    PROVE  FamilyInv'
<1>1. PICK k \in Nat : k = Len(placed) /\ DOMAIN placed = 1..k
  BY AppendedIs DEF FamilyInv
<1>2. /\ placed' \in Seq(ToSet(placed')) /\ DOMAIN placed' = 1..(k + 1)
      /\ \A i \in 1..k : placed'[i] = placed[i]
      /\ placed'[k + 1].request = q /\ placed'[k + 1].family = family
      /\ \A f : MembersOf(placed', f) = MembersOf(placed, f) \cup (IF f = family THEN {k + 1} ELSE {})
  BY <1>1, JoinedMembers
<1>3. \A i \in 1..(k + 1) : i \in 1..k \/ i = k + 1
  BY <1>1
<1>4. \A i \in DOMAIN placed' : placed'[i].request \in Arriving /\ placed'[i].family \in Nat
  BY <1>1, <1>2, <1>3 DEF FamilyInv
<1>5. \A f : /\ Members(f) = {i \in 1..k : placed[i].family = f}
              /\ Members(f) = MembersOf(placed, f)
  BY <1>1, MembersAre DEF Members
<1>6. \A f : MembersOf(placed', f) = {i \in 1..(k + 1) : placed'[i].family = f}
  BY <1>2 DEF MembersOf
<1>7. ASSUME NEW i \in 1..k, placed[i].family = family, family # 0
      PROVE  Kin(placed[i].request, q) /\ Kin(q, placed[i].request)
  <2>1. Len(q.raw) >= 2 /\ Under(<<q.cohort, q.raw[1], q.raw[2]>>, placed[i].request)
    BY <1>1, <1>7
  <2>2. PICK r : r = placed[i].request
    OBVIOUS
  <2>3. Len(r.raw) >= 2 /\ r.cohort = q.cohort /\ r.raw[1] = q.raw[1] /\ r.raw[2] = q.raw[2]
    BY <2>1, <2>2 DEF Under
  <2>4. \A b \in 1..2 : b = 1 \/ b = 2
    OBVIOUS
  <2> QED  BY <2>1, <2>2, <2>3, <2>4 DEF Kin
<1>8. ASSUME NEW i \in 1..k, NEW j \in 1..k, i # j, placed[i].family = placed[j].family, placed[i].family # 0
      PROVE  Kin(placed[i].request, placed[j].request)
  <2>1. j \in MembersOf(placed, placed[i].family) \ {i}
    BY <1>5, <1>8
  <2> QED  BY <1>1, <1>8, <2>1 DEF FamilyInv, Rooted
<1>9. ASSUME NEW i \in 1..(k + 1), NEW j \in 1..(k + 1), i # j,
             placed'[i].family = placed'[j].family, placed'[i].family # 0
      PROVE  Kin(placed'[i].request, placed'[j].request)
  <2>1. CASE i \in 1..k /\ j \in 1..k
    BY <1>2, <1>8, <1>9, <2>1
  <2>2. CASE i = k + 1 /\ j \in 1..k
    BY <1>2, <1>7, <1>9, <2>2
  <2>3. CASE i \in 1..k /\ j = k + 1
    BY <1>2, <1>7, <1>9, <2>3
  <2> QED  BY <1>3, <1>9, <2>1, <2>2, <2>3
<1>10. ASSUME NEW i \in 1..(k + 1), NEW f, f = placed'[i].family, f # 0
       PROVE  Cardinality(MembersOf(placed', f)) <= FamilyLimit
  <2>2. IsFiniteSet(Members(f)) /\ Cardinality(Members(f)) \in Nat /\ FamilyLimit \in Nat
    BY MembersFinite, PlacementAssumption
  <2>3. CASE f = family
    <3>1. MembersOf(placed', f) = Members(f) \cup {k + 1}
      BY <1>2, <1>5, <2>3
    <3>2. k + 1 \notin Members(f)
      BY <1>1, <1>5
    <3>3. Cardinality(Members(f) \cup {k + 1}) = Cardinality(Members(f)) + 1
      BY <2>2, <3>2, FS_AddElement
    <3>4. Cardinality(Members(f)) < FamilyLimit
      BY <1>10, <2>3
    <3>5. Cardinality(Members(f)) + 1 <= FamilyLimit
      BY <2>2, <3>4
    <3> QED  BY <3>1, <3>3, <3>5
  <2>4. CASE f # family
    <3>1. MembersOf(placed', f) = Members(f)
      <4>1. MembersOf(placed', f) = MembersOf(placed, f) \cup (IF f = family THEN {k + 1} ELSE {})
        BY <1>2
      <4>2. MembersOf(placed', f) = MembersOf(placed, f)
        BY <2>4, <4>1
      <4> QED  BY <1>5, <4>2
    <3>2. i \in 1..k /\ placed[i].family = f
      <4>1. i # k + 1
        BY <1>2, <1>10, <2>4
      <4>2. i \in 1..k
        BY <1>3, <1>10, <4>1
      <4>3. placed'[i] = placed[i]
        BY <1>2, <4>2
      <4> QED  BY <1>10, <4>2, <4>3
    <3>3. Cardinality(Members(f)) <= FamilyLimit
      BY <1>1, <1>5, <1>10, <3>2 DEF FamilyInv, Rooted
    <3> QED  BY <3>1, <3>3
  <2> QED  BY <2>3, <2>4
<1>11. Rooted(placed')
  <2>1. ASSUME NEW i \in 1..(k + 1), NEW f, f = placed'[i].family, f # 0,
               NEW j \in MembersOf(placed', f) \ {i}
        PROVE  Kin(placed'[i].request, placed'[j].request)
    <3>1. j \in 1..(k + 1) /\ placed'[j].family = placed'[i].family
      <4>1. MembersOf(placed', f) = {m \in 1..(k + 1) : placed'[m].family = f}
        BY <1>6
      <4> QED  BY <2>1, <4>1
    <3>2. i # j /\ placed'[i].family # 0
      BY <2>1
    <3> QED  BY <1>9, <2>1, <3>1, <3>2
  <2>2. ASSUME NEW i \in 1..(k + 1), NEW f, f = placed'[i].family, f # 0
        PROVE  /\ Cardinality(MembersOf(placed', f)) <= FamilyLimit
               /\ \A j \in MembersOf(placed', f) \ {i} : Kin(placed'[i].request, placed'[j].request)
    <3>1. Cardinality(MembersOf(placed', f)) <= FamilyLimit
      BY <1>10, <2>2
    <3>2. ASSUME NEW j \in MembersOf(placed', f) \ {i}
          PROVE  Kin(placed'[i].request, placed'[j].request)
      BY <2>1, <2>2, <3>2
    <3> QED  BY <3>1, <3>2
  <2>3. ASSUME NEW i \in DOMAIN placed', placed'[i].family # 0
        PROVE  /\ Cardinality(MembersOf(placed', placed'[i].family)) <= FamilyLimit
               /\ \A j \in MembersOf(placed', placed'[i].family) \ {i} :
                     Kin(placed'[i].request, placed'[j].request)
    <3>1. PICK f : f = placed'[i].family
      OBVIOUS
    <3>2. i \in 1..(k + 1) /\ f # 0
      BY <1>2, <2>3, <3>1
    <3> QED  BY <2>2, <3>1, <3>2
  <2> QED  BY <2>3 DEF Rooted
<1>12. ASSUME NEW x \in DOMAIN prefixes'
       PROVE  /\ prefixes'[x] # 0
              /\ \E i \in DOMAIN placed' : placed'[i].family = prefixes'[x]
              /\ \A i \in DOMAIN placed' : placed'[i].family = prefixes'[x] =>
                     Under(x, placed'[i].request)
  <2>1. CASE x \in DOMAIN prefixes /\ prefixes'[x] = prefixes[x]
    <3>1. PICK i \in 1..k : placed[i].family = prefixes[x]
      BY <1>1, <2>1 DEF FamilyInv
    <3>2. prefixes[x] # 0 /\ \A j \in 1..k : placed[j].family = prefixes[x] => Under(x, placed[j].request)
      BY <1>1, <2>1 DEF FamilyInv
    <3>3. i \in DOMAIN placed' /\ placed'[i].family = prefixes'[x]
      BY <1>1, <1>2, <2>1, <3>1
    <3>4. ASSUME family = prefixes[x] PROVE Under(x, q)
      <4>1. Len(q.raw) >= 2 /\ Under(<<q.cohort, q.raw[1], q.raw[2]>>, placed[i].request)
        BY <1>1, <3>1, <3>2, <3>4
      <4>2. Under(x, placed[i].request)
        BY <3>1, <3>2
      <4> QED  BY <4>1, <4>2 DEF Under
    <3>5. ASSUME NEW j \in 1..(k + 1), placed'[j].family = prefixes'[x]
          PROVE  Under(x, placed'[j].request)
      BY <1>2, <1>3, <2>1, <3>2, <3>4, <3>5
    <3> QED  BY <1>2, <2>1, <3>2, <3>3, <3>5
  <2>2. CASE prefixes'[x] = family /\ family # 0 /\ Under(x, q)
    <3>1. ASSUME NEW j \in 1..k, placed[j].family = family PROVE Under(x, placed[j].request)
      <4>1. Len(q.raw) >= 2 /\ Under(<<q.cohort, q.raw[1], q.raw[2]>>, placed[j].request)
        BY <1>1, <2>2, <3>1
      <4> QED  BY <2>2, <4>1 DEF Under
    <3>2. ASSUME NEW j \in 1..(k + 1), placed'[j].family = prefixes'[x]
          PROVE  Under(x, placed'[j].request)
      BY <1>2, <1>3, <2>2, <3>1, <3>2
    <3>3. k + 1 \in DOMAIN placed' /\ placed'[k + 1].family = prefixes'[x]
      BY <1>1, <1>2, <2>2
    <3> QED  BY <1>2, <2>2, <3>2, <3>3
  <2> QED  BY <2>1, <2>2
<1> QED  BY <1>2, <1>4, <1>11, <1>12 DEF FamilyInv

\* The family of a request: one of its kin with room, or one that nobody is in.
LEMMA FamilyIs ==
    ASSUME FamilyInv, NEW q \in Arriving
    PROVE  /\ FamilyOf(q) \in Nat \ {0}
           /\ Cardinality(Members(FamilyOf(q))) < FamilyLimit
           /\ \A i \in DOMAIN placed : placed[i].family = FamilyOf(q) =>
                  Len(q.raw) >= 2 /\ Under(<<q.cohort, q.raw[1], q.raw[2]>>, placed[i].request)
<1>1. PICK k \in Nat : k = Len(placed) /\ DOMAIN placed = 1..k
  BY AppendedIs DEF FamilyInv
<1>2. PICK n \in Nat : n = Len(q.raw)
  BY RawIs
<1>3. PICK top : top = Min({FamilyDepth, n})
  OBVIOUS
<1>4. top \in Int /\ top <= n
  <2>1. FamilyDepth \in Int /\ n \in Int
    BY <1>2, PlacementAssumption
  <2> QED  BY <1>3, <2>1, MinOfTwo
<1>5. PICK depths : depths = {d \in 2..top :
                      /\ PrefixOf(q, d) \in DOMAIN prefixes
                      /\ Cardinality(Members(prefixes[PrefixOf(q, d)])) < FamilyLimit
                      /\ \E i \in 1..d : Count(Keys(q)[i]) < HotCount}
  OBVIOUS
<1>6. PICK known : known = {0} \cup {placed[i].family : i \in DOMAIN placed}
  OBVIOUS
<1>7. FamilyOf(q) = IF depths # {} THEN prefixes[PrefixOf(q, Max(depths))] ELSE 1 + Max(known)
  BY <1>2, <1>3, <1>5, <1>6 DEF FamilyOf
<1>8. CASE depths # {}
  <2>1. IsFiniteSet(2..top) /\ 2..top \subseteq Int
    BY <1>4, FS_Interval
  <2>2. IsFiniteSet(depths) /\ depths \subseteq Int
    BY <1>5, <2>1, FS_Subset
  <2>3. \E m \in depths : \A d \in depths : m >= d
    BY <1>8, <2>2, GreatestExists
  <2>4. PICK d \in depths : d = Max(depths)
    BY <2>3 DEF Max
  <2>5. PICK x : x = PrefixOf(q, d)
    OBVIOUS
  <2>6. d \in 2..Len(q.raw) /\ x \in DOMAIN prefixes /\ FamilyOf(q) = prefixes[x]
        /\ Cardinality(Members(prefixes[x])) < FamilyLimit
    BY <1>2, <1>4, <1>5, <1>7, <1>8, <2>4, <2>5
  <2>7. x[1] = q.cohort /\ x[2] = q.raw[1] /\ x[3] = q.raw[2] /\ Len(q.raw) >= 2
    BY <1>2, <2>5, <2>6, PrefixBegins
  <2>8. /\ prefixes[x] # 0
        /\ \E i \in DOMAIN placed : placed[i].family = prefixes[x]
        /\ \A i \in DOMAIN placed : placed[i].family = prefixes[x] => Under(x, placed[i].request)
    BY <2>6 DEF FamilyInv
  <2>9. prefixes[x] \in Nat
    BY <2>8 DEF FamilyInv
  <2>10. \A r : Under(x, r) => Under(<<q.cohort, q.raw[1], q.raw[2]>>, r)
    BY <2>7 DEF Under
  <2> QED  BY <2>6, <2>7, <2>8, <2>9, <2>10
<1>9. CASE depths = {}
  <2>1. IsFiniteSet(DOMAIN placed)
    BY <1>1, FS_Interval
  <2>2. PICK named : named = [i \in DOMAIN placed |-> placed[i].family]
    OBVIOUS
  <2>3. IsFiniteSet({named[i] : i \in DOMAIN placed})
    BY <2>1, ImageIsFinite
  <2>4. known = {named[i] : i \in DOMAIN placed} \cup {0}
    BY <1>6, <2>2
  <2>5. IsFiniteSet(known)
    BY <2>3, <2>4, FS_AddElement
  <2>6. known \subseteq Nat /\ known # {}
    BY <1>6 DEF FamilyInv
  <2>7. known \subseteq Int
    BY <2>6
  <2>8. \E m \in known : \A f \in known : m >= f
    BY <2>5, <2>6, <2>7, GreatestExists
  <2>9. PICK m \in known : m = Max(known) /\ \A f \in known : m >= f
    BY <2>8 DEF Max
  <2>10. FamilyOf(q) = 1 + m
    BY <1>7, <1>9, <2>9
  <2>11. m \in Nat
    BY <2>6
  <2>12. ASSUME NEW i \in DOMAIN placed PROVE placed[i].family # 1 + m
    <3>1. placed[i].family \in known /\ placed[i].family \in Nat
      BY <1>6 DEF FamilyInv
    <3> QED  BY <2>9, <2>11, <3>1
  <2>13. Members(1 + m) = {}
    BY <2>12 DEF Members
  <2>14. Cardinality({}) = 0 /\ FamilyLimit \in Nat \ {0}
    BY FS_EmptySet, PlacementAssumption
  <2>15. Cardinality(Members(1 + m)) < FamilyLimit
    BY <2>13, <2>14
  <2> QED  BY <2>10, <2>11, <2>12, <2>15
<1> QED  BY <1>8, <1>9

\* The prefixes that are remembered are its own, or were there.
LEMMA RememberedIs ==
    ASSUME NEW q \in Arriving, NEW family
    PROVE  \A x \in DOMAIN Remembered(q, family) :
              \/ x \in DOMAIN prefixes /\ Remembered(q, family)[x] = prefixes[x]
              \/ Remembered(q, family)[x] = family /\ Under(x, q)
<1>1. PICK n \in Nat : n = Len(q.raw)
  BY RawIs
<1>2. PICK top : top = Min({FamilyDepth, n})
  OBVIOUS
<1>3. top \in Int /\ top <= n
  <2>1. FamilyDepth \in Int /\ n \in Int
    BY <1>1, PlacementAssumption
  <2> QED  BY <1>2, <2>1, MinOfTwo
<1>4. PICK own : own = {PrefixOf(q, d) : d \in 2..top}
  OBVIOUS
<1>5. PICK taken \in SUBSET own : Remembered(q, family) =
          [x \in DOMAIN prefixes \cup taken |-> IF x \in taken THEN family ELSE prefixes[x]]
  BY <1>1, <1>2, <1>4 DEF Remembered
<1>6. ASSUME NEW x \in own PROVE Under(x, q)
  <2>1. PICK d \in 2..top : x = PrefixOf(q, d)
    BY <1>4
  <2>2. d \in 2..Len(q.raw) /\ Len(q.raw) >= 2
    BY <1>1, <1>3
  <2> QED  BY <2>1, <2>2, PrefixBegins DEF Under
<1> QED  BY <1>5, <1>6

\* An arrival leaves every family with its root.
LEMMA ArriveFamilies == ASSUME FamilyInv, Arrive PROVE FamilyInv'
<1>1. PICK q, queue : q \in Arriving /\ (PlanEmpty(q) \/ PlanRequest(q, queue) \/ NoCandidate(q, queue))
  BY DEF Arrive
<1>2. CASE PlanEmpty(q)
  <2>1. PICK n : placed' = Append(placed, [request |-> q, node |-> n, family |-> 0])
    BY <1>2 DEF PlanEmpty, Planned
  <2>2. prefixes' = prefixes
    BY <1>2 DEF PlanEmpty
  <2> QED  BY <1>1, <2>1, <2>2, JoinKeeps
<1>3. CASE PlanRequest(q, queue)
  <2>1. PICK family, n :
           /\ family = IF strategy = "S4" THEN FamilyOf(q) ELSE 0
           /\ placed' = Append(placed, [request |-> q, node |-> n, family |-> family])
           /\ prefixes' = IF strategy = "S4" THEN Remembered(q, family) ELSE prefixes
    BY <1>3 DEF PlanRequest, Planned
  <2>2. CASE strategy = "S4"
    <3>1. family = FamilyOf(q) /\ prefixes' = Remembered(q, family)
      BY <2>1, <2>2
    <3>2. /\ family \in Nat /\ family # 0
          /\ Cardinality(Members(family)) < FamilyLimit
          /\ \A i \in DOMAIN placed : placed[i].family = family =>
                  Len(q.raw) >= 2 /\ Under(<<q.cohort, q.raw[1], q.raw[2]>>, placed[i].request)
      BY <1>1, <3>1, FamilyIs
    <3>3. \A x \in DOMAIN prefixes' :
              \/ x \in DOMAIN prefixes /\ prefixes'[x] = prefixes[x]
              \/ prefixes'[x] = family /\ family # 0 /\ Under(x, q)
      BY <1>1, <3>1, <3>2, RememberedIs
    <3> QED  BY <1>1, <2>1, <3>2, <3>3, JoinKeeps
  <2>3. CASE strategy # "S4"
    <3>1. family = 0 /\ prefixes' = prefixes
      BY <2>1, <2>3
    <3> QED  BY <1>1, <2>1, <3>1, JoinKeeps
  <2> QED  BY <2>2, <2>3
<1>4. CASE NoCandidate(q, queue)
  BY <1>4 DEF NoCandidate, FamilyInv
<1> QED  BY <1>1, <1>2, <1>3, <1>4

\* A plan's cover, and its company.
PlaceInv == CoverInv /\ FamilyInv

\* What waits stays covered, and a family keeps its root.
THEOREM PlacementInvariance == Spec => []PlaceInv
<1>1. Init => PlaceInv
  <2>1. SUFFICES ASSUME Init PROVE PlaceInv
    OBVIOUS
  <2>2. DOMAIN <<>> = {} /\ <<>> \in Seq(Attempts) /\ <<>> \in Seq(ToSet(<<>>))
    OBVIOUS
  <2>3. /\ DOMAIN resident = PNode /\ DOMAIN running = PNode
        /\ waiting \in [PNode -> Seq(Attempts)]
        /\ \A n \in PNode : waiting[n] = <<>> /\ running[n] = <<>>
        /\ placed = <<>> /\ prefixes = <<>>
    BY <2>1, <2>2 DEF Init, PlacementInit
  <2>4. CoverInv
    BY <2>2, <2>3 DEF CoverInv, PlanCoversCharge, Attempts
  <2>5. FamilyInv
    BY <2>2, <2>3 DEF FamilyInv, Rooted
  <2> QED  BY <2>4, <2>5 DEF PlaceInv
<1>2. PlaceInv /\ [Next]_vars => PlaceInv'
  <2>1. SUFFICES ASSUME PlaceInv, [Next]_vars PROVE PlaceInv'
    OBVIOUS
  <2>2. CASE PlacementNext
    <3>1. CASE Arrive
      BY <2>1, <3>1, ArriveCovers, ArriveFamilies DEF PlaceInv
    <3>2. CASE \E n \in PNode : StartPrefill(n) \/ EndPrefill(n)
      <4>1. CoverInv'
        BY <2>1, <3>2, StartCovers, EndCovers DEF PlaceInv
      <4>2. placed' = placed /\ prefixes' = prefixes
        BY <3>2 DEF StartPrefill, EndPrefill
      <4> QED  BY <2>1, <4>1, <4>2 DEF PlaceInv, FamilyInv
    <3> QED  BY <2>2, <3>1, <3>2 DEF PlacementNext
  <2>3. CASE UNCHANGED placementVars
    <3>1. CoverInv'
      BY <2>1, <2>3 DEF PlaceInv, CoverInv, PlanCoversCharge, placementVars
    <3> QED  BY <2>1, <2>3, <3>1 DEF PlaceInv, FamilyInv, placementVars
  <2> QED  BY <2>1, <2>2, <2>3 DEF Next, Select, Kvs, Lease, Life, Size, Place, Over, vars
<1> QED  BY <1>1, <1>2, PTL DEF Spec

\* For any requests, nodes, prices, limits and strategies: no attempt is charged
\* more than it was scored with, and a family shares its root and stays within
\* its limit (m12_placement.py 344-547, m12_kernel.py 1028-1053).
THEOREM PlacementsKeepTheirPromise == Spec => []PlacementIsSound
<1>1. PlaceInv => PlacementIsSound
  <2>1. Rooted(placed) => FamiliesShareTheirRoot
    BY MembersAre DEF Rooted, Kin, FamiliesShareTheirRoot
  <2> QED  BY <2>1 DEF PlaceInv, CoverInv, FamilyInv, PlacementIsSound
<1> QED  BY <1>1, PlacementInvariance, PTL
-----------------------------------------------------------------------------
\* Node selection: the hot rule.

\* What a hot tracker is when it has counted its blocks.
Bin(c, f) == {b \in DOMAIN c : c[b] = f}
Histogram(c) == [f \in {c[b] : b \in DOMAIN c} |-> Cardinality(Bin(c, f))]
HotOf(c, t) == [counts |-> c, histogram |-> Histogram(c), threshold |-> t]
Once(x, new) == IF x \in new THEN 1 ELSE 0
Tally(c, new) == [x \in DOMAIN c \cup new |-> At(c, x) + Once(x, new)]
IsTally(c) == /\ IsFiniteSet(DOMAIN c) /\ c = [x \in DOMAIN c |-> c[x]]
              /\ \A x \in DOMAIN c : c[x] \in Nat \ {0}

\* A histogram counts every block once.
LEMMA HistogramIs ==
    ASSUME NEW c, IsTally(c)
    PROVE  /\ DOMAIN Histogram(c) = {c[b] : b \in DOMAIN c}
           /\ IsFiniteSet(DOMAIN Histogram(c)) /\ DOMAIN Histogram(c) \subseteq Nat \ {0}
           /\ \A f \in DOMAIN Histogram(c) : Histogram(c)[f] \in Nat \ {0}
           /\ \A f : /\ IsFiniteSet(Bin(c, f))
                     /\ Cardinality(Bin(c, f)) \in Nat
                     /\ Cardinality(Bin(c, f)) =
                           IF f \in DOMAIN Histogram(c) THEN Histogram(c)[f] ELSE 0
<1>1. DOMAIN Histogram(c) = {c[b] : b \in DOMAIN c}
  BY DEF Histogram
<1>2. IsFiniteSet(DOMAIN Histogram(c)) /\ DOMAIN Histogram(c) \subseteq Nat \ {0}
  <2>1. IsFiniteSet({c[b] : b \in DOMAIN c})
    BY ImageIsFinite DEF IsTally
  <2> QED  BY <1>1, <2>1 DEF IsTally
<1>3. ASSUME NEW f
      PROVE  /\ IsFiniteSet(Bin(c, f))
             /\ Cardinality(Bin(c, f)) \in Nat
  <2>1. Bin(c, f) \subseteq DOMAIN c /\ IsFiniteSet(DOMAIN c)
    BY DEF IsTally, Bin
  <2> QED  BY <2>1, FS_Subset, FS_CardinalityType
<1>4. ASSUME NEW f, f \notin DOMAIN Histogram(c)
      PROVE  Cardinality(Bin(c, f)) = 0
  <2>1. Bin(c, f) = {}
    BY <1>1, <1>4 DEF Bin
  <2> QED  BY <2>1, FS_EmptySet
<1>5. ASSUME NEW f \in DOMAIN Histogram(c)
      PROVE  /\ Histogram(c)[f] = Cardinality(Bin(c, f))
             /\ Histogram(c)[f] \in Nat \ {0}
  <2>1. Histogram(c)[f] = Cardinality(Bin(c, f))
    BY <1>1, <1>5 DEF Histogram
  <2>2. Bin(c, f) # {}
    BY <1>1, <1>5 DEF Bin
  <2>3. Cardinality(Bin(c, f)) # 0
    BY <1>3, <2>2, FS_EmptySet
  <2> QED  BY <1>3, <2>1, <2>3
<1>6. ASSUME NEW f
      PROVE  Cardinality(Bin(c, f)) =
                IF f \in DOMAIN Histogram(c) THEN Histogram(c)[f] ELSE 0
  BY <1>4, <1>5
<1> QED  BY <1>1, <1>2, <1>3, <1>5, <1>6

\* How often a block was counted.
LEMMA CountedIs ==
    ASSUME NEW c, IsTally(c)
    PROVE  \A x : At(c, x) \in Nat /\ (x \in DOMAIN c => At(c, x) \in Nat \ {0})
BY DEF IsTally, At

\* Counting nothing.
LEMMA TallyOfNone == ASSUME NEW c, IsTally(c) PROVE Tally(c, {}) = c
<1>1. \A x \in DOMAIN c : At(c, x) + Once(x, {}) = c[x]
  BY DEF At, IsTally, Once
<1>2. Tally(c, {}) = [x \in DOMAIN c |-> c[x]]
  BY <1>1 DEF Tally
<1> QED  BY <1>2 DEF IsTally

\* Counting each of a set once.
LEMMA TallyIs ==
    ASSUME NEW c, IsTally(c), NEW new, IsFiniteSet(new)
    PROVE  IsTally(Tally(c, new)) /\ DOMAIN Tally(c, new) = DOMAIN c \cup new
<1>1. DOMAIN Tally(c, new) = DOMAIN c \cup new
  BY DEF Tally
<1>2. IsFiniteSet(DOMAIN c \cup new)
  BY FS_Union DEF IsTally
<1>3. ASSUME NEW x \in DOMAIN c \cup new PROVE Tally(c, new)[x] \in Nat \ {0}
  <2>1. Tally(c, new)[x] = At(c, x) + Once(x, new)
    BY DEF Tally
  <2> QED  BY <2>1, CountedIs DEF Once
<1>4. Tally(c, new) = [x \in DOMAIN Tally(c, new) |-> Tally(c, new)[x]]
  BY DEF Tally
<1> QED  BY <1>1, <1>2, <1>3, <1>4 DEF IsTally

\* A block counts one more if it was among them.
LEMMA TallyCounts ==
    ASSUME NEW c, IsTally(c), NEW new, IsFiniteSet(new), NEW x
    PROVE  At(Tally(c, new), x) = At(c, x) + Once(x, new)
<1>1. At(c, x) \in Nat
  BY CountedIs
<1>2. CASE x \in DOMAIN c \cup new
  BY <1>2 DEF Tally, At
<1>3. CASE x \notin DOMAIN c \cup new
  <2>1. x \notin DOMAIN Tally(c, new)
    BY <1>3 DEF Tally
  <2>2. At(Tally(c, new), x) = 0 /\ At(c, x) = 0 /\ Once(x, new) = 0
    BY <1>3, <2>1 DEF At, Once
  <2> QED  BY <2>2
<1> QED  BY <1>2, <1>3

\* One more block after others.
LEMMA TallyOfMore ==
    ASSUME NEW c, IsTally(c), NEW new, IsFiniteSet(new), NEW x, x \notin new
    PROVE  Tally(Tally(c, new), {x}) = Tally(c, new \cup {x})
<1>1. PICK d : d = Tally(c, new)
  OBVIOUS
<1>2. DOMAIN d \cup {x} = DOMAIN c \cup (new \cup {x})
  <2>1. DOMAIN d = DOMAIN c \cup new
    BY <1>1 DEF Tally
  <2> QED  BY <2>1
<1>3. ASSUME NEW y \in DOMAIN d \cup {x}
      PROVE  At(d, y) + Once(y, {x})
                 = At(c, y) + Once(y, new \cup {x})
  <2>1. At(d, y) = At(c, y) + Once(y, new) /\ At(c, y) \in Nat
    BY <1>1, TallyCounts, CountedIs
  <2> QED  BY <2>1 DEF Once
<1>4. Tally(d, {x}) = Tally(c, new \cup {x})
  BY <1>2, <1>3 DEF Tally
<1> QED  BY <1>1, <1>4

\* One more of a block takes it out of its bin and puts it into the next.
LEMMA HistogramMoves ==
    ASSUME NEW c, IsTally(c), NEW x
    PROVE  Histogram(Tally(c, {x}))
               = (Histogram(c) (-) SetToBag({At(c, x)})) (+) SetToBag({At(c, x) + 1})
<1>1. PICK d : d = Tally(c, {x})
  OBVIOUS
<1>2. PICK n : n = At(c, x)
  OBVIOUS
<1>3. PICK one : one = {x} /\ IsFiniteSet(one)
  BY FS_Singleton
<1>4. /\ IsTally(d) /\ DOMAIN d = DOMAIN c \cup one /\ n \in Nat
      /\ \A y : At(d, y) = At(c, y) + Once(y, one)
      /\ \A y : At(c, y) \in Nat
  <2>1. IsTally(d) /\ DOMAIN d = DOMAIN c \cup one
    BY <1>1, <1>3, TallyIs
  <2>2. ASSUME NEW y PROVE At(d, y) = At(c, y) + Once(y, one)
    BY <1>1, <1>3, TallyCounts
  <2> QED  BY <1>2, <2>1, <2>2, CountedIs
<1>5. /\ \A y \in DOMAIN d : y # x => y \in DOMAIN c /\ d[y] = c[y]
      /\ d[x] = n + 1
      /\ x \in DOMAIN c => c[x] = n
      /\ x \notin DOMAIN c => n = 0
  BY <1>2, <1>3, <1>4 DEF At, Once
<1>6. \A f : /\ Cardinality(Bin(c, f)) \in Nat /\ IsFiniteSet(Bin(c, f))
             /\ Cardinality(Bin(c, f)) = IF f \in DOMAIN Histogram(c) THEN Histogram(c)[f] ELSE 0
  BY HistogramIs
<1>7. \A f : /\ Cardinality(Bin(d, f)) \in Nat
             /\ Cardinality(Bin(d, f)) = IF f \in DOMAIN Histogram(d) THEN Histogram(d)[f] ELSE 0
  BY <1>4, HistogramIs
<1>8. DOMAIN d = DOMAIN c \cup {x}
  BY <1>3, <1>4
<1>9. ASSUME NEW f, f # n, f # n + 1 PROVE Bin(d, f) = Bin(c, f)
  BY <1>5, <1>8, <1>9 DEF Bin
<1>10. Bin(d, n + 1) = Bin(c, n + 1) \cup {x} /\ x \notin Bin(c, n + 1)
  BY <1>4, <1>5, <1>8 DEF Bin
<1>11. Bin(d, n) = Bin(c, n) \ {x} /\ (n # 0 => x \in Bin(c, n)) /\ (n = 0 => Bin(c, n) = {})
  <2>1. x \notin Bin(d, n)
    BY <1>4, <1>5 DEF Bin
  <2>2. n # 0 => x \in Bin(c, n)
    BY <1>5 DEF Bin
  <2>3. n = 0 => Bin(c, n) = {}
    BY DEF IsTally, Bin
  <2>4. ASSUME NEW y PROVE y \in Bin(d, n) <=> y \in Bin(c, n) \ {x}
    BY <1>5, <1>8, <2>1 DEF Bin
  <2> QED  BY <2>2, <2>3, <2>4
<1>12. Cardinality(Bin(d, n + 1)) = Cardinality(Bin(c, n + 1)) + 1
  <2>1. PICK bin : bin = Bin(c, n + 1) /\ IsFiniteSet(bin) /\ x \notin bin
    BY <1>6, <1>10
  <2>2. Cardinality(bin \cup {x}) = Cardinality(bin) + 1
    BY <2>1, FS_AddElement
  <2> QED  BY <1>10, <2>1, <2>2
<1>13. Cardinality(Bin(d, n)) = IF n = 0 THEN 0 ELSE Cardinality(Bin(c, n)) - 1
  <2>1. CASE n = 0
    <3>1. Bin(d, n) = {}
      BY <1>11, <2>1
    <3> QED  BY <2>1, <3>1, FS_EmptySet
  <2>2. CASE n # 0
    <3>1. PICK bin : bin = Bin(c, n) /\ IsFiniteSet(bin) /\ x \in bin
      BY <1>6, <1>11, <2>2
    <3>2. Cardinality(bin \ {x}) = Cardinality(bin) - 1
      BY <3>1, FS_RemoveElement
    <3> QED  BY <1>11, <2>2, <3>1, <3>2
  <2> QED  BY <2>1, <2>2
<1> DEFINE H == Histogram(c)
           K == Histogram(d)
           Less == H (-) SetToBag({n})
           More == Less (+) SetToBag({n + 1})
<1>14. /\ \A f \in DOMAIN H : H[f] \in Nat \ {0}
       /\ \A f \in DOMAIN K : K[f] \in Nat \ {0}
       /\ H = [f \in DOMAIN H |-> H[f]] /\ K = [f \in DOMAIN K |-> K[f]]
       /\ DOMAIN H \subseteq Nat \ {0}
  <2>1. H = [f \in DOMAIN H |-> H[f]] /\ K = [f \in DOMAIN K |-> K[f]]
    BY DEF Histogram
  <2> QED  BY <1>4, <2>1, HistogramIs
<1>15. /\ \A f : f \in DOMAIN K <=> Cardinality(Bin(d, f)) # 0
       /\ \A f : f \in DOMAIN H <=> Cardinality(Bin(c, f)) # 0
  BY <1>6, <1>7, <1>14
<1>16. /\ DOMAIN Less = {f \in DOMAIN H : (IF f = n THEN H[f] - 1 ELSE H[f]) > 0}
       /\ \A f \in DOMAIN Less : Less[f] = IF f = n THEN H[f] - 1 ELSE H[f]
  <2> HIDE DEF H
  <2>1. PICK b : b = [f \in DOMAIN H |-> IF f \in {n} THEN H[f] - 1 ELSE H[f]]
    OBVIOUS
  <2>2. DOMAIN SetToBag({n}) = {n} /\ SetToBag({n})[n] = 1
    BY DEF SetToBag
  <2>3. b = [f \in DOMAIN H |-> IF f \in DOMAIN SetToBag({n}) THEN H[f] - SetToBag({n})[f] ELSE H[f]]
    BY <2>1, <2>2
  <2>4. Less = [f \in {g \in DOMAIN b : b[g] > 0} |-> b[f]]
    BY <2>3 DEF (-)
  <2>5. DOMAIN b = DOMAIN H /\ \A f \in DOMAIN H : b[f] = IF f = n THEN H[f] - 1 ELSE H[f]
    BY <2>1
  <2> QED  BY <2>4, <2>5
<1>17. /\ DOMAIN More = DOMAIN Less \cup {n + 1}
       /\ More = [f \in DOMAIN More |-> More[f]]
       /\ \A f \in DOMAIN More : More[f] = (IF f \in DOMAIN Less THEN Less[f] ELSE 0)
                                           + (IF f = n + 1 THEN 1 ELSE 0)
  <2> HIDE DEF Less
  <2>1. DOMAIN SetToBag({n + 1}) = {n + 1} /\ SetToBag({n + 1})[n + 1] = 1
    BY DEF SetToBag
  <2>2. More = [f \in DOMAIN Less \cup DOMAIN SetToBag({n + 1}) |->
                   (IF f \in DOMAIN Less THEN Less[f] ELSE 0)
                   + (IF f \in DOMAIN SetToBag({n + 1}) THEN SetToBag({n + 1})[f] ELSE 0)]
    BY DEF (+)
  <2> QED  BY <2>1, <2>2
<1> HIDE DEF H, K, Less, More
<1>18. ASSUME NEW f
       PROVE  /\ f \in DOMAIN K <=> f \in DOMAIN More
              /\ f \in DOMAIN K => K[f] = More[f]
  <2>1. CASE f # n /\ f # n + 1
    <3>1. Bin(d, f) = Bin(c, f)
      BY <1>9, <2>1
    <3>2. f \in DOMAIN K <=> f \in DOMAIN H
      BY <1>15, <3>1
    <3>3. f \in DOMAIN K => K[f] = H[f]
      BY <1>6, <1>7, <3>1, <3>2 DEF H, K
    <3>4. f \in DOMAIN H <=> f \in DOMAIN Less
      BY <1>14, <1>16, <2>1
    <3>5. f \in DOMAIN Less => Less[f] = H[f]
      BY <1>16, <2>1
    <3>6. f \in DOMAIN H => H[f] \in Nat
      BY <1>14
    <3> QED  BY <1>17, <2>1, <3>2, <3>3, <3>4, <3>5, <3>6
  <2>2. CASE f = n
    <3>1. f # n + 1
      BY <1>4, <2>2
    <3>2. f \in DOMAIN Less <=> f \in DOMAIN H /\ H[f] - 1 > 0
      BY <1>16, <2>2
    <3>3. f \in DOMAIN Less => Less[f] = H[f] - 1
      BY <1>16, <2>2
    <3>4. f \in DOMAIN H => H[f] \in Nat \ {0} /\ H[f] = Cardinality(Bin(c, n))
      BY <1>6, <1>14, <2>2 DEF H
    <3>5. f \in DOMAIN K => K[f] = Cardinality(Bin(d, n))
      BY <1>7, <2>2 DEF K
    <3>6. f \in DOMAIN H <=> n # 0
      BY <1>6, <1>11, <1>14, <1>15, <2>2, FS_EmptySet
    <3>7. f \in DOMAIN K <=> Cardinality(Bin(d, n)) # 0
      BY <1>15, <2>2
    <3>8. f \in DOMAIN More <=> f \in DOMAIN Less
      BY <1>17, <3>1
    <3>9. f \in DOMAIN Less => More[f] = Less[f] + 0
      BY <1>17, <3>1, <3>8
    <3>10. f \in DOMAIN K <=> f \in DOMAIN Less
      BY <1>13, <3>2, <3>4, <3>6, <3>7
    <3>11. f \in DOMAIN K => K[f] = H[f] - 1
      BY <1>13, <3>2, <3>4, <3>5, <3>6, <3>10
    <3> QED  BY <3>2, <3>3, <3>4, <3>8, <3>9, <3>10, <3>11
  <2>3. CASE f = n + 1
    <3>1. f # n
      BY <1>4, <2>3
    <3>2. f \in DOMAIN Less <=> f \in DOMAIN H
      BY <1>14, <1>16, <3>1
    <3>3. f \in DOMAIN Less => Less[f] = H[f]
      BY <1>16, <3>1
    <3>4. Cardinality(Bin(c, f)) = IF f \in DOMAIN H THEN H[f] ELSE 0
      BY <1>6 DEF H
    <3>5. Cardinality(Bin(d, f)) = Cardinality(Bin(c, f)) + 1 /\ Cardinality(Bin(c, f)) \in Nat
      BY <1>6, <1>12, <2>3
    <3>6. f \in DOMAIN K
      BY <1>15, <3>5
    <3>7. K[f] = Cardinality(Bin(d, f))
      BY <1>7, <3>6 DEF K
    <3>8. f \in DOMAIN More /\ More[f] = (IF f \in DOMAIN Less THEN Less[f] ELSE 0) + 1
      BY <1>17, <2>3
    <3> QED  BY <3>2, <3>3, <3>4, <3>5, <3>6, <3>7, <3>8
  <2> QED  BY <2>1, <2>2, <2>3
<1>19. DOMAIN K = DOMAIN More
  BY <1>18
<1>20. K = More
  BY <1>14, <1>17, <1>18, <1>19
<1> QED  BY <1>1, <1>2, <1>20 DEF K, More, Less, H

\* Observing a block counts it.
LEMMA ObserveIs ==
    ASSUME NEW c, IsTally(c), NEW t, NEW x
    PROVE  Observe(HotOf(c, t), x) = HotOf(Tally(c, {x}), t)
<1>1. PICK n : n = At(c, x)
  OBVIOUS
<1>2. PICK h : h = HotOf(c, t)
  OBVIOUS
<1>3. h.counts = c /\ h.histogram = Histogram(c) /\ h.threshold = t
      /\ DOMAIN h = {"counts", "histogram", "threshold"}
      /\ h = [counts |-> h.counts, histogram |-> h.histogram, threshold |-> h.threshold]
  BY <1>2 DEF HotOf
<1>4. With(c, x, n + 1) = Tally(c, {x})
  <2>1. IsTally(c) /\ \A y \in DOMAIN c : c[y] \in Nat
    BY DEF IsTally
  <2>2. Tally(c, {x}) = [y \in DOMAIN c \cup {x} |-> At(c, y) + Once(y, {x})]
    BY DEF Tally
  <2>3. ASSUME NEW y \in DOMAIN c \cup {x}
        PROVE  At(c, y) + Once(y, {x}) = IF y = x THEN n + 1 ELSE c[y]
    BY <1>1, <2>1 DEF At, Once
  <2>4. Tally(c, {x}) = [y \in DOMAIN c \cup {x} |-> IF y = x THEN n + 1 ELSE c[y]]
    BY <2>2, <2>3
  <2> QED  BY <2>4 DEF With
<1>5. (h.histogram (-) SetToBag({n})) (+) SetToBag({n + 1}) = Histogram(Tally(c, {x}))
  BY <1>1, <1>3, HistogramMoves
<1>6. Observe(h, x) = [h EXCEPT !.counts = With(h.counts, x, n + 1),
                                !.histogram = (h.histogram (-) SetToBag({n})) (+) SetToBag({n + 1})]
  BY <1>1, <1>3 DEF Observe
<1>7. PICK cc, hh : cc = Tally(c, {x}) /\ hh = Histogram(Tally(c, {x}))
  OBVIOUS
<1>8. Observe(h, x) = [h EXCEPT !.counts = cc, !.histogram = hh]
  BY <1>3, <1>4, <1>5, <1>6, <1>7
<1>9. Observe(h, x) = [counts |-> cc, histogram |-> hh, threshold |-> t]
  BY <1>3, <1>8
<1> QED  BY <1>2, <1>7, <1>9 DEF HotOf

\* Observing the blocks of a request counts each of them once.
LEMMA AllObservedIs ==
    ASSUME NEW c, IsTally(c), NEW t, NEW V, NEW blocks \in Seq(V), IsInjective(blocks)
    PROVE  /\ AllObserved(HotOf(c, t), blocks) = HotOf(Tally(c, ToSet(blocks)), t)
           /\ IsTally(Tally(c, ToSet(blocks)))
<1>1. PICK n \in Nat : n = Len(blocks) /\ DOMAIN blocks = 1..n
  OBVIOUS
<1> DEFINE First(i) == {blocks[j] : j \in 1..i}
           State(i) == HotOf(Tally(c, First(i)), t)
           Rec(f) == [i \in 0..n |-> IF i = 0 THEN HotOf(c, t) ELSE Observe(f[i - 1], blocks[i])]
           Is(f) == f = Rec(f)
<1>2. ASSUME NEW i \in 0..n PROVE IsFiniteSet(First(i))
  <2>1. IsFiniteSet(1..i)
    BY <1>1, FS_Interval
  <2> QED  BY <2>1, ImageIsFinite
<1>3. State(0) = HotOf(c, t)
  <2>1. First(0) = {}
    BY <1>1
  <2>2. Tally(c, {}) = c
    BY TallyOfNone
  <2> QED  BY <2>1, <2>2
<1>4. ASSUME NEW i \in 1..n PROVE State(i) = Observe(State(i - 1), blocks[i])
  <2>1. i - 1 \in 0..n
    BY <1>1
  <2>2. First(i) = First(i - 1) \cup {blocks[i]}
    <3>1. \A j \in 1..i : j \in 1..(i - 1) \/ j = i
      BY <1>1
    <3>2. 1..(i - 1) \subseteq 1..i /\ i \in 1..i
      BY <1>1
    <3> QED  BY <3>1, <3>2
  <2>3. blocks[i] \notin First(i - 1)
    <3>1. ASSUME NEW j \in 1..(i - 1) PROVE blocks[j] # blocks[i]
      <4>1. j \in 1..n /\ j # i
        BY <1>1
      <4> QED  BY <1>1, <4>1 DEF IsInjective
    <3> QED  BY <3>1
  <2>4. IsFiniteSet(First(i - 1))
    BY <1>2, <2>1
  <2>5. PICK u : u = First(i - 1) /\ IsFiniteSet(u)
    BY <2>4
  <2>6. PICK b : b = blocks[i]
    OBVIOUS
  <2> HIDE DEF First, State
  <2>9. IsTally(Tally(c, u))
    BY <2>5, TallyIs
  <2>8. Tally(Tally(c, u), {b}) = Tally(c, u \cup {b})
    BY <2>3, <2>5, <2>6, TallyOfMore
  <2> USE DEF First, State
  <2>7. Observe(HotOf(Tally(c, u), t), b) = HotOf(Tally(Tally(c, u), {b}), t)
    BY <2>9, ObserveIs
  <2> QED  BY <2>2, <2>5, <2>6, <2>7, <2>8
<1> HIDE DEF State, First
<1>5. \E f : Is(f)
  <2>1. PICK f : f = [i \in 0..n |-> State(i)]
    OBVIOUS
  <2>2. ASSUME NEW i \in 0..n
        PROVE  State(i) = IF i = 0 THEN HotOf(c, t) ELSE Observe(f[i - 1], blocks[i])
    <3>1. CASE i = 0
      BY <1>3, <3>1
    <3>2. CASE i # 0
      <4>1. i \in 1..n /\ i - 1 \in 0..n
        BY <1>1, <3>2
      <4>2. f[i - 1] = State(i - 1)
        BY <2>1, <4>1
      <4> QED  BY <1>4, <3>2, <4>1, <4>2
    <3> QED  BY <3>1, <3>2
  <2>3. f = Rec(f)
    BY <2>1, <2>2
  <2> QED  BY <2>3
<1>6. PICK seen : seen = CHOOSE f : Is(f)
  OBVIOUS
<1> HIDE DEF Is
<1>7. Is(seen)
  BY <1>5, <1>6
<1> USE DEF Is
<1>8. AllObserved(HotOf(c, t), blocks) = seen[n]
  BY <1>1, <1>6 DEF AllObserved
<1>9. seen[0] = HotOf(c, t) /\ \A i \in 1..n : seen[i] = Observe(seen[i - 1], blocks[i])
  <2>1. 0 \in 0..n /\ \A i \in 1..n : i \in 0..n /\ i # 0
    BY <1>1
  <2> QED  BY <1>7, <2>1
<1>10. \A i \in 0..n : seen[i] = State(i)
  <2> DEFINE T == {i \in 1..n : seen[i] = State(i)}
  <2>1. ASSUME NEW i \in 1..n, \A j \in 1..(i - 1) : j \in T PROVE i \in T
    <3>1. seen[i - 1] = State(i - 1)
      <4>1. CASE i = 1
        BY <1>3, <1>9, <4>1
      <4>2. CASE i # 1
        <5>1. i - 1 \in 1..(i - 1)
          BY <1>1, <4>2
        <5> QED  BY <2>1, <5>1
      <4> QED  BY <4>1, <4>2
    <3> QED  BY <1>4, <1>9, <3>1
  <2> HIDE DEF T
  <2>2. 1..n \subseteq T
    BY <1>1, <2>1, IntervalInduction
  <2> USE DEF T
  <2>3. \A i \in 0..n : i = 0 \/ i \in 1..n
    BY <1>1
  <2> QED  BY <1>3, <1>9, <2>2, <2>3
<1>11. First(n) = ToSet(blocks)
  BY <1>1 DEF First, ToSet
<1>12. IsFiniteSet(First(n))
  BY <1>1, <1>2
<1>13. PICK all : all = ToSet(blocks) /\ IsFiniteSet(all) /\ First(n) = all
  BY <1>11, <1>12
<1>14. IsTally(Tally(c, all))
  BY <1>13, TallyIs
<1>15. seen[n] = HotOf(Tally(c, all), t)
  BY <1>1, <1>10, <1>13 DEF State
<1> QED  BY <1>8, <1>13, <1>14, <1>15

\* The blocks that are in some bins of a histogram, which is as many as those add up to.
InBins(c, u) == {b \in DOMAIN c : c[b] \in u}

\* The bins add up to them.
LEMMA BinsAdd ==
    ASSUME NEW c, IsTally(c), NEW some \in SUBSET DOMAIN Histogram(c)
    PROVE  SumFunctionOnSet(Histogram(c), some) = Cardinality(InBins(c, some))
<1>1. PICK H : H = Histogram(c)
  OBVIOUS
<1>2. PICK D : D = DOMAIN H
  OBVIOUS
<1>3. IsFiniteSet(D) /\ \A f \in D : H[f] \in Nat \ {0}
  BY <1>1, <1>2, HistogramIs
<1>4. \A f \in D : IsFiniteSet(Bin(c, f)) /\ Cardinality(Bin(c, f)) = H[f]
  BY <1>1, <1>2, HistogramIs
<1> DEFINE T == {u \in SUBSET D : SumFunctionOnSet(H, u) = Cardinality(InBins(c, u))}
<1>5. {} \in T
  <2>1. InBins(c, {}) = {}
    BY DEF InBins
  <2> QED  BY <2>1, SumOfNone, FS_EmptySet
<1>6. ASSUME NEW u \in T, NEW x \in D \ u PROVE u \cup {x} \in T
  <2>1. IsFiniteSet(u) /\ u \subseteq D
    BY <1>3, FS_Subset
  <2>2. \A f \in u \cup {x} : H[f] \in Int
    BY <1>3, <2>1
  <2>3. SumFunctionOnSet(H, u \cup {x}) = H[x] + SumFunctionOnSet(H, u)
    BY <1>6, <2>1, <2>2, SumPutsIn
  <2>4. PICK old, bin : old = InBins(c, u) /\ bin = Bin(c, x)
    OBVIOUS
  <2>5. InBins(c, u \cup {x}) = old \cup bin /\ old \cap bin = {}
    BY <1>6, <2>4 DEF InBins, Bin
  <2>6. IsFiniteSet(bin) /\ Cardinality(bin) = H[x] /\ IsFiniteSet(old)
    <3>1. old \subseteq DOMAIN c /\ IsFiniteSet(DOMAIN c)
      BY <2>4 DEF InBins, IsTally
    <3>2. IsFiniteSet(old)
      BY <3>1, FS_Subset
    <3> QED  BY <1>4, <2>4, <3>2
  <2>7. Cardinality(old \cup bin) = Cardinality(old) + Cardinality(bin) - Cardinality(old \cap bin)
    BY <2>6, FS_Union
  <2>8. Cardinality(old \cap bin) = 0 /\ Cardinality(old) \in Nat /\ H[x] \in Nat
    BY <1>3, <2>5, <2>6, FS_EmptySet, FS_CardinalityType
  <2>9. Cardinality(InBins(c, u \cup {x})) = Cardinality(old) + H[x]
    <3>1. PICK p, q, z : p = Cardinality(old) /\ q = Cardinality(bin) /\ z = Cardinality(old \cap bin)
      OBVIOUS
    <3>2. p \in Nat /\ q \in Nat /\ q = H[x] /\ z = 0 /\ Cardinality(old \cup bin) = p + q - z
      BY <2>6, <2>7, <2>8, <3>1
    <3>3. Cardinality(old \cup bin) = p + q
      BY <3>2
    <3> QED  BY <2>5, <3>1, <3>2, <3>3
  <2>10. SumFunctionOnSet(H, u) = Cardinality(old)
    BY <2>4
  <2> QED  BY <2>1, <2>3, <2>8, <2>9, <2>10
<1>7. T \in SUBSET SUBSET D
  OBVIOUS
<1> HIDE DEF T
<1>8. T = SUBSET D
  BY <1>3, <1>5, <1>6, <1>7, ElementInduction
<1> USE DEF T
<1> QED  BY <1>1, <1>2, <1>8

\* So many of the blocks count no more than this.
NoMore(c, f) == Cardinality({b \in DOMAIN c : c[b] <= f})
PercentRank(c) == (HotPercent * (Cardinality(DOMAIN c) - 1)) \div 100

\* The rank is one of a block, and none is below the least frequency.
LEMMA PercentRankIs ==
    ASSUME NEW c, IsTally(c), DOMAIN c # {}
    PROVE  /\ PercentRank(c) \in Nat /\ PercentRank(c) < Cardinality(DOMAIN c)
           /\ Cardinality(DOMAIN c) \in Nat
<1>1. PICK k \in Nat : Cardinality(DOMAIN c) = k + 1
  <2>1. IsFiniteSet(DOMAIN c) /\ Cardinality(DOMAIN c) \in Nat /\ Cardinality(DOMAIN c) # 0
    BY FS_CardinalityType, FS_EmptySet DEF IsTally
  <2>2. Cardinality(DOMAIN c) - 1 \in Nat /\ Cardinality(DOMAIN c) = (Cardinality(DOMAIN c) - 1) + 1
    BY <2>1
  <2> QED  BY <2>2
<1>2. HotPercent \in 1..100
  BY SelectionAssumption
<1>3. PICK x : x = HotPercent * k
  OBVIOUS
<1>4. x \in Nat /\ x <= 100 * k
  <2>1. x \in Nat
    BY <1>2, <1>3
  <2>2. (100 - HotPercent) * k \in Nat
    BY <1>2
  <2>3. (100 - HotPercent) * k = 100 * k - HotPercent * k
    BY <1>2
  <2> QED  BY <1>3, <2>1, <2>2, <2>3
<1>5. PICK y : y = x \div 100
  OBVIOUS
<1>6. y \in Nat /\ y <= k
  BY <1>4, <1>5
<1>7. PercentRank(c) = y
  <2>1. Cardinality(DOMAIN c) - 1 = k
    BY <1>1
  <2> QED  BY <1>3, <1>5, <2>1 DEF PercentRank
<1> QED  BY <1>1, <1>6, <1>7

\* How many blocks count no more than this, from the counts and from the histogram.
LEMMA NoMoreIs ==
    ASSUME NEW c, IsTally(c)
    PROVE  /\ \A f \in Int : NoMore(c, f) \in Nat
           /\ \A f \in Int : f <= 0 => NoMore(c, f) = 0
           /\ \A f \in Int : (\A b \in DOMAIN c : c[b] <= f) => NoMore(c, f) = Cardinality(DOMAIN c)
           /\ \A f \in Int : f \notin DOMAIN Histogram(c) => NoMore(c, f) = NoMore(c, f - 1)
           /\ \A f \in Int : NoMore(c, f) = SumFunctionOnSet(Histogram(c), {g \in DOMAIN Histogram(c) : g <= f})
<1>1. \A b \in DOMAIN c : c[b] \in Nat \ {0}
  BY DEF IsTally
<1>2. \A f : {b \in DOMAIN c : c[b] <= f} \subseteq DOMAIN c /\ IsFiniteSet(DOMAIN c)
  BY DEF IsTally
<1>3. ASSUME NEW f \in Int PROVE NoMore(c, f) \in Nat
  <2>1. IsFiniteSet({b \in DOMAIN c : c[b] <= f})
    BY <1>2, FS_Subset
  <2> QED  BY <2>1, FS_CardinalityType DEF NoMore
<1>4. ASSUME NEW f \in Int, f <= 0 PROVE NoMore(c, f) = 0
  <2>1. {b \in DOMAIN c : c[b] <= f} = {}
    BY <1>1, <1>4
  <2> QED  BY <2>1, FS_EmptySet DEF NoMore
<1>5. ASSUME NEW f \in Int, \A b \in DOMAIN c : c[b] <= f
      PROVE  NoMore(c, f) = Cardinality(DOMAIN c)
  <2>1. {b \in DOMAIN c : c[b] <= f} = DOMAIN c
    BY <1>5
  <2> QED  BY <2>1 DEF NoMore
<1>6. ASSUME NEW f \in Int, f \notin DOMAIN Histogram(c) PROVE NoMore(c, f) = NoMore(c, f - 1)
  <2>1. \A b \in DOMAIN c : c[b] # f
    BY <1>6 DEF Histogram
  <2>2. \A b \in DOMAIN c : c[b] <= f <=> c[b] <= f - 1
    BY <1>1, <2>1
  <2>3. {b \in DOMAIN c : c[b] <= f} = {b \in DOMAIN c : c[b] <= f - 1}
    BY <2>2
  <2> QED  BY <2>3 DEF NoMore
<1>7. ASSUME NEW f \in Int
      PROVE  NoMore(c, f) = SumFunctionOnSet(Histogram(c), {g \in DOMAIN Histogram(c) : g <= f})
  <2>1. PICK some : some = {g \in DOMAIN Histogram(c) : g <= f}
    OBVIOUS
  <2>2. some \in SUBSET DOMAIN Histogram(c)
    BY <2>1
  <2>3. SumFunctionOnSet(Histogram(c), some) = Cardinality(InBins(c, some))
    BY <2>2, BinsAdd
  <2>4. InBins(c, some) = {b \in DOMAIN c : c[b] <= f}
    <3>1. \A b \in DOMAIN c : c[b] \in DOMAIN Histogram(c)
      BY DEF Histogram
    <3> QED  BY <2>1, <3>1 DEF InBins
  <2> QED  BY <2>1, <2>3, <2>4 DEF NoMore
<1> QED  BY <1>3, <1>4, <1>5, <1>6, <1>7

\* The percentile is looked for among the frequencies that occur, and found among
\* all of them.
LEMMA PercentileIs ==
    ASSUME NEW c, IsTally(c), DOMAIN c # {}, NEW m \in Nat, \A b \in DOMAIN c : c[b] <= m
    PROVE  /\ Percentile(Histogram(c), Cardinality(DOMAIN c))
                  = Min({f \in 1..m : NoMore(c, f) > PercentRank(c)})
           /\ Min({f \in 1..m : NoMore(c, f) > PercentRank(c)}) \in 1..m
<1>1. PICK found : found = {f \in DOMAIN Histogram(c) : NoMore(c, f) > PercentRank(c)}
  OBVIOUS
<1>2. PICK all : all = {f \in 1..m : NoMore(c, f) > PercentRank(c)}
  OBVIOUS
<1>3. /\ PercentRank(c) \in Nat /\ PercentRank(c) < Cardinality(DOMAIN c) /\ Cardinality(DOMAIN c) \in Nat
  BY PercentRankIs
<1>4. /\ DOMAIN Histogram(c) \subseteq Nat \ {0}
      /\ \A f \in DOMAIN Histogram(c) : \E b \in DOMAIN c : c[b] = f
  <2>1. DOMAIN Histogram(c) \subseteq Nat \ {0}
    BY HistogramIs
  <2>2. \A f \in DOMAIN Histogram(c) : \E b \in DOMAIN c : c[b] = f
    BY DEF Histogram
  <2> QED  BY <2>1, <2>2
<1>5. found \subseteq all
  <2>1. ASSUME NEW f \in DOMAIN Histogram(c) PROVE f \in 1..m
    <3>1. PICK b \in DOMAIN c : c[b] = f
      BY <1>4
    <3>2. f \in Nat \ {0} /\ f <= m
      BY <1>4, <3>1
    <3> QED  BY <3>2
  <2> QED  BY <1>1, <1>2, <2>1
<1>6. m \in all
  <2>1. NoMore(c, m) = Cardinality(DOMAIN c)
    BY NoMoreIs
  <2>2. m # 0
    <3>1. PICK b \in DOMAIN c : TRUE
      OBVIOUS
    <3> QED  BY <3>1 DEF IsTally
  <2> QED  BY <1>2, <1>3, <2>1, <2>2
<1>7. PICK least \in all : \A f \in all : least <= f
  <2>1. IsFiniteSet(1..m) /\ all \subseteq 1..m /\ 1..m \subseteq Int
    BY <1>2, FS_Interval
  <2>2. IsFiniteSet(all) /\ all # {} /\ all \subseteq Int
    BY <1>6, <2>1, FS_Subset
  <2> QED  BY <2>2, LeastExists
<1>8. least \in found
  <2>1. least \in Int /\ least >= 1 /\ least <= m /\ NoMore(c, least) > PercentRank(c)
    BY <1>2, <1>7
  <2>2. SUFFICES ASSUME least \notin DOMAIN Histogram(c) PROVE FALSE
    BY <1>1, <2>1
  <2>3. NoMore(c, least - 1) > PercentRank(c)
    <3>1. NoMore(c, least) = NoMore(c, least - 1)
      BY <2>1, <2>2, NoMoreIs
    <3> QED  BY <2>1, <3>1
  <2>4. least - 1 # 0
    <3>1. NoMore(c, 0) = 0
      <4>1. \A f \in Int : f <= 0 => NoMore(c, f) = 0
        BY NoMoreIs
      <4>2. 0 \in Int /\ 0 <= 0
        OBVIOUS
      <4> QED  BY <4>1, <4>2
    <3> QED  BY <1>3, <2>3, <3>1
  <2>5. least - 1 \in all
    BY <1>2, <2>1, <2>3, <2>4
  <2>6. least <= least - 1
    BY <1>7, <2>5
  <2> QED  BY <2>1, <2>6
<1>9. /\ all \subseteq Int /\ \A f \in found : least <= f
  BY <1>2, <1>5, <1>7
<1>10. Min(all) = least /\ Min(found) = least
  <2>1. \A f \in all : (\A g \in all : f <= g) => f = least
    BY <1>7, <1>9
  <2>2. \A f \in found : (\A g \in found : f <= g) => f = least
    BY <1>5, <1>8, <1>9
  <2>3. Min(all) = CHOOSE f \in all : \A g \in all : f <= g
    BY DEF Min
  <2>4. Min(found) = CHOOSE f \in found : \A g \in found : f <= g
    BY DEF Min
  <2>5. Min(all) = least
    BY <1>7, <2>1, <2>3
  <2>6. Min(found) = least
    BY <1>8, <1>9, <2>2, <2>4
  <2> QED  BY <2>5, <2>6
<1>11. Percentile(Histogram(c), Cardinality(DOMAIN c)) = Min(found)
  <2>1. \A f \in DOMAIN Histogram(c) :
           NoMore(c, f) = SumFunctionOnSet(Histogram(c), {g \in DOMAIN Histogram(c) : g <= f})
    BY <1>4, NoMoreIs
  <2>2. BagToSet(Histogram(c)) = DOMAIN Histogram(c)
    BY DEF BagToSet
  <2>3. PICK H, k : H = Histogram(c) /\ k = Cardinality(DOMAIN c)
    OBVIOUS
  <2>4. Percentile(H, k) = Min({f \in DOMAIN H : SumFunctionOnSet(H, {g \in DOMAIN H : g <= f})
                                                    > (HotPercent * (k - 1)) \div 100})
    BY <2>2, <2>3 DEF Percentile
  <2>5. (HotPercent * (k - 1)) \div 100 = PercentRank(c)
    BY <2>3 DEF PercentRank
  <2>6. {f \in DOMAIN H : SumFunctionOnSet(H, {g \in DOMAIN H : g <= f})
                              > (HotPercent * (k - 1)) \div 100} = found
    BY <1>1, <2>1, <2>3, <2>5
  <2> QED  BY <2>3, <2>4, <2>6
<1>12. least \in 1..m
  BY <1>2
<1> QED  BY <1>2, <1>10, <1>11, <1>12

\* What the hot rule makes of a trace, as the properties of NodeSelection say it.
RoutedEntry == [blocks : RoutedPrompt, at : Int, family : Nat]

CountOf(s, n, x) == Cardinality({i \in 1..n : x \in ToSet(s[i].blocks)})
BlocksOf(s, n) == UNION {ToSet(s[i].blocks) : i \in 1..n}
CountsOf(s, n) == [x \in BlocksOf(s, n) |-> CountOf(s, n, x)]
LastRefresh(n) == (n \div HotRefresh) * HotRefresh
ThresholdOf(s, n) ==
    IF LastRefresh(n) = 0 THEN HotFloor
    ELSE Latest(HotFloor, Min({f \in 1..LastRefresh(n) :
             NoMore(CountsOf(s, LastRefresh(n)), f) > PercentRank(CountsOf(s, LastRefresh(n)))}))

\* They are about the same.
LEMMA CountInIs == \A n, x : CountIn(n, x) = CountOf(routed, n, x)
BY DEF CountIn, CountOf

LEMMA ThresholdAtIs == ASSUME NEW n PROVE ThresholdAt(n) = ThresholdOf(routed, n)
<1>1. PICK m : m = LastRefresh(n)
  OBVIOUS
<1>2. PICK blocks : blocks = BlocksOf(routed, m)
  OBVIOUS
<1>3. PICK c : c = CountsOf(routed, m)
  OBVIOUS
<1>4. DOMAIN c = blocks /\ \A b \in blocks : c[b] = CountIn(m, b)
  BY <1>2, <1>3, CountInIs DEF CountsOf
<1>5. ASSUME NEW f PROVE NoMore(c, f) = Cardinality({b \in blocks : CountIn(m, b) <= f})
  <2>1. {b \in DOMAIN c : c[b] <= f} = {b \in blocks : CountIn(m, b) <= f}
    BY <1>4
  <2> QED  BY <2>1 DEF NoMore
<1>6. PercentRank(c) = (HotPercent * (Cardinality(blocks) - 1)) \div 100
  BY <1>4 DEF PercentRank
<1>7. {f \in 1..m : Cardinality({b \in blocks : CountIn(m, b) <= f})
                        > (HotPercent * (Cardinality(blocks) - 1)) \div 100}
          = {f \in 1..m : NoMore(c, f) > PercentRank(c)}
  BY <1>5, <1>6
<1>8. UNION {ToSet(routed[i].blocks) : i \in 1..m} = blocks
  BY <1>2 DEF BlocksOf
<1>9. ThresholdAt(n) = IF m = 0 THEN HotFloor
          ELSE Max({HotFloor, Min({f \in 1..m : Cardinality({b \in blocks : CountIn(m, b) <= f})
                                  > (HotPercent * (Cardinality(blocks) - 1)) \div 100})})
  BY <1>1, <1>8 DEF ThresholdAt, LastRefresh
<1>10. ThresholdAt(n) = IF m = 0 THEN HotFloor
          ELSE Max({HotFloor, Min({f \in 1..m : NoMore(c, f) > PercentRank(c)})})
  BY <1>7, <1>9
<1> QED  BY <1>1, <1>3, <1>10 DEF ThresholdOf, Latest

\* The prompts are sequences of distinct blocks.
LEMMA PromptIs ==
    ASSUME NEW p \in RoutedPrompt
    PROVE  /\ p \in Seq(ToSet(p)) /\ IsInjective(p) /\ p # <<>>
           /\ Len(p) \in Nat \ {0} /\ DOMAIN p = 1..Len(p)
           /\ IsFiniteSet(ToSet(p)) /\ ToSet(p) # {}
<1>1. p \in Seq(ToSet(p)) /\ IsInjective(p) /\ p # <<>>
  BY SelectionAssumption
<1>2. Len(p) \in Nat \ {0} /\ DOMAIN p = 1..Len(p)
  BY <1>1
<1>3. p[1] \in ToSet(p)
  BY <1>2 DEF ToSet
<1>4. PICK V : V = ToSet(p)
  OBVIOUS
<1>5. IsFiniteSet(ToSet(p))
  BY <1>1, <1>4, MembersAreFinite
<1> QED  BY <1>1, <1>2, <1>3, <1>5

\* Counts over the first requests are tallies.
LEMMA CountsAre ==
    ASSUME NEW s \in Seq(RoutedEntry), NEW n \in Nat, n <= Len(s)
    PROVE  /\ IsTally(CountsOf(s, n)) /\ DOMAIN CountsOf(s, n) = BlocksOf(s, n)
           /\ \A x \in BlocksOf(s, n) : CountsOf(s, n)[x] <= n
           /\ \A x : CountOf(s, n, x) \in Nat
           /\ \A x : CountOf(s, n, x) = At(CountsOf(s, n), x)
           /\ n # 0 => BlocksOf(s, n) # {}
<1>1. \A i \in 1..n : s[i] \in RoutedEntry /\ s[i].blocks \in RoutedPrompt
  <2>1. \A i \in 1..n : i \in 1..Len(s)
    OBVIOUS
  <2>2. \A i \in 1..n : s[i] \in RoutedEntry
    BY <2>1
  <2> QED  BY <2>2 DEF RoutedEntry
<1>2. IsFiniteSet(1..n) /\ Cardinality(1..n) = n
  BY FS_Interval
<1>3. IsFiniteSet(BlocksOf(s, n))
  <2>1. PICK sets : sets = [i \in 1..n |-> ToSet(s[i].blocks)]
    OBVIOUS
  <2>2. PICK all : all = {sets[i] : i \in 1..n}
    OBVIOUS
  <2>3. IsFiniteSet(all)
    BY <1>2, <2>2, ImageIsFinite
  <2>4. \A t \in all : IsFiniteSet(t)
    BY <1>1, <2>1, <2>2, PromptIs
  <2>5. IsFiniteSet(UNION all)
    BY <2>3, <2>4, FS_UNION
  <2>6. all = {ToSet(s[i].blocks) : i \in 1..n}
    BY <2>1, <2>2
  <2> QED  BY <2>5, <2>6 DEF BlocksOf
<1>4. ASSUME NEW x
      PROVE  /\ CountOf(s, n, x) \in Nat /\ CountOf(s, n, x) <= n
             /\ CountOf(s, n, x) # 0 <=> x \in BlocksOf(s, n)
  <2>1. PICK those : those = {i \in 1..n : x \in ToSet(s[i].blocks)}
    OBVIOUS
  <2>2. those \in SUBSET (1..n)
    BY <2>1
  <2>3. IsFiniteSet(those) /\ Cardinality(those) <= n
    BY <1>2, <2>2, FS_Subset
  <2>4. Cardinality(those) \in Nat
    BY <2>3, FS_CardinalityType
  <2>5. Cardinality(those) # 0 <=> those # {}
    BY <2>3, FS_EmptySet
  <2>6. those # {} <=> x \in BlocksOf(s, n)
    BY <2>1 DEF BlocksOf
  <2> QED  BY <2>1, <2>3, <2>4, <2>5, <2>6 DEF CountOf
<1>5. DOMAIN CountsOf(s, n) = BlocksOf(s, n)
  BY DEF CountsOf
<1>6. \A x \in BlocksOf(s, n) : CountsOf(s, n)[x] = CountOf(s, n, x)
  BY DEF CountsOf
<1>7. IsTally(CountsOf(s, n))
  <2>1. CountsOf(s, n) = [x \in DOMAIN CountsOf(s, n) |-> CountsOf(s, n)[x]]
    BY DEF CountsOf
  <2>2. \A x \in BlocksOf(s, n) : CountsOf(s, n)[x] \in Nat \ {0}
    BY <1>4, <1>6
  <2> QED  BY <1>3, <1>5, <2>1, <2>2 DEF IsTally
<1>8. \A x : CountOf(s, n, x) = At(CountsOf(s, n), x)
  BY <1>4, <1>5, <1>6 DEF At
<1>9. ASSUME n # 0 PROVE BlocksOf(s, n) # {}
  <2>1. 1 \in 1..n
    BY <1>9
  <2>2. ToSet(s[1].blocks) # {}
    BY <1>1, <2>1, PromptIs
  <2> QED  BY <2>1, <2>2 DEF BlocksOf
<1> QED  BY <1>4, <1>5, <1>6, <1>7, <1>8, <1>9

\* When the threshold is refreshed.
LEMMA LastRefreshIs ==
    /\ LastRefresh(0) = 0
    /\ \A n \in Nat : LastRefresh(n) \in 0..n
    /\ \A n \in Nat \ {0} : IF n % HotRefresh = 0 THEN LastRefresh(n) = n
                            ELSE LastRefresh(n) = LastRefresh(n - 1)
<1>1. PICK h \in Nat \ {0} : h = HotRefresh
  BY SelectionAssumption
<1>2. \A n \in Nat : /\ n \div h \in Nat /\ n % h \in 0..(h - 1)
                     /\ n = h * (n \div h) + (n % h)
  BY <1>1
<1>3. \A n \in Nat : LastRefresh(n) = n - (n % h)
  BY <1>1, <1>2 DEF LastRefresh
<1>4. ASSUME NEW n \in Nat PROVE n % h <= n
  <2>1. PICK q, r : q = n \div h /\ r = n % h
    OBVIOUS
  <2>2. q \in Nat /\ r \in Nat /\ n = h * q + r
    BY <1>1, <1>2, <2>1
  <2>3. h * q \in Nat
    BY <1>1, <2>2
  <2> QED  BY <2>1, <2>2, <2>3
<1>5. ASSUME NEW n \in Nat \ {0}, n % h # 0 PROVE n - (n % h) = (n - 1) - ((n - 1) % h)
  <2>1. PICK q, r : q = n \div h /\ r = n % h
    OBVIOUS
  <2>2. q \in Nat /\ r \in 1..(h - 1) /\ n = h * q + r
    BY <1>2, <1>5, <2>1
  <2>3. n - 1 = h * q + (r - 1) /\ r - 1 \in 0..(h - 1)
    BY <2>2
  <2>4. (n - 1) % h = r - 1
    BY <2>2, <2>3
  <2> QED  BY <2>1, <2>4
<1>6. LastRefresh(0) = 0
  <2>1. 0 \div h = 0 /\ 0 * h = 0
    BY <1>1
  <2> QED  BY <1>1, <2>1 DEF LastRefresh
<1>7. ASSUME NEW n \in Nat PROVE LastRefresh(n) \in 0..n
  <2>1. n % h \in 0..(h - 1) /\ n % h <= n /\ LastRefresh(n) = n - (n % h)
    BY <1>2, <1>3, <1>4
  <2> QED  BY <1>1, <2>1
<1>8. ASSUME NEW n \in Nat \ {0}
      PROVE  IF n % h = 0 THEN LastRefresh(n) = n ELSE LastRefresh(n) = LastRefresh(n - 1)
  <2>1. n \in Nat /\ n - 1 \in Nat
    OBVIOUS
  <2>2. LastRefresh(n) = n - (n % h) /\ LastRefresh(n - 1) = (n - 1) - ((n - 1) % h)
    BY <1>3, <2>1
  <2> QED  BY <1>5, <2>1, <2>2
<1> QED  BY <1>1, <1>6, <1>7, <1>8

\* A threshold is a number.
LEMMA ThresholdIs ==
    ASSUME NEW s \in Seq(RoutedEntry), NEW n \in Nat, n <= Len(s)
    PROVE  ThresholdOf(s, n) \in Int
<1>1. PICK m : m = LastRefresh(n)
  OBVIOUS
<1>2. m \in Nat /\ m <= n
  BY <1>1, LastRefreshIs
<1>3. HotFloor \in Int
  BY SelectionAssumption
<1>4. CASE m = 0
  BY <1>1, <1>3, <1>4 DEF ThresholdOf
<1>5. CASE m # 0
  <2>1. PICK c : c = CountsOf(s, m)
    OBVIOUS
  <2>2. m <= Len(s)
    BY <1>2
  <2>3. IsTally(c) /\ DOMAIN c # {} /\ \A x \in DOMAIN c : c[x] <= m
    BY <1>2, <1>5, <2>1, <2>2, CountsAre
  <2>4. Min({f \in 1..m : NoMore(c, f) > PercentRank(c)}) \in 1..m
    BY <1>2, <2>3, PercentileIs
  <2>5. PICK x : x = Min({f \in 1..m : NoMore(c, f) > PercentRank(c)})
    OBVIOUS
  <2>8. x \in Int
    <3>1. x \in 1..m
      BY <2>4, <2>5
    <3> QED  BY <1>2, <3>1
  <2>6. ThresholdOf(s, n) = Max({HotFloor, x})
    BY <1>1, <1>5, <2>1, <2>5 DEF ThresholdOf, Latest
  <2>7. Max({HotFloor, x}) \in {HotFloor, x}
    BY <1>3, <2>8, MaxOfTwo
  <2> QED  BY <1>3, <2>6, <2>7, <2>8
<1> QED  BY <1>4, <1>5

\* A refresh makes the threshold what the counts say.
LEMMA RefreshIs ==
    ASSUME NEW s \in Seq(RoutedEntry), NEW n \in Nat \ {0}, n <= Len(s)
    PROVE  Refresh(HotOf(CountsOf(s, n), ThresholdOf(s, n - 1)), n)
               = HotOf(CountsOf(s, n), ThresholdOf(s, n))
<1>1. PICK c, t, h : c = CountsOf(s, n) /\ t = ThresholdOf(s, n - 1) /\ h = HotOf(c, t)
  OBVIOUS
<1>2. /\ h.counts = c /\ h.histogram = Histogram(c) /\ h.threshold = t
      /\ h = [counts |-> c, histogram |-> Histogram(c), threshold |-> t]
  BY <1>1 DEF HotOf
<1>3. CASE n % HotRefresh # 0
  <2>1. LastRefresh(n) = LastRefresh(n - 1)
    BY <1>3, LastRefreshIs
  <2>2. ThresholdOf(s, n) = t
    BY <1>1, <2>1 DEF ThresholdOf
  <2>3. Refresh(h, n) = h
    BY <1>3 DEF Refresh
  <2> QED  BY <1>1, <2>2, <2>3
<1>4. CASE n % HotRefresh = 0
  <2>1. LastRefresh(n) = n
    BY <1>4, LastRefreshIs
  <2>2. IsTally(c) /\ DOMAIN c # {} /\ \A x \in DOMAIN c : c[x] <= n
    BY <1>1, CountsAre
  <2>3. c # <<>>
    BY <2>2
  <2>4. PICK p : p = Percentile(Histogram(c), Cardinality(DOMAIN c))
    OBVIOUS
  <2>5. p = Min({f \in 1..n : NoMore(c, f) > PercentRank(c)})
    BY <2>2, <2>4, PercentileIs
  <2>6. ThresholdOf(s, n) = Max({HotFloor, p})
    BY <1>1, <2>1, <2>5 DEF ThresholdOf, Latest
  <2>7. Refresh(h, n) = [h EXCEPT !.threshold = Max({HotFloor, p})]
    BY <1>2, <1>4, <2>3, <2>4 DEF Refresh
  <2>8. PICK top : top = Max({HotFloor, p})
    OBVIOUS
  <2>9. Refresh(h, n) = [counts |-> c, histogram |-> Histogram(c), threshold |-> top]
    BY <1>2, <2>7, <2>8
  <2> QED  BY <1>1, <2>6, <2>8, <2>9 DEF HotOf
<1> QED  BY <1>3, <1>4

\* What was counted stays when a request comes, which is then counted too.
LEMMA CountsGrow ==
    ASSUME NEW s \in Seq(RoutedEntry), NEW r \in RoutedEntry, NEW u, u = Append(s, r)
    PROVE  /\ u \in Seq(RoutedEntry) /\ Len(u) = Len(s) + 1 /\ DOMAIN u = 1..(Len(s) + 1)
           /\ DOMAIN s = 1..Len(s) /\ Len(s) \in Nat
           /\ \A i \in 1..Len(s) : u[i] = s[i]
           /\ u[Len(s) + 1] = r
           /\ \A m \in 0..Len(s) : ThresholdOf(u, m) = ThresholdOf(s, m)
           /\ CountsOf(u, Len(s) + 1) = Tally(CountsOf(s, Len(s)), ToSet(r.blocks))
<1>1. PICK n \in Nat : n = Len(s) /\ DOMAIN s = 1..n
  OBVIOUS
<1>2. /\ u \in Seq(RoutedEntry) /\ Len(u) = n + 1 /\ DOMAIN u = 1..(n + 1)
      /\ \A i \in 1..n : u[i] = s[i]
      /\ u[n + 1] = r
  BY <1>1
<1>3. ASSUME NEW m \in 0..n
      PROVE  BlocksOf(u, m) = BlocksOf(s, m) /\ \A x : CountOf(u, m, x) = CountOf(s, m, x)
  <2>1. \A i \in 1..m : u[i] = s[i]
    BY <1>2
  <2>2. BlocksOf(u, m) = BlocksOf(s, m)
    BY <2>1 DEF BlocksOf
  <2>3. ASSUME NEW x PROVE CountOf(u, m, x) = CountOf(s, m, x)
    <3>1. {i \in 1..m : x \in ToSet(u[i].blocks)} = {i \in 1..m : x \in ToSet(s[i].blocks)}
      BY <2>1
    <3> QED  BY <3>1 DEF CountOf
  <2> QED  BY <2>2, <2>3
<1>4. ASSUME NEW m \in 0..n PROVE CountsOf(u, m) = CountsOf(s, m)
  BY <1>3 DEF CountsOf
<1>5. ASSUME NEW m \in 0..n PROVE ThresholdOf(u, m) = ThresholdOf(s, m)
  <2>1. LastRefresh(m) \in 0..m
    BY <1>1, LastRefreshIs
  <2>2. LastRefresh(m) \in 0..n
    BY <1>1, <2>1
  <2>3. CountsOf(u, LastRefresh(m)) = CountsOf(s, LastRefresh(m))
    BY <1>4, <2>2
  <2> QED  BY <2>3 DEF ThresholdOf
<1>6. r.blocks \in RoutedPrompt
  BY DEF RoutedEntry
<1>7. PICK new : new = ToSet(r.blocks) /\ IsFiniteSet(new)
  BY <1>6, PromptIs
<1>8. \A i \in 1..(n + 1) : i \in 1..n \/ i = n + 1
  BY <1>1
<1>9. 1..n \subseteq 1..(n + 1) /\ n + 1 \in 1..(n + 1) /\ n + 1 \notin 1..n
  BY <1>1
<1>10. BlocksOf(u, n + 1) = BlocksOf(s, n) \cup new
  <2>1. ASSUME NEW x PROVE x \in BlocksOf(u, n + 1) <=> x \in BlocksOf(s, n) \cup new
    <3>1. x \in BlocksOf(u, n + 1) <=> \E i \in 1..(n + 1) : x \in ToSet(u[i].blocks)
      BY DEF BlocksOf
    <3>2. x \in BlocksOf(s, n) <=> \E i \in 1..n : x \in ToSet(s[i].blocks)
      BY DEF BlocksOf
    <3> QED  BY <1>2, <1>7, <1>8, <1>9, <3>1, <3>2
  <2> QED  BY <2>1
<1>11. ASSUME NEW x PROVE CountOf(u, n + 1, x) = CountOf(s, n, x) + Once(x, new)
  <2>1. PICK old : old = {i \in 1..n : x \in ToSet(s[i].blocks)}
    OBVIOUS
  <2>2. PICK now : now = {i \in 1..(n + 1) : x \in ToSet(u[i].blocks)}
    OBVIOUS
  <2>3. now = IF x \in new THEN old \cup {n + 1} ELSE old
    <3>1. \A i : i \in now <=> i \in old \/ (i = n + 1 /\ x \in new)
      BY <1>2, <1>7, <1>8, <1>9, <2>1, <2>2
    <3> QED  BY <3>1
  <2>4. IsFiniteSet(1..n) /\ old \in SUBSET (1..n)
    BY <1>1, <2>1, FS_Interval
  <2>5. IsFiniteSet(old) /\ n + 1 \notin old
    BY <1>9, <2>4, FS_Subset
  <2>6. Cardinality(old) \in Nat /\ Cardinality(old \cup {n + 1}) = Cardinality(old) + 1
    BY <2>5, FS_AddElement, FS_CardinalityType
  <2>7. Cardinality(now) = Cardinality(old) + Once(x, new)
    BY <2>3, <2>6 DEF Once
  <2> QED  BY <2>1, <2>2, <2>7 DEF CountOf
<1>12. CountsOf(u, n + 1) = Tally(CountsOf(s, n), new)
  <2>1. n <= Len(s)
    BY <1>1
  <2>2. /\ DOMAIN CountsOf(s, n) = BlocksOf(s, n)
        /\ \A x : CountOf(s, n, x) = At(CountsOf(s, n), x)
    BY <2>1, CountsAre
  <2>3. \A x : CountOf(u, n + 1, x) = At(CountsOf(s, n), x) + Once(x, new)
    BY <1>11, <2>2
  <2> QED  BY <1>10, <2>2, <2>3 DEF CountsOf, Tally
<1> QED  BY <1>1, <1>2, <1>3, <1>5, <1>7, <1>12

\* A request is learned as the trace that it ends.
LEMMA LearnIs ==
    ASSUME NEW s \in Seq(RoutedEntry), NEW r \in RoutedEntry, NEW u, u = Append(s, r), NEW hot,
           hot = HotOf(CountsOf(s, Len(s)), ThresholdOf(s, Len(s)))
    PROVE  Learn(hot, r.blocks, Len(u)) = HotOf(CountsOf(u, Len(u)), ThresholdOf(u, Len(u)))
<1>1. PICK n \in Nat : n = Len(s)
  OBVIOUS
<1>2. /\ u \in Seq(RoutedEntry) /\ Len(u) = n + 1
      /\ ThresholdOf(u, n) = ThresholdOf(s, n)
      /\ CountsOf(u, n + 1) = Tally(CountsOf(s, n), ToSet(r.blocks))
  <2>1. n \in 0..n
    BY <1>1
  <2> QED  BY <1>1, <2>1, CountsGrow, ZenonT(40)
<1>3. PICK c, t : c = CountsOf(s, n) /\ t = ThresholdOf(s, n)
  OBVIOUS
<1>4. IsTally(c)
  BY <1>1, <1>3, CountsAre
<1>5. PICK p \in RoutedPrompt : p = r.blocks
  BY DEF RoutedEntry
<1>6. p \in Seq(ToSet(p)) /\ IsInjective(p)
  BY <1>5, PromptIs
<1>7. PICK V : V = ToSet(p)
  OBVIOUS
<1>8. AllObserved(HotOf(c, t), p) = HotOf(Tally(c, ToSet(p)), t)
  BY <1>4, <1>6, <1>7, AllObservedIs
<1>9. hot = HotOf(c, t)
  BY <1>1, <1>3
<1>10. Learn(hot, p, n + 1) = Refresh(HotOf(CountsOf(u, n + 1), ThresholdOf(u, n)), n + 1)
  BY <1>2, <1>3, <1>5, <1>8, <1>9 DEF Learn
<1>11. Refresh(HotOf(CountsOf(u, n + 1), ThresholdOf(u, n)), n + 1)
          = HotOf(CountsOf(u, n + 1), ThresholdOf(u, n + 1))
  <2>1. PICK k \in Nat \ {0} : k = n + 1 /\ k - 1 = n /\ k <= Len(u)
    BY <1>1, <1>2
  <2>2. Refresh(HotOf(CountsOf(u, k), ThresholdOf(u, k - 1)), k) = HotOf(CountsOf(u, k), ThresholdOf(u, k))
    BY <1>2, <2>1, RefreshIs
  <2> QED  BY <2>1, <2>2
<1> QED  BY <1>2, <1>5, <1>10, <1>11

\* The reuses that count, and those that are close.
ColdIn(s, i) == {x \in ToSet(s[i].blocks) : CountOf(s, i - 1, x) \in 1..(ThresholdOf(s, i - 1) - 1)}
Paired(i, u) == {<<i, b>> : b \in u}
ColdOf(s) == UNION {Paired(i, ColdIn(s, i)) : i \in DOMAIN s}
SeenWithin(s, n, x, at) ==
    \E k \in 1..n : x \in ToSet(s[k].blocks) /\ at - s[k].at <= ReuseWindow
CloseOf(s) == {r \in ColdOf(s) : SeenWithin(s, r[1] - 1, r[2], s[r[1]].at)}

\* Those that a request adds.
NewCold(s, r) == {x \in ToSet(r.blocks) : CountOf(s, Len(s), x) \in 1..(ThresholdOf(s, Len(s)) - 1)}
NewClose(s, r) == {x \in NewCold(s, r) : SeenWithin(s, Len(s), x, r.at)}

\* As many as are paired.
LEMMA PairedIs ==
    ASSUME NEW i, NEW u, IsFiniteSet(u)
    PROVE  IsFiniteSet(Paired(i, u)) /\ Cardinality(Paired(i, u)) = Cardinality(u)
<1>1. PICK f : f = [b \in u |-> <<i, b>>]
  OBVIOUS
<1>2. f \in Bijection(u, Paired(i, u))
  <2>1. f \in [u -> Paired(i, u)]
    BY <1>1 DEF Paired
  <2>2. \A a, b \in u : f[a] = f[b] => a = b
    BY <1>1
  <2>3. \A t \in Paired(i, u) : \E b \in u : f[b] = t
    BY <1>1 DEF Paired
  <2>4. f \in Injection(u, Paired(i, u))
    BY <2>1, <2>2 DEF Injection, IsInjective
  <2>5. f \in Surjection(u, Paired(i, u))
    BY <2>1, <2>3 DEF Surjection
  <2> QED  BY <2>4, <2>5 DEF Bijection
<1>3. ExistsBijection(u, Paired(i, u))
  BY <1>2 DEF ExistsBijection
<1>4. PICK w : w = Paired(i, u)
  OBVIOUS
<1> QED  BY <1>3, <1>4, FS_Bijection

\* The reuses of a request join those of the trace before it.
LEMMA ReusesGrow ==
    ASSUME NEW s \in Seq(RoutedEntry), NEW r \in RoutedEntry, NEW u, u = Append(s, r)
    PROVE  /\ ColdOf(u) = ColdOf(s) \cup Paired(Len(s) + 1, NewCold(s, r))
           /\ CloseOf(u) = CloseOf(s) \cup Paired(Len(s) + 1, NewClose(s, r))
           /\ \A t \in ColdOf(s) : t # <<Len(s) + 1, t[2]>>
<1>. PICK n : n = Len(s)
  OBVIOUS
<1>1. /\ Len(u) = n + 1 /\ DOMAIN u = 1..(n + 1) /\ DOMAIN s = 1..n /\ n \in Nat
      /\ \A i \in 1..n : u[i] = s[i]
      /\ u[n + 1] = r
      /\ \A m \in 0..n : ThresholdOf(u, m) = ThresholdOf(s, m)
      /\ \A m \in 0..n : \A x : CountOf(u, m, x) = CountOf(s, m, x)
  <2>1. /\ Len(u) = Len(s) + 1 /\ DOMAIN u = 1..(Len(s) + 1) /\ DOMAIN s = 1..Len(s)
        /\ Len(s) \in Nat
        /\ \A i \in 1..Len(s) : u[i] = s[i]
        /\ u[Len(s) + 1] = r
    BY CountsGrow
  <2>2. \A m \in 0..Len(s) : ThresholdOf(u, m) = ThresholdOf(s, m)
    BY CountsGrow
  <2>3. \A m \in 0..Len(s) : \A i \in 1..m : u[i] = s[i]
    BY <2>1
  <2>4. ASSUME NEW m \in 0..Len(s), NEW x PROVE CountOf(u, m, x) = CountOf(s, m, x)
    <3>1. {i \in 1..m : x \in ToSet(u[i].blocks)} = {i \in 1..m : x \in ToSet(s[i].blocks)}
      BY <2>1, <2>3
    <3> QED  BY <3>1 DEF CountOf
  <2> QED  BY <2>1, <2>2, <2>4
<1>2. \A i \in 1..(n + 1) : i \in 1..n \/ i = n + 1
  BY <1>1
<1>3. 1..n \subseteq 1..(n + 1) /\ n + 1 \in 1..(n + 1) /\ n + 1 \notin 1..n
  BY <1>1
<1>4. ASSUME NEW i \in 1..n PROVE ColdIn(u, i) = ColdIn(s, i)
  <2>1. i - 1 \in 0..n
    BY <1>1
  <2> QED  BY <1>1, <2>1 DEF ColdIn
<1>5. ColdIn(u, n + 1) =
          {x \in ToSet(r.blocks) : CountOf(s, n, x) \in 1..(ThresholdOf(s, n) - 1)}
  <2>1. (n + 1) - 1 = n /\ n \in 0..n
    BY <1>1
  <2> QED  BY <1>1, <2>1 DEF ColdIn
<1>6. ASSUME NEW t
      PROVE  t \in ColdOf(u) <=> t \in ColdOf(s) \/ t \in Paired(n + 1, ColdIn(u, n + 1))
  <2>1. t \in ColdOf(u) <=> \E i \in 1..(n + 1) : t \in Paired(i, ColdIn(u, i))
    BY <1>1 DEF ColdOf
  <2>2. t \in ColdOf(s) <=> \E i \in 1..n : t \in Paired(i, ColdIn(s, i))
    BY <1>1 DEF ColdOf
  <2> QED  BY <1>2, <1>3, <1>4, <2>1, <2>2
<1>7. ASSUME NEW t \in ColdOf(s)
      PROVE  t[1] \in 1..n /\ t = <<t[1], t[2]>>
  <2>1. PICK i \in 1..n : t \in Paired(i, ColdIn(s, i))
    BY <1>1 DEF ColdOf
  <2>2. PICK b \in ColdIn(s, i) : t = <<i, b>>
    BY <2>1 DEF Paired
  <2> QED  BY <2>2
<1>8. ASSUME NEW t \in ColdOf(s) PROVE t # <<n + 1, t[2]>>
  <2>1. t[1] \in 1..n
    BY <1>7
  <2> QED  BY <1>3, <2>1
<1>9. ASSUME NEW x, NEW at, NEW m \in 0..n PROVE SeenWithin(u, m, x, at) <=> SeenWithin(s, m, x, at)
  <2>1. \A k \in 1..m : u[k] = s[k]
    BY <1>1
  <2> QED  BY <2>1 DEF SeenWithin
<1>10. ASSUME NEW t \in ColdOf(s)
       PROVE  SeenWithin(u, t[1] - 1, t[2], u[t[1]].at) <=> SeenWithin(s, t[1] - 1, t[2], s[t[1]].at)
  <2>1. t[1] \in 1..n /\ t[1] - 1 \in 0..n
    BY <1>1, <1>7
  <2>2. u[t[1]] = s[t[1]]
    BY <1>1, <2>1
  <2> QED  BY <1>9, <2>1, <2>2
<1>11. ASSUME NEW x \in ColdIn(u, n + 1), NEW t, t = <<n + 1, x>>
       PROVE  SeenWithin(u, t[1] - 1, t[2], u[t[1]].at) <=> SeenWithin(s, n, x, r.at)
  <2>1. t[1] = n + 1 /\ t[2] = x /\ t[1] - 1 = n /\ n \in 0..n
    BY <1>1, <1>11
  <2> QED  BY <1>1, <1>9, <2>1
<1>12. ASSUME NEW t
       PROVE  t \in CloseOf(u) <=> \/ t \in CloseOf(s)
                                   \/ t \in Paired(n + 1, {x \in ColdIn(u, n + 1) : SeenWithin(s, n, x, r.at)})
  <2>1. t \in CloseOf(u) <=> t \in ColdOf(u) /\ SeenWithin(u, t[1] - 1, t[2], u[t[1]].at)
    BY DEF CloseOf
  <2>2. t \in CloseOf(s) <=> t \in ColdOf(s) /\ SeenWithin(s, t[1] - 1, t[2], s[t[1]].at)
    BY DEF CloseOf
  <2>3. CASE t \in ColdOf(s)
    <3>1. t[1] \in 1..n
      BY <1>7, <2>3
    <3>2. t \notin Paired(n + 1, {x \in ColdIn(u, n + 1) : SeenWithin(s, n, x, r.at)})
      <4>1. ASSUME NEW x PROVE t # <<n + 1, x>>
        BY <1>3, <3>1
      <4> QED  BY <4>1 DEF Paired
    <3> QED  BY <1>6, <1>10, <2>1, <2>2, <2>3, <3>2
  <2>4. CASE t \notin ColdOf(s)
    <3>1. t \in Paired(n + 1, ColdIn(u, n + 1)) <=> \E x \in ColdIn(u, n + 1) : t = <<n + 1, x>>
      BY DEF Paired
    <3>2. t \in Paired(n + 1, {x \in ColdIn(u, n + 1) : SeenWithin(s, n, x, r.at)})
              <=> \E x \in ColdIn(u, n + 1) : SeenWithin(s, n, x, r.at) /\ t = <<n + 1, x>>
      BY DEF Paired
    <3> QED  BY <1>6, <1>11, <2>1, <2>2, <2>4, <3>1, <3>2
  <2> QED  BY <2>3, <2>4
<1>13. ColdOf(u) = ColdOf(s) \cup Paired(n + 1, ColdIn(u, n + 1))
  BY <1>6
<1>14. CloseOf(u) = CloseOf(s) \cup
                  Paired(n + 1, {x \in ColdIn(u, n + 1) : SeenWithin(s, n, x, r.at)})
  BY <1>12
<1>15. ColdIn(u, n + 1) = NewCold(s, r)
  BY <1>5 DEF NewCold
<1>16. {x \in ColdIn(u, n + 1) : SeenWithin(s, n, x, r.at)} = NewClose(s, r)
  BY <1>15 DEF NewClose
<1> QED  BY <1>8, <1>13, <1>14, <1>15, <1>16

\* A block was seen lately if it was when it came last.
LEMMA LastAtIs ==
    ASSUME routed \in Seq(RoutedEntry), NEW n, n = Len(routed), NEW x,
           CountOf(routed, n, x) # 0, NEW at \in Int
    PROVE  at - LastAt(x) <= ReuseWindow <=> SeenWithin(routed, n, x, at)
<1>1. n \in Nat /\ DOMAIN routed = 1..n /\ \A i \in 1..n : routed[i].at \in Int
  <2>1. n \in Nat /\ DOMAIN routed = 1..n /\ \A i \in 1..n : routed[i] \in RoutedEntry
    OBVIOUS
  <2> QED  BY <2>1 DEF RoutedEntry
<1>2. PICK those : those = {k \in 1..n : x \in ToSet(routed[k].blocks)}
  OBVIOUS
<1>3. IsFiniteSet(1..n) /\ those \in SUBSET (1..n)
  BY <1>1, <1>2, FS_Interval
<1>4. IsFiniteSet(those) /\ those # {}
  <2>1. Cardinality(those) # 0
    BY <1>2 DEF CountOf
  <2> QED  BY <1>3, <2>1, FS_Subset, FS_EmptySet
<1>5. PICK when : when = [i \in those |-> routed[i].at]
  OBVIOUS
<1>6. PICK times : times = {when[i] : i \in those}
  OBVIOUS
<1>7. IsFiniteSet(times) /\ times # {} /\ times \subseteq Int
  <2>1. IsFiniteSet(times)
    BY <1>4, <1>6, ImageIsFinite
  <2> QED  BY <1>1, <1>3, <1>4, <1>5, <1>6, <2>1
<1>8. \E m \in times : \A y \in times : m >= y
  BY <1>7, GreatestExists
<1>9. PICK m \in times : m = Max(times) /\ \A y \in times : m >= y
  BY <1>8 DEF Max
<1>10. LastAt(x) = m
  <2>1. {routed[i].at : i \in {k \in DOMAIN routed : x \in ToSet(routed[k].blocks)}} = times
    BY <1>1, <1>2, <1>5, <1>6
  <2> QED  BY <1>9, <2>1 DEF LastAt
<1>11. PICK last \in those : routed[last].at = m
  BY <1>5, <1>6
<1>12. ReuseWindow \in Int /\ m \in Int
  BY <1>7, SelectionAssumption
<1>13. ASSUME at - m <= ReuseWindow PROVE SeenWithin(routed, n, x, at)
  <2>1. last \in 1..n /\ x \in ToSet(routed[last].blocks) /\ at - routed[last].at <= ReuseWindow
    BY <1>2, <1>11, <1>13
  <2> QED  BY <2>1 DEF SeenWithin
<1>14. ASSUME SeenWithin(routed, n, x, at) PROVE at - m <= ReuseWindow
  <2>1. PICK k \in 1..n : x \in ToSet(routed[k].blocks) /\ at - routed[k].at <= ReuseWindow
    BY <1>14 DEF SeenWithin
  <2>2. k \in those /\ routed[k].at \in times
    BY <1>2, <1>5, <1>6, <2>1
  <2>3. m >= routed[k].at /\ routed[k].at \in Int
    BY <1>1, <1>9, <2>2
  <2> QED  BY <1>12, <2>1, <2>3
<1> QED  BY <1>10, <1>13, <1>14

\* Both trackers hold what the trace says, and the reuses that counted were cold.
HotInv ==
    /\ routed \in Seq(RoutedEntry)
    /\ tracked = HotOf(CountsOf(routed, Len(routed)), ThresholdOf(routed, Len(routed)))
    /\ router = "S4" /\ (\A i \in DOMAIN routed : Len(routed[i].blocks) <= LinkDepth)
          => linked = tracked
    /\ IsFiniteSet(ColdOf(routed))
    /\ reuse = [denominator |-> Cardinality(ColdOf(routed)),
                within |-> Cardinality(CloseOf(routed))]

\* It says that the rule is shared.
LEMMA HotIsShared == ASSUME HotInv PROVE HotRuleIsShared
<1>1. Len(routed) \in Nat /\ DOMAIN routed = 1..Len(routed)
  BY DEF HotInv
<1>2. tracked.threshold = ThresholdAt(Len(routed))
  BY ThresholdAtIs DEF HotInv, HotOf
<1>3. ASSUME NEW i PROVE {<<i, b>> : b \in {x \in ToSet(routed[i].blocks) :
                CountIn(i - 1, x) \in 1..(ThresholdAt(i - 1) - 1)}} = Paired(i, ColdIn(routed, i))
  <2>1. {x \in ToSet(routed[i].blocks) : CountIn(i - 1, x) \in 1..(ThresholdAt(i - 1) - 1)}
            = ColdIn(routed, i)
    BY CountInIs, ThresholdAtIs DEF ColdIn
  <2> QED  BY <2>1 DEF Paired
<1>4. ColdReuses = ColdOf(routed)
  BY <1>3 DEF ColdReuses, ColdOf
<1>5. {r \in ColdReuses : \E k \in 1..(r[1] - 1) :
                    /\ r[2] \in ToSet(routed[k].blocks)
                    /\ routed[r[1]].at - routed[k].at <= ReuseWindow} = CloseOf(routed)
  BY <1>4 DEF CloseOf, SeenWithin
<1> QED  BY <1>2, <1>4, <1>5 DEF HotInv, HotRuleIsShared

\* The linker reads all of a prompt that is not too long.
LEMMA LinkableIs ==
    ASSUME NEW p \in RoutedPrompt
    PROVE  /\ Linkable(p) = SubSeq(p, 1, Min({LinkDepth, Len(p)}))
           /\ Min({LinkDepth, Len(p)}) \in 0..Len(p)
           /\ Len(p) <= LinkDepth => Linkable(p) = p
<1>1. PICK n \in Nat \ {0} : n = Len(p) /\ p \in Seq(ToSet(p))
  BY PromptIs
<1>2. PICK m : m = Min({LinkDepth, n})
  OBVIOUS
<1>3. LinkDepth \in Nat
  BY SelectionAssumption
<1>4. m \in {LinkDepth, n} /\ m <= LinkDepth /\ m <= n
  <2>1. LinkDepth \in Int /\ n \in Int
    BY <1>1, <1>3
  <2> QED  BY <1>2, <2>1, MinOfTwo
<1>5. m \in 0..n
  BY <1>1, <1>3, <1>4
<1>6. n <= LinkDepth => m = n
  BY <1>1, <1>3, <1>4
<1>7. SubSeq(p, 1, n) = p
  BY <1>1
<1> QED  BY <1>1, <1>2, <1>5, <1>6, <1>7 DEF Linkable

\* A request keeps what the trackers hold.
LEMMA HotKeeps ==
    ASSUME HotInv, NEW r \in RoutedEntry, routed' = Append(routed, r), router' = router,
           tracked' = Learn(tracked, r.blocks, Len(routed) + 1),
           linked' = IF router = "S4" THEN Learn(linked, Linkable(r.blocks), Len(routed) + 1)
                     ELSE linked,
           reuse' = Reused(r.blocks, r.at)
    PROVE  HotInv'
<1>1. PICK n \in Nat : n = Len(routed) /\ DOMAIN routed = 1..n
  BY DEF HotInv
<1>2. PICK s, u : s = routed /\ u = routed'
  OBVIOUS
<1>3. s \in Seq(RoutedEntry) /\ u = Append(s, r) /\ n = Len(s)
  BY <1>1, <1>2 DEF HotInv
<1>4. /\ u \in Seq(RoutedEntry) /\ Len(u) = n + 1 /\ DOMAIN u = 1..(n + 1)
      /\ \A i \in 1..n : u[i] = s[i]
      /\ u[n + 1] = r
  BY <1>3, CountsGrow
<1>5. tracked = HotOf(CountsOf(s, n), ThresholdOf(s, n))
  BY <1>1, <1>2 DEF HotInv
<1>6. tracked' = HotOf(CountsOf(u, n + 1), ThresholdOf(u, n + 1))
  <2>1. PICK hot : hot = HotOf(CountsOf(s, Len(s)), ThresholdOf(s, Len(s)))
    OBVIOUS
  <2>2. Learn(hot, r.blocks, Len(u)) = HotOf(CountsOf(u, Len(u)), ThresholdOf(u, Len(u)))
    BY <1>3, <2>1, LearnIs
  <2>3. hot = tracked
    BY <1>3, <1>5, <2>1
  <2> QED  BY <1>1, <1>4, <2>2, <2>3
<1>7. ASSUME router' = "S4", \A i \in DOMAIN routed' : Len(routed'[i].blocks) <= LinkDepth
      PROVE  linked' = tracked'
  <2>1. \A i \in 1..n : Len(routed[i].blocks) <= LinkDepth
    <3>1. ASSUME NEW i \in 1..n PROVE Len(routed[i].blocks) <= LinkDepth
      <4>1. i \in 1..(n + 1)
        BY <1>1
      <4>2. i \in DOMAIN routed' /\ routed'[i] = routed[i]
        BY <1>2, <1>4, <4>1
      <4> QED  BY <1>7, <4>2
    <3> QED  BY <3>1
  <2>2. Len(r.blocks) <= LinkDepth
    <3>1. n + 1 \in DOMAIN routed' /\ routed'[n + 1] = r
      BY <1>1, <1>2, <1>4
    <3> QED  BY <1>7, <3>1
  <2>3. linked = tracked
    BY <1>1, <1>7, <2>1 DEF HotInv
  <2>4. Linkable(r.blocks) = r.blocks
    <3>1. PICK p \in RoutedPrompt : p = r.blocks
      BY DEF RoutedEntry
    <3> QED  BY <2>2, <3>1, LinkableIs
  <2> QED  BY <1>7, <2>3, <2>4
<1>8. PICK again, close : again = NewCold(s, r) /\ close = NewClose(s, r)
  OBVIOUS
<1>9. close = {x \in again : SeenWithin(s, n, x, r.at)}
  BY <1>3, <1>8 DEF NewClose
<1>10. /\ ColdOf(u) = ColdOf(s) \cup Paired(n + 1, again)
       /\ CloseOf(u) = CloseOf(s) \cup Paired(n + 1, close)
       /\ \A t \in ColdOf(s) : t # <<n + 1, t[2]>>
       /\ again = {x \in ToSet(r.blocks) : CountOf(s, n, x) \in 1..(ThresholdOf(s, n) - 1)}
  <2>1. /\ ColdOf(u) = ColdOf(s) \cup Paired(n + 1, again)
        /\ CloseOf(u) = CloseOf(s) \cup Paired(n + 1, close)
        /\ \A t \in ColdOf(s) : t # <<n + 1, t[2]>>
    BY <1>3, <1>8, ReusesGrow
  <2> QED  BY <1>3, <1>8, <2>1 DEF NewCold
<1>11. IsFiniteSet(again) /\ IsFiniteSet(close)
  <2>1. PICK p \in RoutedPrompt : p = r.blocks
    BY DEF RoutedEntry
  <2>2. IsFiniteSet(ToSet(r.blocks))
    BY <2>1, PromptIs
  <2>3. again \in SUBSET ToSet(r.blocks) /\ close \in SUBSET again
    BY <1>9, <1>10
  <2>4. IsFiniteSet(again)
    BY <2>2, <2>3, FS_Subset
  <2> QED  BY <2>3, <2>4, FS_Subset
<1>12. PICK cold, cold1, pairs : cold = ColdOf(s) /\ cold1 = ColdOf(u) /\ pairs = Paired(n + 1, again)
  OBVIOUS
<1>13. PICK near, near1, pairs1 : near = CloseOf(s) /\ near1 = CloseOf(u) /\ pairs1 = Paired(n + 1, close)
  OBVIOUS
<1>14. IsFiniteSet(cold) /\ near \in SUBSET cold /\ IsFiniteSet(near)
  <2>1. IsFiniteSet(cold)
    BY <1>2, <1>12 DEF HotInv
  <2>2. near \in SUBSET cold
    BY <1>12, <1>13 DEF CloseOf
  <2> QED  BY <2>1, <2>2, FS_Subset
<1>15. /\ IsFiniteSet(pairs) /\ Cardinality(pairs) = Cardinality(again)
       /\ IsFiniteSet(pairs1) /\ Cardinality(pairs1) = Cardinality(close)
  BY <1>11, <1>12, <1>13, PairedIs
<1>16. cold \cap pairs = {} /\ near \cap pairs1 = {}
  <2>1. ASSUME NEW t \in cold, NEW x, t = <<n + 1, x>> PROVE FALSE
    <3>1. t[2] = x
      BY <2>1
    <3> QED  BY <1>10, <1>12, <2>1, <3>1
  <2>2. \A t \in pairs \cup pairs1 : \E x : t = <<n + 1, x>>
    BY <1>12, <1>13 DEF Paired
  <2> QED  BY <1>14, <2>1, <2>2
<1>17. /\ IsFiniteSet(cold1) /\ Cardinality(cold1) = Cardinality(cold) + Cardinality(again)
       /\ Cardinality(near1) = Cardinality(near) + Cardinality(close)
  <2>1. cold1 = cold \cup pairs /\ near1 = near \cup pairs1
    BY <1>10, <1>12, <1>13
  <2>2. /\ IsFiniteSet(cold1)
        /\ Cardinality(cold1) = Cardinality(cold) + Cardinality(pairs) - Cardinality(cold \cap pairs)
    BY <1>14, <1>15, <2>1, FS_Union
  <2>3. Cardinality(near1) = Cardinality(near) + Cardinality(pairs1) - Cardinality(near \cap pairs1)
    BY <1>14, <1>15, <2>1, FS_Union
  <2>4. Cardinality({}) = 0 /\ Cardinality(cold) \in Nat /\ Cardinality(near) \in Nat
        /\ Cardinality(again) \in Nat /\ Cardinality(close) \in Nat
    BY <1>11, <1>14, FS_EmptySet, FS_CardinalityType
  <2>5. PICK a, b, c, d : a = Cardinality(cold) /\ b = Cardinality(pairs) /\ c = Cardinality(near)
                          /\ d = Cardinality(pairs1)
    OBVIOUS
  <2>6. a \in Nat /\ b \in Nat /\ c \in Nat /\ d \in Nat
    BY <1>15, <2>4, <2>5
  <2>7. Cardinality(cold1) = a + b - 0 /\ Cardinality(near1) = c + d - 0
    BY <1>16, <2>2, <2>3, <2>4, <2>5
  <2>8. a + b - 0 = a + b /\ c + d - 0 = c + d
    BY <2>6
  <2> QED  BY <1>15, <2>2, <2>5, <2>7, <2>8
<1>18. reuse' = [denominator |-> Cardinality(cold1), within |-> Cardinality(near1)]
  <2>1. PICK c, t : c = CountsOf(s, n) /\ t = ThresholdOf(s, n)
    OBVIOUS
  <2>2. tracked.counts = c /\ tracked.threshold = t
    BY <1>5, <2>1 DEF HotOf
  <2>3. t \in Int /\ n <= Len(s)
    BY <1>1, <1>3, <2>1, ThresholdIs
  <2>4. /\ DOMAIN c = BlocksOf(s, n) /\ \A x \in DOMAIN c : c[x] \in Nat \ {0}
        /\ \A x : CountOf(s, n, x) = At(c, x) /\ CountOf(s, n, x) \in Nat
    BY <1>3, <2>1, <2>3, CountsAre DEF IsTally
  <2>5. \A x : x \in DOMAIN c /\ c[x] < t <=> CountOf(s, n, x) \in 1..(t - 1)
    <3>1. ASSUME NEW x \in DOMAIN c PROVE c[x] < t <=> CountOf(s, n, x) \in 1..(t - 1)
      <4>1. CountOf(s, n, x) = c[x] /\ c[x] \in Nat \ {0}
        BY <2>4, <3>1 DEF At
      <4> QED  BY <2>3, <4>1
    <3>2. ASSUME NEW x, x \notin DOMAIN c PROVE CountOf(s, n, x) \notin 1..(t - 1)
      <4>1. CountOf(s, n, x) = 0
        BY <2>4, <3>2 DEF At
      <4> QED  BY <4>1
    <3> QED  BY <3>1, <3>2
  <2>6. {b \in ToSet(r.blocks) : b \in DOMAIN tracked.counts /\ tracked.counts[b] < tracked.threshold} = again
    BY <1>10, <2>1, <2>2, <2>5
  <2>7. {b \in again : r.at - LastAt(b) <= ReuseWindow} = close
    <3>1. ASSUME NEW b \in again PROVE r.at - LastAt(b) <= ReuseWindow <=> SeenWithin(s, n, b, r.at)
      <4>1. CountOf(s, n, b) # 0
        BY <1>10
      <4>2. routed \in Seq(RoutedEntry) /\ n = Len(routed) /\ CountOf(routed, n, b) # 0 /\ r.at \in Int
        BY <1>2, <1>3, <4>1 DEF RoutedEntry
      <4> QED  BY <1>2, <4>2, LastAtIs
    <3> QED  BY <1>9, <3>1
  <2>8. reuse' = [denominator |-> reuse.denominator + Cardinality(again),
                  within |-> reuse.within + Cardinality(close)]
    BY <2>6, <2>7 DEF Reused
  <2>9. reuse.denominator = Cardinality(cold) /\ reuse.within = Cardinality(near)
    BY <1>2, <1>12, <1>13 DEF HotInv
  <2> QED  BY <1>17, <2>8, <2>9
<1> QED  BY <1>2, <1>4, <1>6, <1>7, <1>12, <1>13, <1>17, <1>18 DEF HotInv

\* The families of S4: who is of one, and the prompts that begin alike.
KindredOf(s, f) == {i \in DOMAIN s : s[i].family = f}
Alike(p, q) == /\ Len(p) >= MinShared /\ Len(q) >= MinShared
               /\ SubSeq(p, 1, MinShared) = SubSeq(q, 1, MinShared)
Begins(x, p) == Len(p) >= MinShared /\ SubSeq(x, 1, MinShared) = SubSeq(p, 1, MinShared)
Rootings(s) ==
    \A i, j \in DOMAIN s : i # j /\ s[i].family # 0 /\ s[i].family = s[j].family =>
        Alike(s[i].blocks, s[j].blocks)

\* The sizes are true and capped, and the prefixes point to families that begin with them.
LinkInv ==
    /\ routed \in Seq(RoutedEntry) /\ sizes \in Seq(Nat)
    /\ \A f \in DOMAIN sizes : /\ sizes[f] <= FamilyCap
                               /\ sizes[f] = Cardinality(KindredOf(routed, f))
    /\ \A i \in DOMAIN routed : routed[i].family \in 0..Len(sizes)
    /\ Rootings(routed)
    /\ \A x \in DOMAIN families :
          /\ families[x] \in 1..Len(sizes)
          /\ \E i \in DOMAIN routed : routed[i].family = families[x]
          /\ \A i \in DOMAIN routed : routed[i].family = families[x] => Begins(x, routed[i].blocks)

\* It says that conversations share their root.
LEMMA LinksShareTheirRoot == ASSUME LinkInv PROVE ConversationsShareTheirRoot
<1>1. \A f : {i \in DOMAIN routed : routed[i].family = f} = KindredOf(routed, f)
  BY DEF KindredOf
<1>2. \A f \in DOMAIN sizes : sizes[f] <= FamilyCap
          /\ sizes[f] = Cardinality({i \in DOMAIN routed : routed[i].family = f})
  BY <1>1 DEF LinkInv
<1>3. \A i, j \in DOMAIN routed :
          i # j /\ routed[i].family # 0 /\ routed[i].family = routed[j].family =>
              Alike(routed[i].blocks, routed[j].blocks)
  BY DEF LinkInv, Rootings
<1> QED  BY <1>2, <1>3 DEF ConversationsShareTheirRoot, Alike

\* What is linked of a prompt begins with its root.
LEMMA LinksAre ==
    ASSUME NEW p \in RoutedPrompt, NEW d \in MinShared..Len(Linkable(p))
    PROVE  /\ Begins(SubSeq(Linkable(p), 1, d), p)
           /\ Len(SubSeq(Linkable(p), 1, d)) = d
<1>1. PICK n \in Nat : n = Len(p)
  BY PromptIs
<1>2. PICK V : V = ToSet(p)
  OBVIOUS
<1>3. p \in Seq(V)
  BY <1>2, PromptIs
<1>4. PICK m \in 0..n : Linkable(p) = SubSeq(p, 1, m)
  BY <1>1, LinkableIs
<1>5. PICK l : l = SubSeq(p, 1, m)
  OBVIOUS
<1>6. l \in Seq(V) /\ Len(l) = m /\ \A i \in 1..m : l[i] = p[i]
  BY <1>1, <1>3, <1>4, <1>5
<1>7. PICK k \in Nat \ {0} : k = MinShared
  BY SelectionAssumption
<1>8. d \in k..m
  BY <1>4, <1>5, <1>6, <1>7
<1>9. PICK x : x = SubSeq(l, 1, d)
  OBVIOUS
<1>10. x \in Seq(V) /\ Len(x) = d /\ \A i \in 1..d : x[i] = l[i]
  <2>1. 1 \in Nat /\ d \in Nat /\ d <= Len(l)
    BY <1>4, <1>6, <1>7, <1>8
  <2> QED  BY <1>6, <1>9, <2>1
<1>11. PICK a, b : a = SubSeq(x, 1, k) /\ b = SubSeq(p, 1, k)
  OBVIOUS
<1>12. a \in Seq(V) /\ Len(a) = k /\ \A i \in 1..k : a[i] = x[i]
  <2>1. d \in Nat /\ k <= d
    BY <1>4, <1>7, <1>8
  <2> QED  BY <1>7, <1>10, <1>11, <2>1
<1>13. b \in Seq(V) /\ Len(b) = k /\ \A i \in 1..k : b[i] = p[i]
  <2>1. k <= n
    BY <1>1, <1>4, <1>7, <1>8
  <2> QED  BY <1>1, <1>3, <1>7, <1>11, <2>1
<1>14. \A i \in 1..k : i \in 1..d /\ i \in 1..m
  BY <1>4, <1>7, <1>8
<1>15. a = b
  <2>1. \A i \in 1..k : a[i] = b[i]
    BY <1>6, <1>10, <1>12, <1>13, <1>14
  <2> QED  BY <1>12, <1>13, <2>1
<1>16. Len(p) >= MinShared
  BY <1>1, <1>4, <1>7, <1>8
<1>17. SubSeq(Linkable(p), 1, d) = x
  BY <1>4, <1>5, <1>9
<1> QED  BY <1>7, <1>10, <1>11, <1>15, <1>16, <1>17 DEF Begins

\* The family of a prompt: one of its kin with room, or a new one.
LEMMA FamilyForIs ==
    ASSUME LinkInv, NEW p \in RoutedPrompt, NEW f, f = FamilyFor(Linkable(p))
    PROVE  /\ f \in 1..(Len(sizes) + 1)
           /\ f <= Len(sizes) => sizes[f] < FamilyCap
           /\ \A i \in DOMAIN routed : routed[i].family = f => Alike(p, routed[i].blocks)
<1>1. PICK k \in Nat : k = Len(sizes) /\ DOMAIN sizes = 1..k
  BY DEF LinkInv
<1>2. PICK l, m : m \in Nat /\ l = Linkable(p) /\ m = Len(l)
  <2>1. PICK n \in Nat : n = Len(p)
    BY PromptIs
  <2>2. PICK V : V = ToSet(p)
    OBVIOUS
  <2>3. p \in Seq(V)
    BY <2>2, PromptIs
  <2>4. PICK j \in 0..n : Linkable(p) = SubSeq(p, 1, j)
    BY <2>1, LinkableIs
  <2>5. PICK s : s = SubSeq(p, 1, j)
    OBVIOUS
  <2>6. s \in Seq(V) /\ Len(s) = j
    BY <2>1, <2>4, <2>5, <2>3
  <2>7. 0..n \subseteq Nat
    OBVIOUS
  <2> QED  BY <2>4, <2>5, <2>6, <2>7
<1>3. PICK least \in Nat \ {0} : least = MinShared
  BY SelectionAssumption
<1>4. PICK known : known = {x \in LinksOf(l) : x \in DOMAIN families /\ ~HotOnly(x)}
  OBVIOUS
<1>5. PICK deepest : deepest = CHOOSE x \in known : \A y \in known : Len(y) <= Len(x)
  OBVIOUS
<1>6. f = IF known # {} /\ sizes[families[deepest]] < FamilyCap THEN families[deepest] ELSE k + 1
  BY <1>1, <1>2, <1>4, <1>5 DEF FamilyFor
<1>7. CASE known # {} /\ sizes[families[deepest]] < FamilyCap
  <2>1. PICK depths : depths = {d \in least..m : SubSeq(l, 1, d) \in known}
    OBVIOUS
  <2>2. \A x \in known : \E d \in depths : x = SubSeq(l, 1, d)
    <3>1. ASSUME NEW x \in known PROVE \E d \in depths : x = SubSeq(l, 1, d)
      <4>1. x \in LinksOf(l)
        BY <1>4
      <4>2. PICK d \in least..m : x = SubSeq(l, 1, d)
        BY <1>2, <1>3, <4>1 DEF LinksOf
      <4> QED  BY <2>1, <4>2
    <3> QED  BY <3>1
  <2>3. IsFiniteSet(least..m) /\ least..m \subseteq Int /\ depths \in SUBSET (least..m)
    <3>1. least \in Int /\ m \in Int
      BY <1>2, <1>3
    <3> QED  BY <2>1, <3>1, FS_Interval
  <2>4. IsFiniteSet(depths) /\ depths \subseteq Int /\ depths # {}
    BY <1>7, <2>2, <2>3, FS_Subset
  <2>5. \E d \in depths : \A e \in depths : d >= e
    BY <2>4, GreatestExists
  <2>6. PICK d \in depths : \A e \in depths : d >= e
    BY <2>5
  <2>7. \A e \in depths : Len(SubSeq(l, 1, e)) = e /\ e \in Int
    BY <1>2, <1>3, <2>3, <2>4, LinksAre
  <2>8. ASSUME NEW y \in known PROVE Len(y) <= Len(SubSeq(l, 1, d))
    <3>1. PICK e \in depths : y = SubSeq(l, 1, e)
      BY <2>2
    <3> QED  BY <2>6, <2>7, <3>1
  <2>9. SubSeq(l, 1, d) \in known
    BY <2>1
  <2>10. deepest \in known
    BY <1>5, <2>8, <2>9
  <2>11. PICK e \in depths : deepest = SubSeq(l, 1, e)
    BY <2>2, <2>10
  <2>12. Begins(deepest, p)
    <3>1. e \in MinShared..Len(Linkable(p))
      BY <1>2, <1>3, <2>3
    <3> QED  BY <1>2, <2>11, <3>1, LinksAre
  <2>13. deepest \in DOMAIN families /\ f = families[deepest]
    BY <1>4, <1>6, <1>7, <2>10
  <2>14. /\ f \in 1..k
         /\ \A i \in DOMAIN routed : routed[i].family = f => Begins(deepest, routed[i].blocks)
    BY <1>1, <2>13 DEF LinkInv
  <2>15. \A i \in DOMAIN routed : routed[i].family = f => Alike(p, routed[i].blocks)
    BY <2>12, <2>14 DEF Begins, Alike
  <2>16. f \in 1..(k + 1) /\ sizes[f] < FamilyCap
    BY <1>1, <1>7, <2>13, <2>14
  <2> QED  BY <1>1, <2>15, <2>16
<1>8. CASE ~(known # {} /\ sizes[families[deepest]] < FamilyCap)
  <2>1. f = k + 1
    BY <1>6, <1>8
  <2>2. \A i \in DOMAIN routed : routed[i].family \in 0..k
    BY <1>1 DEF LinkInv
  <2>3. k + 1 \notin 0..k /\ k + 1 \in 1..(k + 1) /\ ~(k + 1 <= k)
    BY <1>1
  <2> QED  BY <1>1, <2>1, <2>2, <2>3
<1> QED  BY <1>7, <1>8

\* What is registered is its own, or was there.
LEMMA RegisteredIs ==
    ASSUME NEW p \in RoutedPrompt, NEW f
    PROVE  \A x \in DOMAIN Registered(Linkable(p), f) :
              \/ x \in DOMAIN families /\ Registered(Linkable(p), f)[x] = families[x]
              \/ Registered(Linkable(p), f)[x] = f /\ Begins(x, p)
<1>1. PICK taken \in SUBSET LinksOf(Linkable(p)) :
          Registered(Linkable(p), f) =
              [x \in DOMAIN families \cup taken |-> IF x \in taken THEN f ELSE families[x]]
  BY DEF Registered
<1>2. ASSUME NEW x \in LinksOf(Linkable(p)) PROVE Begins(x, p)
  <2>1. PICK d \in MinShared..Len(Linkable(p)) : x = SubSeq(Linkable(p), 1, d)
    BY DEF LinksOf
  <2> QED  BY <2>1, LinksAre
<1> QED  BY <1>1, <1>2

\* What a request is to the trace that it ends.
LEMMA EntryIs ==
    ASSUME NEW s \in Seq(RoutedEntry), NEW r \in RoutedEntry, NEW u, u = Append(s, r)
    PROVE  /\ Len(s) \in Nat /\ DOMAIN s = 1..Len(s)
           /\ u \in Seq(RoutedEntry) /\ DOMAIN u = 1..(Len(s) + 1)
           /\ \A i \in 1..Len(s) : u[i] = s[i] /\ i \in DOMAIN u /\ i # Len(s) + 1
           /\ u[Len(s) + 1] = r
           /\ \A i \in DOMAIN u : i \in 1..Len(s) \/ i = Len(s) + 1
           /\ Len(s) + 1 \in DOMAIN u /\ Len(s) + 1 \notin 1..Len(s)
<1>1. Len(s) \in Nat /\ DOMAIN s = 1..Len(s)
  OBVIOUS
<1>2. /\ u \in Seq(RoutedEntry) /\ DOMAIN u = 1..(Len(s) + 1)
      /\ \A i \in 1..Len(s) : u[i] = s[i]
      /\ u[Len(s) + 1] = r
  BY <1>1
<1>3. /\ \A i \in 1..(Len(s) + 1) : i \in 1..Len(s) \/ i = Len(s) + 1
      /\ \A i \in 1..Len(s) : i \in 1..(Len(s) + 1) /\ i # Len(s) + 1
      /\ Len(s) + 1 \in 1..(Len(s) + 1) /\ Len(s) + 1 \notin 1..Len(s)
  BY <1>1
<1> QED  BY <1>1, <1>2, <1>3

\* The kin of a family when a request joins one.
LEMMA KindredGrow ==
    ASSUME routed \in Seq(RoutedEntry), NEW r \in RoutedEntry, routed' = Append(routed, r)
    PROVE  \A f : /\ Cardinality(KindredOf(routed, f)) \in Nat
                  /\ r.family # f =>
                        Cardinality(KindredOf(routed', f)) = Cardinality(KindredOf(routed, f))
                  /\ r.family = f =>
                        Cardinality(KindredOf(routed', f)) = Cardinality(KindredOf(routed, f)) + 1
<1> SUFFICES ASSUME NEW f
             PROVE  /\ Cardinality(KindredOf(routed, f)) \in Nat
                    /\ r.family # f =>
                        Cardinality(KindredOf(routed', f)) = Cardinality(KindredOf(routed, f))
                    /\ r.family = f =>
                          Cardinality(KindredOf(routed', f)) = Cardinality(KindredOf(routed, f)) + 1
  OBVIOUS
<1>1. PICK s, u : s = routed /\ u = routed' /\ s \in Seq(RoutedEntry) /\ u = Append(s, r)
  OBVIOUS
<1>2. PICK n \in Nat : n = Len(s) /\ DOMAIN s = 1..n
  BY <1>1, EntryIs
<1>3. /\ DOMAIN u = 1..(n + 1) /\ u[n + 1] = r /\ n + 1 \in DOMAIN u /\ n + 1 \notin 1..n
      /\ \A i \in 1..n : u[i] = s[i] /\ i \in DOMAIN u
      /\ \A i \in DOMAIN u : i \in 1..n \/ i = n + 1
  BY <1>2, <1>1, EntryIs
<1>4. PICK old, new : old = KindredOf(s, f) /\ new = KindredOf(u, f)
  OBVIOUS
<1>5. IsFiniteSet(1..n) /\ old \in SUBSET (1..n)
  BY <1>2, <1>4, FS_Interval DEF KindredOf
<1>6. IsFiniteSet(old) /\ Cardinality(old) \in Nat /\ n + 1 \notin old
  BY <1>3, <1>5, FS_Subset, FS_CardinalityType
<1>7. \A i : i \in new <=> i \in old \/ (i = n + 1 /\ r.family = f)
  BY <1>2, <1>3, <1>4 DEF KindredOf
<1>8. r.family # f => new = old
  BY <1>7
<1>9. r.family = f => new = old \cup {n + 1}
  BY <1>7
<1>10. Cardinality(old \cup {n + 1}) = Cardinality(old) + 1
  BY <1>6, FS_AddElement
<1> QED  BY <1>1, <1>4, <1>6, <1>8, <1>9, <1>10

\* What joins a family is one more of it.
LEMMA JoinedIs ==
    ASSUME sizes \in Seq(Nat), NEW f \in 1..(Len(sizes) + 1)
    PROVE  /\ Len(sizes) \in Nat /\ DOMAIN sizes = 1..Len(sizes)
           /\ Joined(f) \in Seq(Nat) /\ Len(Joined(f)) >= Len(sizes) /\ Len(Joined(f)) >= f
           /\ DOMAIN Joined(f) = 1..Len(Joined(f)) /\ Len(Joined(f)) \in Nat
           /\ \A g \in DOMAIN Joined(f) \ {f} : g \in DOMAIN sizes /\ Joined(f)[g] = sizes[g]
           /\ f <= Len(sizes) => Joined(f)[f] = sizes[f] + 1
           /\ f > Len(sizes) => Joined(f)[f] = 1
<1>1. PICK k \in Nat : k = Len(sizes) /\ DOMAIN sizes = 1..k
  OBVIOUS
<1>2. PICK w : w = Joined(f)
  OBVIOUS
<1>3. f \in Nat /\ f >= 1 /\ f <= k + 1
  BY <1>1
<1>4. CASE f > k
  <2>1. w = Append(sizes, 1) /\ f = k + 1
    BY <1>1, <1>2, <1>3, <1>4 DEF Joined
  <2>2. 1 \in Nat
    OBVIOUS
  <2>3. /\ w \in Seq(Nat) /\ Len(w) = k + 1 /\ DOMAIN w = 1..(k + 1) /\ w[k + 1] = 1
        /\ \A g \in 1..k : w[g] = sizes[g]
    BY <1>1, <2>1, <2>2
  <2>4. \A g \in 1..(k + 1) : g = k + 1 \/ g \in 1..k
    BY <1>1
  <2> QED  BY <1>1, <1>2, <1>3, <1>4, <2>1, <2>3, <2>4
<1>5. CASE ~(f > k)
  <2>1. f <= k /\ f \in 1..k
    BY <1>1, <1>3, <1>5
  <2>2. w = [sizes EXCEPT ![f] = sizes[f] + 1]
    BY <1>1, <1>2, <1>5 DEF Joined
  <2>3. sizes[f] + 1 \in Nat
    BY <1>1, <2>1
  <2>4. w \in Seq(Nat) /\ Len(w) = k /\ DOMAIN w = 1..k /\ w[f] = sizes[f] + 1
        /\ \A g \in (1..k) \ {f} : w[g] = sizes[g]
    BY <1>1, <2>1, <2>2, <2>3
  <2> QED  BY <1>1, <1>2, <1>3, <1>5, <2>1, <2>4
<1> QED  BY <1>4, <1>5

\* A request joins its family, or founds one, or is of none.
LEMMA LinksKeep ==
    ASSUME LinkInv, NEW r \in RoutedEntry, routed' = Append(routed, r), NEW f, f = r.family,
           \/ f = 0 /\ sizes' = sizes /\ families' = families
           \/ /\ f = FamilyFor(Linkable(r.blocks)) /\ sizes' = Joined(f)
              /\ families' = Registered(Linkable(r.blocks), f)
    PROVE  LinkInv'
<1>1. PICK n, k, p : n = Len(routed) /\ k = Len(sizes) /\ p = r.blocks
  OBVIOUS
<1>2. PICK s, u : s = routed /\ u = routed'
  OBVIOUS
<1>3. s \in Seq(RoutedEntry) /\ u = Append(s, r) /\ n = Len(s) /\ p \in RoutedPrompt
  BY <1>1, <1>2 DEF LinkInv, RoutedEntry
<1>4. /\ n \in Nat /\ DOMAIN routed = 1..n /\ routed' \in Seq(RoutedEntry)
      /\ \A i \in 1..n : routed'[i] = routed[i] /\ i \in DOMAIN routed' /\ i # n + 1
      /\ routed'[n + 1] = r
      /\ \A i \in DOMAIN routed' : i \in 1..n \/ i = n + 1
      /\ n + 1 \in DOMAIN routed' /\ n + 1 \notin 1..n
  BY <1>2, <1>3, EntryIs
<1>5. k \in Nat /\ DOMAIN sizes = 1..k /\ sizes \in Seq(Nat)
  BY <1>1 DEF LinkInv
<1>6. ASSUME f # 0
      PROVE  /\ f = FamilyFor(Linkable(p)) /\ sizes' = Joined(f) /\ families' = Registered(Linkable(p), f)
             /\ f \in 1..(k + 1) /\ (f <= k => sizes[f] < FamilyCap)
             /\ \A i \in DOMAIN routed : routed[i].family = f => Alike(p, routed[i].blocks)
  <2>1. f = FamilyFor(Linkable(p)) /\ sizes' = Joined(f) /\ families' = Registered(Linkable(p), f)
    BY <1>1, <1>6
  <2> QED  BY <1>1, <1>3, <2>1, FamilyForIs
<1>7. f = 0 => sizes' = sizes /\ families' = families
  <2>1. ASSUME f = FamilyFor(Linkable(p)) PROVE f # 0
    <3>1. f \in 1..(k + 1)
      BY <1>1, <1>3, <2>1, FamilyForIs
    <3> QED  BY <1>5, <3>1
  <2> QED  BY <1>1, <2>1
<1>8. ASSUME NEW g
      PROVE  /\ Cardinality(KindredOf(routed, g)) \in Nat
             /\ f # g => Cardinality(KindredOf(routed', g)) = Cardinality(KindredOf(routed, g))
             /\ f = g => Cardinality(KindredOf(routed', g)) = Cardinality(KindredOf(routed, g)) + 1
  <2>1. routed \in Seq(RoutedEntry)
    BY <1>2, <1>3
  <2> QED  BY <2>1, KindredGrow
<1>9. /\ sizes' \in Seq(Nat) /\ Len(sizes') \in Nat /\ Len(sizes') >= k /\ DOMAIN sizes' = 1..Len(sizes')
      /\ f \in 0..Len(sizes')
      /\ \A g \in DOMAIN sizes' : g # f => g \in DOMAIN sizes /\ sizes'[g] = sizes[g]
  <2>1. CASE f = 0
    BY <1>1, <1>5, <1>7, <2>1
  <2>2. CASE f # 0
    <3>1. f \in 1..(Len(sizes) + 1) /\ sizes' = Joined(f)
      BY <1>1, <1>6, <2>2
    <3>2. /\ sizes' \in Seq(Nat) /\ Len(sizes') >= k /\ Len(sizes') >= f
          /\ DOMAIN sizes' = 1..Len(sizes') /\ Len(sizes') \in Nat
          /\ \A g \in DOMAIN sizes' \ {f} : g \in DOMAIN sizes /\ sizes'[g] = sizes[g]
      BY <1>1, <1>5, <3>1, JoinedIs
    <3>3. f \in 0..Len(sizes')
      BY <1>1, <1>5, <3>1, <3>2
    <3> QED  BY <3>2, <3>3
  <2> QED  BY <2>1, <2>2
<1>10. ASSUME NEW g \in DOMAIN sizes'
       PROVE  sizes'[g] <= FamilyCap /\ sizes'[g] = Cardinality(KindredOf(routed', g))
  <2>1. CASE g # f
    <3>1. g \in DOMAIN sizes /\ sizes'[g] = sizes[g]
      BY <1>9, <2>1
    <3>2. sizes[g] <= FamilyCap /\ sizes[g] = Cardinality(KindredOf(routed, g))
      BY <3>1 DEF LinkInv
    <3> QED  BY <1>8, <2>1, <3>1, <3>2
  <2>2. CASE g = f
    <3>1. f # 0
      BY <1>9, <2>2
    <3>2. f \in 1..(Len(sizes) + 1) /\ sizes' = Joined(f) /\ (f <= k => sizes[f] < FamilyCap)
      BY <1>1, <1>6, <3>1
    <3>3. (f <= k => sizes'[f] = sizes[f] + 1) /\ (f > k => sizes'[f] = 1)
      BY <1>1, <1>5, <3>2, JoinedIs
    <3>4. PICK before \in Nat : before = Cardinality(KindredOf(routed, f))
      BY <1>8
    <3>5. Cardinality(KindredOf(routed', f)) = before + 1
      BY <1>8, <3>4
    <3>6. FamilyCap \in Nat \ {0}
      BY SelectionAssumption
    <3>7. CASE f <= k
      <4>1. f \in DOMAIN sizes
        BY <1>1, <1>5, <3>2, <3>7
      <4>2. sizes[f] = before /\ sizes[f] < FamilyCap /\ sizes'[f] = sizes[f] + 1
        BY <3>2, <3>3, <3>4, <3>7, <4>1 DEF LinkInv
      <4> QED  BY <2>2, <3>4, <3>5, <3>6, <4>2
    <3>8. CASE ~(f <= k)
      <4>1. f > k
        BY <1>1, <1>5, <3>2, <3>8
      <4>2. \A i \in DOMAIN routed : routed[i].family # f
        <5>1. \A i \in DOMAIN routed : routed[i].family \in 0..k
          BY <1>1 DEF LinkInv
        <5>2. f \notin 0..k
          BY <1>5, <3>8
        <5> QED  BY <5>1, <5>2
      <4>3. KindredOf(routed, f) = {}
        BY <4>2 DEF KindredOf
      <4>4. before = 0
        BY <3>4, <4>3, FS_EmptySet
      <4>5. sizes'[f] = 1
        BY <3>3, <4>1
      <4> QED  BY <2>2, <3>5, <3>6, <4>4, <4>5
    <3> QED  BY <3>7, <3>8
  <2> QED  BY <2>1, <2>2
<1>11. \A i \in DOMAIN routed' : routed'[i].family \in 0..Len(sizes')
  <2>1. \A i \in 1..n : routed[i].family \in 0..k
    BY <1>1, <1>4 DEF LinkInv
  <2>2. 0..k \subseteq 0..Len(sizes')
    BY <1>5, <1>9
  <2> QED  BY <1>4, <1>9, <2>1, <2>2
<1>12. ASSUME NEW i \in DOMAIN routed', NEW j \in DOMAIN routed', i # j,
              routed'[i].family # 0, routed'[i].family = routed'[j].family
       PROVE  Alike(routed'[i].blocks, routed'[j].blocks)
  <2>1. CASE i \in 1..n /\ j \in 1..n
    <3>1. routed'[i] = routed[i] /\ routed'[j] = routed[j] /\ i \in DOMAIN routed /\ j \in DOMAIN routed
      BY <1>4, <2>1
    <3> QED  BY <1>12, <3>1 DEF LinkInv, Rootings
  <2>2. CASE i = n + 1 /\ j \in 1..n
    <3>1. routed'[i] = r /\ routed'[j] = routed[j] /\ j \in DOMAIN routed
      BY <1>4, <2>2
    <3>2. f # 0 /\ routed[j].family = f
      BY <1>12, <3>1
    <3> QED  BY <1>1, <1>6, <3>1, <3>2
  <2>3. CASE i \in 1..n /\ j = n + 1
    <3>1. routed'[i] = routed[i] /\ routed'[j] = r /\ i \in DOMAIN routed
      BY <1>4, <2>3
    <3>2. f # 0 /\ routed[i].family = f
      BY <1>12, <3>1
    <3>3. Alike(p, routed[i].blocks)
      BY <1>6, <3>1, <3>2
    <3> QED  BY <1>1, <3>1, <3>3 DEF Alike
  <2> QED  BY <1>4, <1>12, <2>1, <2>2, <2>3
<1>13. ASSUME NEW x \in DOMAIN families'
       PROVE  /\ families'[x] \in 1..Len(sizes')
              /\ \E i \in DOMAIN routed' : routed'[i].family = families'[x]
              /\ \A i \in DOMAIN routed' : routed'[i].family = families'[x] =>
                     Begins(x, routed'[i].blocks)
  <2>1. \/ x \in DOMAIN families /\ families'[x] = families[x]
        \/ f # 0 /\ families'[x] = f /\ Begins(x, p)
    <3>1. CASE f = 0
      BY <1>7, <3>1
    <3>2. CASE f # 0
      BY <1>3, <1>6, <3>2, RegisteredIs
    <3> QED  BY <3>1, <3>2
  <2>2. CASE x \in DOMAIN families /\ families'[x] = families[x]
    <3>1. families[x] \in 1..k
      BY <1>1, <2>2 DEF LinkInv
    <3>2. PICK i \in 1..n : routed[i].family = families[x]
      BY <1>4, <2>2 DEF LinkInv
    <3>3. \A j \in 1..n : routed[j].family = families[x] => Begins(x, routed[j].blocks)
      BY <1>4, <2>2 DEF LinkInv
    <3>4. ASSUME f = families[x] PROVE Begins(x, p)
      <4>1. f # 0
        BY <1>5, <3>1, <3>4
      <4>2. Alike(p, routed[i].blocks)
        BY <1>4, <1>6, <3>2, <3>4, <4>1
      <4> QED  BY <3>2, <3>3, <4>2 DEF Alike, Begins
    <3>5. families[x] \in 1..Len(sizes')
      BY <1>5, <1>9, <3>1
    <3>6. i \in DOMAIN routed' /\ routed'[i].family = families[x]
      BY <1>4, <3>2
    <3>7. ASSUME NEW j \in DOMAIN routed', routed'[j].family = families[x]
          PROVE  Begins(x, routed'[j].blocks)
      <4>1. CASE j \in 1..n
        BY <1>4, <3>3, <3>7, <4>1
      <4>2. CASE j = n + 1
        BY <1>1, <1>4, <3>4, <3>7, <4>2
      <4> QED  BY <1>4, <3>7, <4>1, <4>2
    <3> QED  BY <2>2, <3>5, <3>6, <3>7
  <2>3. CASE f # 0 /\ families'[x] = f /\ Begins(x, p)
    <3>1. f \in 1..Len(sizes')
      BY <1>9, <2>3
    <3>2. n + 1 \in DOMAIN routed' /\ routed'[n + 1].family = f
      BY <1>4
    <3>3. ASSUME NEW j \in DOMAIN routed', routed'[j].family = f
          PROVE  Begins(x, routed'[j].blocks)
      <4>1. CASE j \in 1..n
        <5>1. Alike(p, routed[j].blocks)
          BY <1>4, <1>6, <2>3, <3>3, <4>1
        <5>2. routed'[j] = routed[j]
          BY <1>4, <4>1
        <5> QED  BY <2>3, <5>1, <5>2 DEF Alike, Begins
      <4>2. CASE j = n + 1
        BY <1>1, <1>4, <2>3, <4>2
      <4> QED  BY <1>4, <3>3, <4>1, <4>2
    <3> QED  BY <2>3, <3>1, <3>2, <3>3
  <2> QED  BY <2>1, <2>2, <2>3
<1>14. Rootings(routed')
  BY <1>12 DEF Rootings
<1> QED  BY <1>4, <1>9, <1>10, <1>11, <1>13, <1>14 DEF LinkInv

\* Of some nodes, one has the least work, and no more load than the others.
LEMMA LeastWorkIs ==
    ASSUME NEW v \in Views, NEW nodes \in SUBSET SNode, nodes # {}
    PROVE  /\ LeastWork(v, nodes) \in nodes
           /\ \A k \in nodes : v.load[LeastWork(v, nodes)] <= v.load[k]
<1>1. v.load \in [SNode -> Nat] /\ v.since \in [SNode -> Int]
  BY SelectionAssumption
<1>2. PICK load, since : load = v.load /\ since = v.since
  OBVIOUS
<1>3. \A n \in nodes : load[n] \in Nat /\ since[n] \in Int /\ n \in Int
  BY <1>1, <1>2, SelectionAssumption, SMTT(30) DEF SNode
<1>4. IsFiniteSet(nodes)
  <2>1. IsFiniteSet(0..(SNodes - 1))
    BY SelectionAssumption, FS_Interval
  <2> QED  BY <2>1, FS_Subset DEF SNode
<1>5. PICK a \in nodes : \A k \in nodes : load[a] <= load[k]
  <2>1. PICK vals : vals = {load[n] : n \in nodes}
    OBVIOUS
  <2>2. IsFiniteSet(vals) /\ vals # {} /\ vals \subseteq Int
    BY <1>3, <1>4, <2>1, ImageIsFinite
  <2>3. PICK m \in vals : \A x \in vals : m <= x
    BY <2>2, LeastExists
  <2>4. PICK n \in nodes : load[n] = m
    BY <2>1
  <2>5. \A k \in nodes : load[k] \in vals
    BY <2>1
  <2> QED  BY <2>3, <2>4, <2>5
<1>6. PICK light : light = {n \in nodes : load[n] = load[a]}
  OBVIOUS
<1>7. light \in SUBSET nodes /\ IsFiniteSet(light) /\ a \in light
  BY <1>4, <1>6, FS_Subset
<1>8. PICK b \in light : \A k \in light : since[b] <= since[k]
  <2>1. PICK vals : vals = {since[n] : n \in light}
    OBVIOUS
  <2>2. IsFiniteSet(vals) /\ vals # {} /\ vals \subseteq Int
    BY <1>3, <1>7, <2>1, ImageIsFinite
  <2>3. PICK m \in vals : \A x \in vals : m <= x
    BY <2>2, LeastExists
  <2>4. PICK n \in light : since[n] = m
    BY <2>1
  <2>5. \A k \in light : since[k] \in vals
    BY <2>1
  <2> QED  BY <2>3, <2>4, <2>5
<1>9. PICK old : old = {n \in light : since[n] = since[b]}
  OBVIOUS
<1>10. old \in SUBSET light /\ IsFiniteSet(old) /\ old # {} /\ old \subseteq Int
  <2>1. old \in SUBSET light /\ b \in old
    BY <1>9
  <2>2. IsFiniteSet(old)
    BY <1>7, <2>1, FS_Subset
  <2> QED  BY <1>3, <1>7, <2>1, <2>2
<1>11. PICK n \in old : \A k \in old : n <= k
  BY <1>10, LeastExists
<1>12. n \in nodes /\ load[n] = load[a] /\ since[n] = since[b] /\ n \in light
  BY <1>6, <1>7, <1>9, <1>10
<1>13. ASSUME NEW k \in nodes \ {n}
       PROVE  \/ load[n] < load[k]
              \/ load[n] = load[k] /\ since[n] < since[k]
              \/ load[n] = load[k] /\ since[n] = since[k] /\ n < k
  <2>1. load[n] \in Nat /\ load[k] \in Nat /\ since[n] \in Int /\ since[k] \in Int /\ n \in Int /\ k \in Int
    BY <1>3, <1>12
  <2>2. load[n] <= load[k]
    BY <1>5, <1>12
  <2>3. CASE load[k] = load[n]
    <3>1. k \in light
      BY <1>6, <1>12, <2>3
    <3>2. since[n] <= since[k]
      BY <1>8, <1>12, <3>1
    <3>3. since[k] = since[n] => n <= k
      BY <1>9, <1>11, <1>12, <3>1
    <3> QED  BY <2>1, <2>3, <3>2, <3>3
  <2> QED  BY <2>1, <2>2, <2>3
<1>14. PICK least : least = LeastWork(v, nodes)
  OBVIOUS
<1>15. /\ least \in nodes
       /\ \A k \in nodes \ {least} :
              \/ load[least] < load[k]
              \/ load[least] = load[k] /\ since[least] < since[k]
              \/ load[least] = load[k] /\ since[least] = since[k] /\ least < k
  <2>1. \A k \in nodes \ {n} :
           \/ v.load[n] < v.load[k]
           \/ v.load[n] = v.load[k] /\ v.since[n] < v.since[k]
           \/ v.load[n] = v.load[k] /\ v.since[n] = v.since[k] /\ n < k
    BY <1>2, <1>13
  <2>2. LeastWork(v, nodes) \in nodes /\ \A k \in nodes \ {LeastWork(v, nodes)} :
           \/ v.load[LeastWork(v, nodes)] < v.load[k]
           \/ /\ v.load[LeastWork(v, nodes)] = v.load[k]
              /\ v.since[LeastWork(v, nodes)] < v.since[k]
           \/ /\ v.load[LeastWork(v, nodes)] = v.load[k]
              /\ v.since[LeastWork(v, nodes)] = v.since[k] /\ LeastWork(v, nodes) < k
    BY <1>12, <2>1 DEF LeastWork
  <2> QED  BY <1>2, <1>14, <2>2
<1>16. \A k \in nodes : load[least] <= load[k]
  <2>1. ASSUME NEW k \in nodes PROVE load[least] <= load[k]
    <3>1. load[least] \in Nat /\ load[k] \in Nat
      BY <1>3, <1>15
    <3>2. CASE k = least
      BY <3>1, <3>2
    <3>3. CASE k # least
      <4>1. load[least] < load[k] \/ load[least] = load[k]
        BY <1>15, <3>3
      <4> QED  BY <3>1, <4>1
    <3> QED  BY <3>2, <3>3
  <2> QED  BY <2>1
<1> QED  BY <1>2, <1>14, <1>15, <1>16

\* A node with no more load than one that is not overloaded is not either.
LEMMA LighterIsSpared ==
    ASSUME NEW v \in Views, NEW n \in SNode, NEW k \in SNode, v.load[n] <= v.load[k], ~Overloaded(v, k)
    PROVE  ~Overloaded(v, n)
<1>1. v.load \in [SNode -> Nat] /\ SNodes \in Nat
  BY SelectionAssumption
<1>2. PICK a, b, c : a = v.load[n] /\ b = v.load[k] /\ c = 4 * SNodes
  OBVIOUS
<1>3. a \in Nat /\ b \in Nat /\ c \in Nat /\ a <= b
  BY <1>1, <1>2
<1>4. PICK total : total = SumFunctionOnSet(v.load, SNode)
  OBVIOUS
<1>5. total \in Nat
  <2>1. IsFiniteSet(0..(SNodes - 1))
    BY SelectionAssumption, FS_Interval
  <2>2. PICK f : f = v.load
    OBVIOUS
  <2>3. IsFiniteSet(SNode) /\ \A x \in SNode : f[x] \in Nat
    BY <1>1, <2>1, <2>2 DEF SNode
  <2>4. SumFunctionOnSet(f, SNode) \in Nat
    BY <2>3, SumOfNaturals
  <2> QED  BY <1>4, <2>2, <2>4
<1>6. c * a <= c * b /\ c * a \in Nat /\ c * b \in Nat
  BY <1>3
<1>7. Overloaded(v, n) <=> total > 0 /\ c * a > 5 * total
  BY <1>2, <1>4 DEF Overloaded
<1>8. Overloaded(v, k) <=> total > 0 /\ c * b > 5 * total
  BY <1>2, <1>4 DEF Overloaded
<1> QED  BY <1>5, <1>6, <1>7, <1>8

\* What is chosen for a primary spares full and overloaded nodes where it can.
LEMMA ChosenIs ==
    ASSUME NEW v \in Views, NEW primary \in SNode, NEW choice, choice = Chosen(v, primary),
           NEW near, near = Secondaries(primary) \cup {primary}
    PROVE  /\ choice.node \in SNode
           /\ ~Broken(v, primary) => choice.node = primary
           /\ IF ~choice.open THEN ~Broken(v, choice.node) /\ choice.node \in near
              ELSE /\ \A k \in near : Broken(v, k)
                   /\ choice.node \in v.full => SNode = v.full
<1>1. SNodes \in Nat \ {0} /\ v.full \subseteq SNode
  BY SelectionAssumption
<1>2. Secondaries(primary) \in SUBSET SNode
  <2>1. ASSUME NEW x \in Secondaries(primary) PROVE x \in SNode
    <3>1. PICK k \in 1..Min({2, SNodes - 1}) : x = (primary + k) % SNodes
      BY DEF Secondaries
    <3>2. Min({2, SNodes - 1}) \in {2, SNodes - 1}
      <4>1. 2 \in Int /\ SNodes - 1 \in Int
        BY <1>1
      <4> QED  BY <4>1, MinOfTwo
    <3>3. Min({2, SNodes - 1}) \in Int
      BY <1>1, <3>2
    <3>4. k \in Int /\ primary \in Int
      BY <1>1, <3>3 DEF SNode
    <3>5. primary + k \in Int
      BY <3>4
    <3>6. (primary + k) % SNodes \in 0..(SNodes - 1)
      BY <1>1, <3>5
    <3> QED  BY <3>1, <3>6 DEF SNode
  <2> QED  BY <2>1
<1>3. CASE ~Broken(v, primary)
  <2>1. choice = [node |-> primary, open |-> FALSE]
    BY <1>3 DEF Chosen
  <2> QED  BY <1>3, <2>1
<1>4. CASE Broken(v, primary)
  <2>1. PICK eligible, cluster : /\ eligible = Secondaries(primary) \ v.full
                                 /\ cluster = IF SNode \subseteq v.full THEN SNode ELSE SNode \ v.full
    OBVIOUS
  <2>2. choice = IF \A n \in eligible : Overloaded(v, n)
                 THEN [node |-> LeastWork(v, cluster), open |-> TRUE]
                 ELSE [node |-> LeastWork(v, eligible), open |-> FALSE]
    BY <1>4, <2>1 DEF Chosen, Fallback
  <2>3. CASE \A n \in eligible : Overloaded(v, n)
    <3>1. choice.node = LeastWork(v, cluster) /\ choice.open = TRUE
      BY <2>2, <2>3
    <3>2. cluster \in SUBSET SNode /\ cluster # {}
      <4>1. primary \in SNode
        OBVIOUS
      <4> QED  BY <2>1, <4>1
    <3>3. choice.node \in cluster
      BY <3>1, <3>2, LeastWorkIs
    <3>4. choice.node \in v.full => SNode = v.full
      BY <1>1, <2>1, <3>3
    <3>5. ASSUME NEW k \in near PROVE Broken(v, k)
      <4>1. k = primary \/ k \in v.full \/ k \in eligible
        BY <2>1, <3>5
      <4> QED  BY <1>4, <2>3, <4>1 DEF Broken
    <3> QED  BY <1>4, <3>1, <3>2, <3>3, <3>4, <3>5
  <2>4. CASE ~(\A n \in eligible : Overloaded(v, n))
    <3>1. choice.node = LeastWork(v, eligible) /\ choice.open = FALSE
      BY <2>2, <2>4
    <3>2. PICK k \in eligible : ~Overloaded(v, k)
      BY <2>4
    <3>3. eligible \in SUBSET SNode /\ eligible # {}
      BY <1>2, <2>1, <3>2
    <3>4. choice.node \in eligible /\ v.load[choice.node] <= v.load[k]
      BY <3>1, <3>2, <3>3, LeastWorkIs
    <3>5. choice.node \in SNode /\ k \in SNode
      BY <3>3, <3>4
    <3>6. ~Overloaded(v, choice.node)
      BY <3>2, <3>4, <3>5, LighterIsSpared
    <3>7. choice.node \in near /\ choice.node \notin v.full
      BY <2>1, <3>4
    <3> QED  BY <1>4, <3>1, <3>5, <3>6, <3>7 DEF Broken
  <2> QED  BY <2>3, <2>4
<1> QED  BY <1>3, <1>4

\* What went to a key went to its home, which is a node, and what was chosen last
\* spares full and overloaded nodes.
KeyInv ==
    /\ sizes \in Seq(Nat) /\ Len(sizes) <= Len(routed) /\ Len(routed) <= RoutedRequests
    /\ \A key \in DOMAIN homes : homes[key] \in SNode
    /\ \A key \in DOMAIN kept : kept[key] = {Primary(key)}
    /\ FallbackSparesLoad

\* It says that keys keep their home.
LEMMA HomesStay == ASSUME KeyInv PROVE KeysKeepTheirHome
<1>1. ASSUME NEW key \in DOMAIN kept PROVE Cardinality(kept[key]) = 1
  <2>1. PICK n : n = Primary(key)
    OBVIOUS
  <2>2. kept[key] = {n}
    BY <2>1 DEF KeyInv
  <2> QED  BY <2>2, FS_Singleton
<1> QED  BY <1>1 DEF KeysKeepTheirHome

\* A key is sent to its home, to become it, or past it.
LEMMA KeysKeep ==
    ASSUME KeyInv, NEW v \in Views, NEW key \in RoutedKey, NEW choice, NEW broken \in BOOLEAN,
           broken <=> Broken(v, Primary(key)),
           choice = Chosen(v, Primary(key)),
           homes' = HomeAfter(key, choice.node, broken),
           latest' = <<[view |-> v, primary |-> Primary(key), choice |-> choice]>>,
           kept' = IF broken THEN kept
                   ELSE With(kept, key, {choice.node} \cup
                                     (IF key \in DOMAIN kept THEN kept[key] ELSE {}))
    PROVE  /\ \A x \in DOMAIN homes' : homes'[x] \in SNode
           /\ \A x \in DOMAIN kept' : kept'[x] = {Primary(x)'}
           /\ FallbackSparesLoad'
<1>1. PICK p : p = Primary(key)
  OBVIOUS
<1>2. p \in SNode
  BY <1>1, SelectionAssumption DEF KeyInv, Primary
<1>3. PICK near : near = Secondaries(p) \cup {p}
  OBVIOUS
<1>4. /\ choice.node \in SNode
      /\ ~Broken(v, p) => choice.node = p
      /\ IF ~choice.open THEN ~Broken(v, choice.node) /\ choice.node \in near
         ELSE /\ \A k \in near : Broken(v, k)
              /\ choice.node \in v.full => SNode = v.full
  BY <1>1, <1>2, <1>3, ChosenIs, SMTT(30)
<1>5. PICK last : last = [view |-> v, primary |-> p, choice |-> choice]
  OBVIOUS
<1>6. last.view = v /\ last.primary = p /\ last.choice = choice
  BY <1>5
<1>7. latest' = <<last>>
  BY <1>1, <1>5
<1>8. DOMAIN latest' = {1} /\ latest'[1] = last
  BY <1>7
<1>9. FallbackSparesLoad'
  BY <1>3, <1>4, <1>6, <1>8 DEF FallbackSparesLoad
<1>10. CASE broken
  <2>1. homes' = homes /\ kept' = kept
    BY <1>10 DEF HomeAfter
  <2> QED  BY <1>9, <2>1 DEF KeyInv, Primary
<1>11. CASE ~broken
  <2>1. choice.node = p
    BY <1>1, <1>4, <1>11
  <2>2. homes' = homes \/ homes' = With(homes, key, p)
    BY <2>1 DEF HomeAfter
  <2>3. ASSUME NEW x PROVE Primary(x)' = Primary(x)
    <3>1. CASE homes' = homes
      BY <3>1 DEF Primary
    <3>2. CASE homes' = With(homes, key, p)
      <4>1. DOMAIN homes' = DOMAIN homes \cup {key} /\ homes'[key] = p
            /\ \A y \in DOMAIN homes \ {key} : homes'[y] = homes[y]
        BY <3>2 DEF With
      <4>2. CASE x = key
        BY <1>1, <4>1, <4>2 DEF Primary
      <4>3. CASE x # key
        BY <4>1, <4>3 DEF Primary
      <4> QED  BY <4>2, <4>3
    <3> QED  BY <2>2, <3>1, <3>2
  <2>4. ASSUME NEW x \in DOMAIN homes' PROVE homes'[x] \in SNode
    <3>1. CASE homes' = homes
      BY <2>4, <3>1 DEF KeyInv
    <3>2. CASE homes' = With(homes, key, p)
      BY <1>2, <2>4, <3>2 DEF With, KeyInv
    <3> QED  BY <2>2, <3>1, <3>2
  <2>5. kept' = With(kept, key, {p})
    <3>1. key \in DOMAIN kept => kept[key] = {p}
      BY <1>1 DEF KeyInv
    <3>2. {p} \cup (IF key \in DOMAIN kept THEN kept[key] ELSE {}) = {p}
      BY <3>1
    <3> QED  BY <1>11, <2>1, <3>2
  <2>6. ASSUME NEW x \in DOMAIN kept' PROVE kept'[x] = {Primary(x)}
    <3>1. CASE x = key
      BY <1>1, <2>5, <3>1 DEF With
    <3>2. CASE x # key
      BY <2>5, <2>6, <3>2 DEF With, KeyInv
    <3> QED  BY <3>1, <3>2
  <2> QED  BY <1>9, <2>3, <2>4, <2>6
<1> QED  BY <1>10, <1>11

SelectInv == HotInv /\ LinkInv /\ KeyInv

\* A selection keeps all of it.
LEMMA RouteKeeps == ASSUME SelectInv, Route PROVE SelectInv'
<1>1. PICK n \in Nat : n = Len(routed) /\ routed \in Seq(RoutedEntry) /\ n < RoutedRequests
  BY DEF SelectInv, HotInv, Route
<1>2. PICK blocks \in RoutedPrompt, v \in Views, gap \in RoutedGap :
       \E family \in {IF router = "S4" THEN FamilyFor(Linkable(blocks)) ELSE 0} :
       \E key \in {IF router = "S4" THEN family ELSE blocks[Min({AnchorDepth, Len(blocks)})]} :
       \E choice \in {Chosen(v, Primary(key))} :
       LET broken == Broken(v, Primary(key))
           at == gap + (IF routed = <<>> THEN 0 ELSE Last(routed).at)
           requests == Len(routed) + 1
       IN  /\ homes' = HomeAfter(key, choice.node, broken)
           /\ IF router = "S4"
              THEN /\ sizes' = Joined(family)
                   /\ families' = Registered(Linkable(blocks), family)
                   /\ linked' = Learn(linked, Linkable(blocks), requests)
              ELSE UNCHANGED <<sizes, families, linked>>
           /\ reuse' = Reused(blocks, at)
           /\ tracked' = Learn(tracked, blocks, requests)
           /\ routed' = Append(routed, [blocks |-> blocks, at |-> at, family |-> family])
           /\ latest' = <<[view |-> v, primary |-> Primary(key), choice |-> choice]>>
           /\ kept' = IF broken THEN kept
                      ELSE With(kept, key, {choice.node} \cup
                                     (IF key \in DOMAIN kept THEN kept[key] ELSE {}))
  BY DEF Route
<1>3. PICK family, key, choice :
         /\ family = IF router = "S4" THEN FamilyFor(Linkable(blocks)) ELSE 0
         /\ key = IF router = "S4" THEN family ELSE blocks[Min({AnchorDepth, Len(blocks)})]
         /\ choice = Chosen(v, Primary(key))
         /\ homes' = HomeAfter(key, choice.node, Broken(v, Primary(key)))
         /\ IF router = "S4"
              THEN /\ sizes' = Joined(family)
                   /\ families' = Registered(Linkable(blocks), family)
                   /\ linked' = Learn(linked, Linkable(blocks), Len(routed) + 1)
              ELSE UNCHANGED <<sizes, families, linked>>
         /\ reuse' = Reused(blocks, gap + (IF routed = <<>> THEN 0 ELSE Last(routed).at))
         /\ tracked' = Learn(tracked, blocks, Len(routed) + 1)
         /\ routed' = Append(routed,
                [blocks |-> blocks, at |-> gap + (IF routed = <<>> THEN 0 ELSE Last(routed).at),
                 family |-> family])
         /\ latest' = <<[view |-> v, primary |-> Primary(key), choice |-> choice]>>
         /\ kept' = IF Broken(v, Primary(key)) THEN kept
                      ELSE With(kept, key, {choice.node} \cup
                                     (IF key \in DOMAIN kept THEN kept[key] ELSE {}))
  BY <1>2, ZenonT(40)
<1>4. PICK broken, at : /\ broken = Broken(v, Primary(key))
                         /\ at = gap + (IF routed = <<>> THEN 0 ELSE Last(routed).at)
  OBVIOUS
<1>5. /\ broken = Broken(v, Primary(key))
       /\ at = gap + (IF routed = <<>> THEN 0 ELSE Last(routed).at)
       /\ homes' = HomeAfter(key, choice.node, broken)
       /\ IF router = "S4"
           THEN /\ sizes' = Joined(family)
                /\ families' = Registered(Linkable(blocks), family)
                /\ linked' = Learn(linked, Linkable(blocks), Len(routed) + 1)
           ELSE UNCHANGED <<sizes, families, linked>>
       /\ reuse' = Reused(blocks, at)
       /\ tracked' = Learn(tracked, blocks, Len(routed) + 1)
       /\ routed' = Append(routed, [blocks |-> blocks, at |-> at, family |-> family])
       /\ latest' = <<[view |-> v, primary |-> Primary(key), choice |-> choice]>>
       /\ kept' = IF broken THEN kept
                   ELSE With(kept, key, {choice.node} \cup
                                  (IF key \in DOMAIN kept THEN kept[key] ELSE {}))
  BY <1>3, <1>4
<1>6. router' = router
  BY DEF Route
<1>7. at \in Int
  <2>1. gap \in Int
    BY SelectionAssumption
  <2>2. CASE routed = <<>>
    BY <1>3, <1>5, <2>1, <2>2
  <2>3. CASE routed # <<>>
    <3>1. routed[Len(routed)] \in RoutedEntry
      BY <1>1, <2>3
    <3>2. Last(routed).at \in Int
      BY <3>1 DEF Last, RoutedEntry
    <3> QED  BY <1>3, <1>5, <2>1, <2>3, <3>2
  <2> QED  BY <2>2, <2>3
<1>8. PICK k \in Nat : k = Len(sizes) /\ k <= n /\ sizes \in Seq(Nat)
  BY <1>1 DEF SelectInv, KeyInv
<1>9. router = "S4" => family \in 1..(k + 1)
  BY <1>3, <1>5, <1>8, FamilyForIs DEF SelectInv
<1>10. family \in Nat
  BY <1>3, <1>5, <1>8, <1>9
<1>11. PICK r : r = [blocks |-> blocks, at |-> at, family |-> family]
  OBVIOUS
<1>12. r \in RoutedEntry /\ r.blocks = blocks /\ r.at = at /\ r.family = family
  BY <1>3, <1>5, <1>7, <1>10, <1>11 DEF RoutedEntry
<1>13. routed' = Append(routed, r)
  BY <1>3, <1>5, <1>11
<1>14. HotInv'
  <2>1. linked' = IF router = "S4" THEN Learn(linked, Linkable(r.blocks), Len(routed) + 1) ELSE linked
    BY <1>3, <1>5, <1>12
  <2>2. tracked' = Learn(tracked, r.blocks, Len(routed) + 1) /\ reuse' = Reused(r.blocks, r.at)
    BY <1>3, <1>5, <1>12
  <2> QED  BY <1>6, <1>12, <1>13, <2>1, <2>2, HotKeeps DEF SelectInv
<1>15. LinkInv'
  <2>1. CASE router = "S4"
    <3>1. family = FamilyFor(Linkable(r.blocks)) /\ sizes' = Joined(family)
          /\ families' = Registered(Linkable(r.blocks), family)
      BY <1>3, <1>5, <1>12, <2>1
    <3> QED  BY <1>12, <1>13, <3>1, LinksKeep DEF SelectInv
  <2>2. CASE router # "S4"
    <3>1. family = 0 /\ sizes' = sizes /\ families' = families
      BY <1>3, <1>5, <2>2
    <3> QED  BY <1>12, <1>13, <3>1, LinksKeep DEF SelectInv
  <2> QED  BY <2>1, <2>2
<1>16. key \in RoutedKey
  <2>1. RoutedRequests \in Nat
    BY SelectionAssumption
  <2>2. CASE router = "S4"
    <3>1. key = family
      BY <1>3, <1>5, <2>2
    <3>2. k + 1 <= RoutedRequests
      BY <1>1, <1>8, <2>1
    <3>3. 1..(k + 1) \subseteq 1..RoutedRequests
      BY <2>1, <3>2
    <3>4. key \in 1..RoutedRequests
      BY <1>9, <2>2, <3>1, <3>3
    <3>5. PICK asked : RoutedKey = asked \cup 1..RoutedRequests
      BY DEF RoutedKey
    <3> QED  BY <3>4, <3>5
  <2>3. CASE router # "S4"
    <3>1. PICK m \in Nat \ {0} : m = Len(blocks) /\ DOMAIN blocks = 1..m
      BY PromptIs
    <3>2. AnchorDepth \in Nat \ {0}
      BY SelectionAssumption
    <3>3. PICK d : d = Min({AnchorDepth, m})
      OBVIOUS
    <3>4. d \in {AnchorDepth, m} /\ d <= m
      <4>1. AnchorDepth \in Int /\ m \in Int
        BY <3>2
      <4> QED  BY <3>3, <4>1, MinOfTwo
    <3>5. d \in DOMAIN blocks
      BY <3>1, <3>2, <3>4
    <3>6. key = blocks[d]
      BY <1>3, <1>5, <2>3, <3>1, <3>3
    <3>7. key \in ToSet(blocks)
      BY <3>5, <3>6 DEF ToSet
    <3>8. ToSet(blocks) \in {ToSet(q) : q \in RoutedPrompt}
      OBVIOUS
    <3> QED  BY <3>7, <3>8 DEF RoutedKey
  <2> QED  BY <2>2, <2>3
<1>17. KeyInv'
  <2>1. broken \in BOOLEAN
    BY <1>3, <1>5 DEF Broken
  <2>2. /\ \A x \in DOMAIN homes' : homes'[x] \in SNode
        /\ \A x \in DOMAIN kept' : kept'[x] = {Primary(x)'}
        /\ FallbackSparesLoad'
    BY <1>3, <1>5, <1>16, <2>1, KeysKeep DEF SelectInv
  <2>3. Len(routed') = n + 1
    BY <1>1, <1>13
  <2>4. RoutedRequests \in Nat
    BY SelectionAssumption
  <2>5. sizes' \in Seq(Nat) /\ Len(sizes') <= n + 1
    <3>1. CASE router = "S4"
      <4>1. family \in 1..(Len(sizes) + 1) /\ sizes' = Joined(family)
        BY <1>3, <1>5, <1>8, <1>9, <3>1
      <4>2. sizes' \in Seq(Nat)
        BY <1>8, <4>1, JoinedIs
      <4>3. Len(sizes') <= k + 1
        <5>1. CASE family > Len(sizes)
          <6>1. sizes' = Append(sizes, 1)
            BY <4>1, <5>1 DEF Joined
          <6>2. 1 \in Nat
            OBVIOUS
          <6>3. Len(Append(sizes, 1)) = k + 1
            BY <1>8, <6>2
          <6> QED  BY <1>8, <6>1, <6>3
        <5>2. CASE ~(family > Len(sizes))
          <6>1. sizes' = [sizes EXCEPT ![family] = sizes[family] + 1]
            BY <4>1, <5>2 DEF Joined
          <6>2. DOMAIN sizes' = DOMAIN sizes
            BY <6>1
          <6>3. Len(sizes') = Len(sizes)
            BY <1>8, <4>2, <6>2
          <6> QED  BY <1>8, <6>3
        <5> QED  BY <5>1, <5>2
      <4> QED  BY <1>1, <1>8, <4>2, <4>3
    <3>2. CASE router # "S4"
      <4>1. sizes' = sizes
        BY <1>3, <1>5, <3>2
      <4> QED  BY <1>1, <1>8, <4>1
    <3> QED  BY <3>1, <3>2
  <2> QED  BY <1>1, <2>2, <2>3, <2>4, <2>5 DEF KeyInv
<1> QED  BY <1>14, <1>15, <1>17 DEF SelectInv

\* A trace of no requests.
LEMMA NothingRouted == ASSUME SelectionInit PROVE SelectInv
<1>1. /\ routed = <<>> /\ families = <<>> /\ sizes = <<>> /\ homes = <<>> /\ latest = <<>> /\ kept = <<>>
      /\ linked = Cold /\ tracked = Cold /\ reuse = [denominator |-> 0, within |-> 0]
  BY DEF SelectionInit
<1>2. DOMAIN <<>> = {} /\ Len(<<>>) = 0 /\ <<>> \in Seq(RoutedEntry) /\ <<>> \in Seq(Nat)
  OBVIOUS
<1>3. Cold = HotOf(CountsOf(routed, 0), ThresholdOf(routed, 0))
  <2>1. BlocksOf(routed, 0) = {}
    BY DEF BlocksOf
  <2>2. CountsOf(routed, 0) = <<>>
    BY <2>1 DEF CountsOf
  <2>3. Histogram(<<>>) = EmptyBag
    <3>1. {<<>>[b] : b \in DOMAIN <<>>} = {}
      BY <1>2
    <3> QED  BY <3>1 DEF Histogram, EmptyBag, SetToBag
  <2>4. ThresholdOf(routed, 0) = HotFloor
    BY LastRefreshIs DEF ThresholdOf
  <2> QED  BY <2>2, <2>3, <2>4 DEF Cold, HotOf
<1>4. ColdOf(routed) = {} /\ CloseOf(routed) = {}
  BY <1>1, <1>2 DEF ColdOf, CloseOf
<1>5. HotInv
  <2>1. IsFiniteSet({}) /\ Cardinality({}) = 0
    BY FS_EmptySet
  <2> QED  BY <1>1, <1>2, <1>3, <1>4, <2>1 DEF HotInv
<1>6. LinkInv
  BY <1>1, <1>2 DEF LinkInv, Rootings
<1>7. KeyInv
  <2>1. RoutedRequests \in Nat
    BY SelectionAssumption
  <2> QED  BY <1>1, <1>2, <2>1 DEF KeyInv, FallbackSparesLoad
<1> QED  BY <1>5, <1>6, <1>7 DEF SelectInv

\* The trackers hold what the trace says, families are true to their root, and
\* keys to their home.
THEOREM SelectionInvariance == Spec => []SelectInv
<1>1. Init => SelectInv
  BY NothingRouted DEF Init
<1>2. SelectInv /\ [Next]_vars => SelectInv'
  <2>1. SUFFICES ASSUME SelectInv, [Next]_vars PROVE SelectInv'
    OBVIOUS
  <2>2. CASE Route
    BY <2>1, <2>2, RouteKeeps
  <2>3. CASE UNCHANGED selectionVars
    <3>1. HotInv'
      BY <2>1, <2>3 DEF SelectInv, HotInv, selectionVars
    <3>2. LinkInv'
      BY <2>1, <2>3 DEF SelectInv, LinkInv, selectionVars
    <3>3. KeyInv'
      BY <2>1, <2>3 DEF SelectInv, KeyInv, FallbackSparesLoad, Primary, selectionVars
    <3> QED  BY <3>1, <3>2, <3>3 DEF SelectInv
  <2> QED  BY <2>1, <2>2, <2>3 DEF Next, Select, Kvs, Lease, Life, Size, Place, Over, vars
<1> QED  BY <1>1, <1>2, PTL DEF Spec

\* For any nodes, loads, prompts, thresholds and owners of keys: the analysis finds
\* the blocks hot that S4 finds hot, conversations share their root within the cap,
\* a key has one home, and a fallback spares load (affinity.py 53-167,
\* selectors.py 99-158, reuse_time.py 53-84).
THEOREM AffinityHolds == Spec => []AffinityIsSound
<1>1. SelectInv => AffinityIsSound
  BY HotIsShared, LinksShareTheirRoot, HomesStay DEF SelectInv, KeyInv, AffinityIsSound
<1> QED  BY <1>1, SelectionInvariance, PTL

-----------------------------------------------------------------------------
\* The sizing study.  Fractions are compared crosswise, as numbers are.
LEMMA FactorGoes ==
    ASSUME NEW a \in Nat, NEW b \in Nat, NEW c \in Nat \ {0}, a * c <= b * c
    PROVE  a <= b
<1>1. SUFFICES ASSUME b + 1 <= a PROVE FALSE
  OBVIOUS
<1>2. PICK d \in Nat : a = b + 1 + d
  <2>1. a - (b + 1) \in Nat /\ a = b + 1 + (a - (b + 1))
    BY <1>1
  <2> QED  BY <2>1
<1>3. a * c = b * c + c + d * c /\ d * c \in Nat /\ b * c \in Nat
  BY <1>2
<1> QED  BY <1>3

LEMMA ProductGrows ==
    ASSUME NEW a \in Nat, NEW b \in Nat, NEW c \in Nat, a <= b
    PROVE  a * c <= b * c
<1>1. PICK d \in Nat : b = a + d
  <2>1. b - a \in Nat /\ b = a + (b - a)
    OBVIOUS
  <2> QED  BY <2>1
<1>2. b * c = a * c + d * c /\ d * c \in Nat /\ a * c \in Nat
  BY <1>1
<1> QED  BY <1>2

\* Not to be below is transitive.
LEMMA NotBelowTransits ==
    ASSUME NEW x \in Fraction, NEW y \in Fraction, NEW z \in Fraction,
           ~Below(y, x), ~Below(z, y)
    PROVE  ~Below(z, x)
<1>1. PICK a \in Nat, b \in Nat \ {0} : x = <<a, b>>
  BY DEF Fraction
<1>2. PICK c \in Nat, d \in Nat \ {0} : y = <<c, d>>
  BY DEF Fraction
<1>3. PICK e \in Nat, f \in Nat \ {0} : z = <<e, f>>
  BY DEF Fraction
<1>4. a * d \in Nat /\ c * b \in Nat /\ c * f \in Nat /\ e * d \in Nat /\ a * f \in Nat /\ e * b \in Nat
  OBVIOUS
<1>5. a * d <= c * b /\ c * f <= e * d
  BY <1>1, <1>2, <1>3, <1>4 DEF Below
<1>6. (a * d) * f <= (c * b) * f /\ (c * f) * b <= (e * d) * b
  BY <1>4, <1>5, ProductGrows
<1>7. (a * d) * f = (a * f) * d /\ (c * b) * f = (c * f) * b /\ (e * d) * b = (e * b) * d
  OBVIOUS
<1>8. (a * f) * d <= (e * b) * d
  BY <1>4, <1>6, <1>7
<1>9. a * f <= e * b
  BY <1>4, <1>8, FactorGoes
<1> QED  BY <1>1, <1>3, <1>4, <1>9 DEF Below

LEMMA BelowIsBoolean ==
    ASSUME NEW x \in Fraction, NEW y \in Fraction
    PROVE  Below(x, y) => ~Below(y, x)
<1>1. PICK a \in Nat, b \in Nat \ {0} : x = <<a, b>>
  BY DEF Fraction
<1>2. PICK c \in Nat, d \in Nat \ {0} : y = <<c, d>>
  BY DEF Fraction
<1>3. a * d \in Nat /\ c * b \in Nat
  OBVIOUS
<1> QED  BY <1>1, <1>2, <1>3 DEF Below

\* Some fraction is the least of finitely many.
LEMMA LeastFraction ==
    ASSUME NEW S, IsFiniteSet(S), S # {}, S \subseteq Fraction
    PROVE  \E x \in S : \A y \in S : ~Below(y, x)
<1> DEFINE Least(u, x) == \A y \in u : ~Below(y, x)
           T == {u \in SUBSET S : u # {} => \E x \in u : Least(u, x)}
<1>1. {} \in T
  OBVIOUS
<1>2. ASSUME NEW u, NEW x, u \in T, x \in S, x \notin u PROVE u \cup {x} \in T
  <2>1. u \subseteq S /\ x \in Fraction /\ ~Below(x, x) /\ u \cup {x} \in SUBSET S
    BY <1>2, BelowIsBoolean
  <2>2. CASE u = {}
    BY <2>1, <2>2
  <2>3. CASE u # {}
    <3>1. PICK y \in u : Least(u, y)
      BY <1>2, <2>3
    <3>2. y \in Fraction
      BY <2>1, <3>1
    <3>3. CASE Below(x, y)
      <4>1. ~Below(y, x)
        BY <2>1, <3>2, <3>3, BelowIsBoolean
      <4>2. \A z \in u : ~Below(z, x)
        BY <2>1, <3>1, <3>2, <4>1, NotBelowTransits
      <4>3. Least(u \cup {x}, x)
        BY <2>1, <4>2
      <4> QED  BY <2>1, <4>3
    <3>4. CASE ~Below(x, y)
      <4>1. Least(u \cup {x}, y)
        BY <3>1, <3>4
      <4> QED  BY <2>1, <4>1
    <3> QED  BY <3>3, <3>4
  <2> QED  BY <2>2, <2>3
<1> HIDE DEF Least
<1>3. T \in SUBSET SUBSET S
  OBVIOUS
<1>4. T = SUBSET S
  <2> HIDE DEF T
  <2>1. \A u, x : u \in T /\ x \in S /\ x \notin u => u \cup {x} \in T
    BY <1>2
  <2> QED  BY <1>1, <1>3, <2>1, ElementInduction
<1>5. \E x \in S : Least(S, x)
  BY <1>4
<1> QED  BY <1>5 DEF Least

\* The share of the tier that is served worst is a fraction.
LEMMA TierIs == ASSUME NEW served PROVE MinimumTier(served) \in Fraction
<1>1. PICK n \in Nat : n = Len(Workload) /\ n # 0 /\ Requests = 1..n /\ IsFiniteSet(Requests)
  BY SizingAssumption, FS_Interval DEF Requests
<1> DEFINE Of(tier) == {r \in Requests : Workload[r].tier = tier}
           share(tier) == <<Cardinality(Of(tier) \cap served), Cardinality(Of(tier))>>
           shares == {share(tier) : tier \in Tiers}
<1>2. ASSUME NEW tier \in Tiers PROVE share(tier) \in Fraction
  <2>1. IsFiniteSet(Of(tier)) /\ IsFiniteSet(Of(tier) \cap served) /\ Of(tier) # {}
    BY <1>1, FS_Subset DEF Tiers
  <2>2. Cardinality(Of(tier)) \in Nat \ {0} /\ Cardinality(Of(tier) \cap served) \in Nat
    <3> HIDE DEF Of
    <3> QED  BY <2>1, FS_CardinalityType, FS_EmptySet
  <2> QED  BY <2>2 DEF Fraction
<1>3. IsFiniteSet(Tiers) /\ Tiers # {}
  <2> DEFINE tierOf == [r \in Requests |-> Workload[r].tier]
  <2>1. Tiers = {tierOf[r] : r \in Requests} /\ 1 \in Requests
    BY <1>1 DEF Tiers
  <2> HIDE DEF tierOf
  <2>2. IsFiniteSet({tierOf[r] : r \in Requests})
    BY <1>1, ImageIsFinite
  <2> QED  BY <2>1, <2>2
<1>4. IsFiniteSet(shares) /\ shares # {} /\ shares \subseteq Fraction
  <2> DEFINE shareOf == [tier \in Tiers |-> share(tier)]
  <2>1. shares = {shareOf[tier] : tier \in Tiers}
    OBVIOUS
  <2>2. IsFiniteSet(shares)
    <3> HIDE DEF shares, shareOf
    <3> QED  BY <1>3, <2>1, ImageIsFinite
  <2> QED  BY <1>2, <1>3, <2>2
<1>5. MinimumTier(served) = CHOOSE x \in shares : \A y \in shares : ~Below(y, x)
  BY DEF MinimumTier
<1> HIDE DEF shares
<1>6. (CHOOSE x \in shares : \A y \in shares : ~Below(y, x)) \in shares
  BY <1>4, LeastFraction
<1> QED  BY <1>4, <1>5, <1>6

\* At the deadlines as they are, the ledger names the requests that were in time.
LEMMA OnTimeIs ==
    ASSUME NEW attempts,
           \A a \in attempts :
               a.request \in Requests /\ (a.terminal = "COMPLETED" => a.finish \in Int)
    PROVE  OnTime(Ledger(attempts), 4) = StrictWinners(attempts)
<1>1. ASSUME NEW a \in attempts, Completed(a)
      PROVE  Elapsed(a) \in Int /\ TierSlo[Workload[a.request].tier] \in Int
  <2>1. a.finish \in Int /\ a.request \in Requests
    BY <1>1 DEF Completed
  <2>2. PICK r \in Requests : r = a.request
    BY <2>1
  <2>3. Workload[r].arrival \in Int
    <3> DEFINE R == [tenant : STRING, tier : STRING, arrival : Int, tokens : Nat]
    <3>1. Workload \in Seq(R) /\ \A x \in R : x.arrival \in Int
      BY SizingAssumption
    <3> HIDE DEF R
    <3>2. Workload[r] \in R
      BY <2>2, <3>1 DEF Requests
    <3> QED  BY <3>1, <3>2
  <2>4. Workload[r].tier \in Tiers
    BY DEF Tiers
  <2>5. Elapsed(a) \in Int
    BY <2>1, <2>2, <2>3 DEF Elapsed
  <2> QED  BY <2>2, <2>4, <2>5, SizingAssumption
<1>2. ASSUME NEW r \in Requests
      PROVE  r \in OnTime(Ledger(attempts), 4)
                 <=> \E a \in attempts : a.request = r /\ Completed(a)
                        /\ 4 * Elapsed(a) <= TierSlo[Workload[r].tier] * 4
  BY DEF OnTime, Ledger
<1>3. ASSUME NEW r \in Requests, NEW a \in attempts, a.request = r, Completed(a)
      PROVE  4 * Elapsed(a) <= TierSlo[Workload[r].tier] * 4 <=> StrictMet(a)
  BY <1>1, <1>3 DEF StrictMet
<1>4. ASSUME NEW r \in Requests
      PROVE  r \in OnTime(Ledger(attempts), 4) <=> r \in StrictWinners(attempts)
  BY <1>2, <1>3, <1>4 DEF StrictWinners, StrictMet
<1>5. OnTime(Ledger(attempts), 4) \subseteq Requests /\ StrictWinners(attempts) \subseteq Requests
  BY DEF OnTime, StrictWinners
<1> QED  BY <1>4, <1>5

\* The topologies and their ranks.
LEMMA RankIs ==
    /\ ToSet(Topologies) = {"LOCAL_ONLY", "SHARED_KVS", "ZERO_TRANSFER_PRICE_CONTROL"}
    /\ \A t \in ToSet(Topologies) : Rank(t) \in 1..3 /\ Topologies[Rank(t)] = t
<1>1. DOMAIN Topologies = 1..3 /\ 1..3 = {1, 2, 3}
  BY DEF Topologies
<1>2. /\ Topologies[1] = "LOCAL_ONLY" /\ Topologies[2] = "SHARED_KVS"
      /\ Topologies[3] = "ZERO_TRANSFER_PRICE_CONTROL"
  BY DEF Topologies
<1>3. ToSet(Topologies) = {Topologies[1], Topologies[2], Topologies[3]}
  BY <1>1 DEF ToSet
<1>4. ASSUME NEW t \in ToSet(Topologies) PROVE Rank(t) \in 1..3 /\ Topologies[Rank(t)] = t
  <2>1. \E k \in DOMAIN Topologies : Topologies[k] = t
    BY <1>1, <1>3
  <2>2. Rank(t) \in DOMAIN Topologies /\ Topologies[Rank(t)] = t
    BY <2>1 DEF Rank
  <2> QED  BY <1>1, <2>2
<1> QED  BY <1>2, <1>3, <1>4

\* The cells that are planned and the cells that ran.
PlanCell == [topology : ToSet(Topologies), p : Nat \ {0}]
RanCell == UNION {{Measured(c, run) : run \in CellRuns[c.topology]} : c \in PlanCell}
Same(a, b) == a.topology = b.topology /\ a.p = b.p
Different(s) == \A i, j \in DOMAIN s : Same(s[i], s[j]) => i = j
Grid(s) == s \in Seq(RanCell) /\ Different(s)

\* A cell has a fraction for its tiers, and the unscaled deadlines change nothing of it.
LEMMA RanIs ==
    ASSUME NEW c \in RanCell
    PROVE  /\ c.topology \in ToSet(Topologies) /\ c.p \in Nat \ {0}
           /\ c.observation.tier \in Fraction
           /\ Rescaled(c, 4) = c
<1>1. PICK planned \in PlanCell : \E run \in CellRuns[planned.topology] : c = Measured(planned, run)
  BY DEF RanCell
<1>2. PICK run \in CellRuns[planned.topology] : c = Measured(planned, run)
  BY <1>1
<1>3. planned.topology \in ToSet(Topologies) /\ planned.p \in Nat \ {0}
  BY DEF PlanCell
<1>4. c.topology = planned.topology /\ c.p = planned.p
  BY <1>2 DEF Measured
<1>5. c.observation.tier = MinimumTier(StrictWinners(run.attempts))
  BY <1>2 DEF Measured
<1>6. OnTime(c.ledger, 4) = StrictWinners(run.attempts)
  <2>1. c.ledger = Ledger(run.attempts)
    BY <1>2 DEF Measured
  <2>2. \A a \in run.attempts :
            a.request \in Requests /\ (a.terminal = "COMPLETED" => a.finish \in Int)
    BY <1>3, SizingAssumption
  <2> QED  BY <2>1, <2>2, OnTimeIs
<1>7. Rescaled(c, 4) = c
  <2>1. c.observation.fairness = Jain(StrictWinners(run.attempts))
    BY <1>2 DEF Measured
  <2>2. Rescaled(c, 4) = [c EXCEPT !.observation.tier     = c.observation.tier,
                                   !.observation.fairness = c.observation.fairness]
    BY <1>5, <1>6, <2>1 DEF Rescaled
  <2>3. c = [topology |-> c.topology, p |-> c.p, observation |-> c.observation, ledger |-> c.ledger]
    BY <1>2 DEF Measured
  <2>4. c.observation = [completion |-> c.observation.completion, tier |-> c.observation.tier,
            fairness |-> c.observation.fairness, queue |-> c.observation.queue,
            kvs |-> c.observation.kvs]
    BY <1>2 DEF Measured
  <2>5. [c.observation EXCEPT !.tier = c.observation.tier,
                              !.fairness = c.observation.fairness] = c.observation
    BY <2>4
  <2> QED  BY <2>2, <2>3, <2>4, <2>5
<1> QED  BY <1>3, <1>4, <1>5, <1>7, TierIs

\* The first of some cells is one of them, and none of them is ahead of it.
LEMMA FirstIs ==
    ASSUME NEW run \in Seq(RanCell), NEW some \in SUBSET (DOMAIN run), some # {}
    PROVE  FirstInOrder(run, some) \in some /\ \A j \in some : ~Ahead(run[j], run[FirstInOrder(run, some)])
<1>1. IsFiniteSet(some)
  <2>1. PICK n \in Nat : DOMAIN run = 1..n
    OBVIOUS
  <2>2. IsFiniteSet(1..n)
    BY FS_Interval
  <2> QED  BY <2>1, <2>2, FS_Subset
<1>2. ASSUME NEW i \in some
      PROVE  /\ run[i].p \in Int /\ run[i].topology \in ToSet(Topologies)
             /\ Rank(run[i].topology) \in Int
  <2>1. run[i] \in RanCell
    OBVIOUS
  <2>2. run[i].p \in Int /\ run[i].topology \in ToSet(Topologies)
    BY <2>1, RanIs
  <2>3. Rank(run[i].topology) \in 1..3
    BY <2>2, RankIs
  <2> QED  BY <2>2, <2>3
<1> DEFINE pOf == [i \in some |-> run[i].p]
           rankOf == [i \in some |-> Rank(run[i].topology)]
<1>3. PICK p0 \in {pOf[i] : i \in some} : \A q \in {pOf[i] : i \in some} : p0 <= q
  <2>1. {pOf[i] : i \in some} # {} /\ {pOf[i] : i \in some} \subseteq Int
    BY <1>2
  <2> HIDE DEF pOf
  <2>2. IsFiniteSet({pOf[i] : i \in some})
    BY <1>1, ImageIsFinite
  <2> DEFINE P == {pOf[i] : i \in some}
  <2>3. IsFiniteSet(P) /\ P # {} /\ P \subseteq Int
    BY <2>1, <2>2
  <2> HIDE DEF P
  <2>4. \E m \in P : \A n \in P : m <= n
    BY <2>3, LeastExists
  <2> QED  BY <2>4 DEF P
<1> DEFINE lows == {i \in some : pOf[i] = p0}
<1>4. IsFiniteSet(lows) /\ lows # {}
  BY <1>1, <1>3, FS_Subset
<1>5. PICK r0 \in {rankOf[i] : i \in lows} : \A q \in {rankOf[i] : i \in lows} : r0 <= q
  <2>1. {rankOf[i] : i \in lows} # {} /\ {rankOf[i] : i \in lows} \subseteq Int
    BY <1>2, <1>4
  <2> HIDE DEF rankOf, lows
  <2>2. IsFiniteSet({rankOf[i] : i \in lows})
    BY <1>4, ImageIsFinite
  <2> DEFINE P == {rankOf[i] : i \in lows}
  <2>3. IsFiniteSet(P) /\ P # {} /\ P \subseteq Int
    BY <2>1, <2>2
  <2> HIDE DEF P
  <2>4. \E m \in P : \A n \in P : m <= n
    BY <2>3, LeastExists
  <2> QED  BY <2>4 DEF P
<1>6. PICK i \in lows : rankOf[i] = r0
  BY <1>5
<1>7. ASSUME NEW j \in some PROVE ~Ahead(run[j], run[i])
  <2>1. i \in some /\ run[i].p = p0 /\ p0 <= run[j].p
    BY <1>3, <1>6
  <2>2. run[j].p = p0 => Rank(run[i].topology) <= Rank(run[j].topology)
    BY <1>5, <1>6
  <2> QED  BY <1>2, <2>1, <2>2 DEF Ahead
<1>8. \E k \in some : \A j \in some : ~Ahead(run[j], run[k])
  BY <1>6, <1>7
<1> QED  BY <1>8 DEF FirstInOrder

\* The places that select_minimum looks at.
CandidatesOf(run, required) == {i \in DOMAIN run : run[i].topology \in required}
FeasibleOf(run, gates, required) ==
    {i \in CandidatesOf(run, required) : Feasible(run[i], gates)}
WinnerOf(run, gates, required) == run[FirstInOrder(run, FeasibleOf(run, gates, required))]
OneLess(run, gates, required) ==
    {i \in CandidatesOf(run, required) : run[i].p = WinnerOf(run, gates, required).p - 1}
Withheld(run, gates, required) ==
    \/ {run[i].topology : i \in CandidatesOf(run, required)} # required
    \/ FeasibleOf(run, gates, required) = {}
    \/ /\ WinnerOf(run, gates, required).p > 1
       /\ \/ Cardinality(OneLess(run, gates, required)) # Cardinality(required)
          \/ OneLess(run, gates, required) \cap FeasibleOf(run, gates, required) # {}

LEMMA MinimumIs ==
    ASSUME NEW run, NEW gates, NEW required
    PROVE  SelectMinimum(run, gates, required) =
             IF Withheld(run, gates, required) THEN NoMinimum
             ELSE [p |-> WinnerOf(run, gates, required).p,
                   topology |-> WinnerOf(run, gates, required).topology,
                   certificates |->
                       {Certificate(run[i], gates) : i \in OneLess(run, gates, required)}]
BY DEF SelectMinimum, Withheld, OneLess, WinnerOf, FeasibleOf, CandidatesOf

\* A winner is a feasible cell that no feasible cell is ahead of.
LEMMA WinnerIs ==
    ASSUME NEW run \in Seq(RanCell), NEW gates, NEW required,
           FeasibleOf(run, gates, required) # {}
    PROVE  \E k \in FeasibleOf(run, gates, required) :
               /\ WinnerOf(run, gates, required) = run[k]
               /\ \A j \in FeasibleOf(run, gates, required) : ~Ahead(run[j], run[k])
<1>1. FeasibleOf(run, gates, required) \in SUBSET (DOMAIN run)
  BY DEF FeasibleOf, CandidatesOf
<1> QED  BY <1>1, FirstIs DEF WinnerOf

\* A minimum is a number of nodes when there is one.
LEMMA MinimumP ==
    ASSUME NEW run \in Seq(RanCell), NEW gates, NEW required
    PROVE  LET m == SelectMinimum(run, gates, required)
           IN  /\ m.p \in Nat
               /\ m.p = 0 <=> Withheld(run, gates, required)
               /\ m.p # 0 => \E k \in FeasibleOf(run, gates, required) :
                     /\ m.p = run[k].p
                     /\ \A j \in FeasibleOf(run, gates, required) : run[k].p <= run[j].p
<1>1. CASE Withheld(run, gates, required)
  BY <1>1, MinimumIs DEF NoMinimum
<1>2. CASE ~Withheld(run, gates, required)
  <2>1. PICK k \in FeasibleOf(run, gates, required) :
            /\ WinnerOf(run, gates, required) = run[k]
            /\ \A j \in FeasibleOf(run, gates, required) : ~Ahead(run[j], run[k])
    BY <1>2, WinnerIs DEF Withheld
  <2>2. \A j \in FeasibleOf(run, gates, required) : run[j].p \in Nat \ {0}
    BY RanIs DEF FeasibleOf, CandidatesOf
  <2>3. SelectMinimum(run, gates, required).p = run[k].p
    BY <1>2, <2>1, MinimumIs
  <2>4. \A j \in FeasibleOf(run, gates, required) : run[k].p <= run[j].p
    BY <2>1, <2>2 DEF Ahead
  <2> QED  BY <1>2, <2>2, <2>3, <2>4
<1> QED  BY <1>1, <1>2

LEMMA TwoOf == ASSUME NEW a, NEW b, a # b PROVE Cardinality({a, b}) = 2
<1>1. IsFiniteSet({a}) /\ Cardinality({a}) = 1
  BY FS_Singleton
<1>2. Cardinality({a} \cup {b}) = 2
  BY <1>1, FS_AddElement
<1>3. {a} \cup {b} = {a, b}
  OBVIOUS
<1> QED  BY <1>2, <1>3

\* Of two topologies there are two cells of one size, or one of them is missing.
LEMMA PairIs ==
    ASSUME NEW run, Grid(run), NEW gates, NEW S, S = OneLess(run, gates, Deployable)
    PROVE  Cardinality(S) = Cardinality(Deployable)
             <=> \A t \in Deployable : \E i \in S : run[i].topology = t
<1>1. \A i, j \in S : run[i].topology = run[j].topology => i = j
  BY DEF OneLess, CandidatesOf, Grid, Different, Same
<1>2. \A i \in S : run[i].topology \in Deployable
  BY DEF OneLess, CandidatesOf
<1>3. Cardinality(Deployable) = 2
  BY TwoOf DEF Deployable
<1>4. ASSUME NEW i \in S, NEW j \in S, run[i].topology = "LOCAL_ONLY", run[j].topology = "SHARED_KVS"
      PROVE  Cardinality(S) = 2
  <2>1. i # j /\ S = {i, j}
    BY <1>1, <1>2, <1>4 DEF Deployable
  <2>2. Cardinality({i, j}) = 2
    BY <2>1, TwoOf
  <2> QED  BY <2>1, <2>2
<1>5. ASSUME NEW t \in Deployable, \A i \in S : run[i].topology # t
      PROVE  Cardinality(S) # 2
  <2>1. CASE S = {}
    BY <2>1, FS_EmptySet
  <2>2. CASE S # {}
    <3>1. PICK i \in S : TRUE
      BY <2>2
    <3>2. S = {i}
      BY <1>1, <1>2, <1>5 DEF Deployable
    <3>3. Cardinality({i}) = 1
      BY FS_Singleton
    <3>4. Cardinality(S) = 1
      BY <3>2, <3>3
    <3> QED  BY <3>4
  <2> QED  BY <2>1, <2>2
<1> QED  BY <1>3, <1>4, <1>5 DEF Deployable

\* What MinimumIsCertified says of a winner.
Certified(run, winner, gates) ==
    LET ran    == {c \in ToSet(run) : c.topology \in Deployable}
        passed == {c \in ran : Feasible(c, gates)}
    IN  IF winner.p = 0
        THEN \/ passed = {} \/ {c.topology : c \in ran} # Deployable
             \/ LET least == Min({c.p : c \in passed})
                IN  least > 1 /\ \E t \in Deployable :
                        ~\E c \in ran : c.topology = t /\ c.p = least - 1
        ELSE /\ \E c \in passed : c.p = winner.p /\ c.topology = winner.topology
             /\ \A c \in passed :
                    \/ c.p > winner.p
                    \/ c.p = winner.p /\ Rank(winner.topology) <= Rank(c.topology)
             /\ winner.p > 1 =>
                    /\ {c.topology : c \in winner.certificates} = Deployable
                    /\ \A c \in winner.certificates : c.p = winner.p - 1 /\ c.failed # {}

LEMMA MinimumCertified ==
    ASSUME NEW run, Grid(run), NEW gates
    PROVE  Certified(run, SelectMinimum(run, gates, Deployable), gates)
<1> DEFINE winner == SelectMinimum(run, gates, Deployable)
           candidates == CandidatesOf(run, Deployable)
           feasible == FeasibleOf(run, gates, Deployable)
           w == WinnerOf(run, gates, Deployable)
           before == OneLess(run, gates, Deployable)
           ran    == {c \in ToSet(run) : c.topology \in Deployable}
           passed == {c \in ran : Feasible(c, gates)}
<1>1. /\ run \in Seq(RanCell)
      /\ ran = {run[i] : i \in candidates} /\ passed = {run[i] : i \in feasible}
  BY DEF ToSet, CandidatesOf, FeasibleOf, Grid
<1>2. \A i \in candidates : /\ run[i].p \in Nat \ {0} /\ run[i].topology \in Deployable
                            /\ run[i].topology \in ToSet(Topologies)
                            /\ Rank(run[i].topology) \in Int
  <2>1. \A t \in ToSet(Topologies) : Rank(t) \in Int
    BY RankIs
  <2> QED  BY <1>1, <2>1, RanIs DEF CandidatesOf
<1>3. feasible \subseteq candidates /\ before \subseteq candidates
  BY DEF FeasibleOf, OneLess
<1>4. {run[i].topology : i \in candidates} = {c.topology : c \in ran}
  BY <1>1
<1>5. ASSUME feasible # {}
      PROVE  \E k \in feasible : /\ w = run[k]
                                 /\ \A j \in feasible : ~Ahead(run[j], run[k])
  BY <1>1, <1>5, WinnerIs
<1>6. Cardinality(before) = Cardinality(Deployable)
        <=> \A t \in Deployable : \E i \in before : run[i].topology = t
  BY PairIs
<1>7. CASE Withheld(run, gates, Deployable)
  <2>1. winner.p = 0
    BY <1>1, <1>7, MinimumP
  <2>2. ASSUME passed # {}, {c.topology : c \in ran} = Deployable
        PROVE  LET least == Min({c.p : c \in passed})
               IN  least > 1 /\ \E t \in Deployable :
                       ~\E c \in ran : c.topology = t /\ c.p = least - 1
    <3>1. feasible # {}
      BY <1>1, <2>2
    <3>2. PICK k \in feasible : w = run[k] /\ \A j \in feasible : ~Ahead(run[j], run[k])
      BY <1>5, <3>1
    <3>3. \A j \in feasible : run[k].p <= run[j].p
      BY <1>2, <1>3, <3>2 DEF Ahead
    <3>4. Min({c.p : c \in passed}) = run[k].p
      <4> DEFINE P == {c.p : c \in passed}
      <4>1. P \subseteq Int /\ run[k].p \in P /\ \A x \in P : run[k].p <= x
        BY <1>1, <1>2, <1>3, <3>3, SMTT(30)
      <4> HIDE DEF P
      <4>2. Min(P) \in P /\ \A x \in P : Min(P) <= x
        BY <4>1 DEF Min
      <4>3. Min(P) <= run[k].p /\ run[k].p <= Min(P) /\ Min(P) \in Int /\ run[k].p \in Int
        BY <4>1, <4>2
      <4>4. Min(P) = run[k].p
        BY <4>3
      <4> QED  BY <4>4 DEF P
    <3>5. w.p > 1 /\ \/ Cardinality(before) # Cardinality(Deployable)
                     \/ before \cap feasible # {}
      BY <1>4, <1>7, <2>2, <3>1 DEF Withheld
    <3>6. before \cap feasible = {}
      <4>1. ASSUME NEW i \in before \cap feasible PROVE FALSE
        <5>1. run[i].p = run[k].p - 1
          BY <3>2, <4>1 DEF OneLess
        <5> QED  BY <1>2, <1>3, <3>3, <4>1, <5>1
      <4> QED  BY <4>1
    <3>7. PICK t \in Deployable : ~\E i \in before : run[i].topology = t
      BY <1>6, <3>5, <3>6
    <3>8. ~\E c \in ran : c.topology = t /\ c.p = run[k].p - 1
      BY <1>1, <3>2, <3>7 DEF OneLess
    <3> QED  BY <3>2, <3>4, <3>5, <3>7, <3>8
  <2> QED  BY <2>1, <2>2 DEF Certified
<1>8. CASE ~Withheld(run, gates, Deployable)
  <2>1. feasible # {}
    BY <1>8 DEF Withheld
  <2>2. PICK k \in feasible : w = run[k] /\ \A j \in feasible : ~Ahead(run[j], run[k])
    BY <1>5, <2>1
  <2>3. /\ winner.p = run[k].p /\ winner.topology = run[k].topology
        /\ winner.certificates = {Certificate(run[i], gates) : i \in before}
    BY <1>8, <2>2, MinimumIs
  <2>4. winner.p # 0
    BY <1>1, <1>8, MinimumP
  <2>5. \E c \in passed : c.p = winner.p /\ c.topology = winner.topology
    BY <1>1, <2>2, <2>3
  <2>6. \A c \in passed : \/ c.p > winner.p
                          \/ c.p = winner.p /\ Rank(winner.topology) <= Rank(c.topology)
    BY <1>1, <1>2, <1>3, <2>2, <2>3 DEF Ahead
  <2>7. ASSUME winner.p > 1
        PROVE  /\ {c.topology : c \in winner.certificates} = Deployable
               /\ \A c \in winner.certificates : c.p = winner.p - 1 /\ c.failed # {}
    <3>1. Cardinality(before) = Cardinality(Deployable) /\ before \cap feasible = {}
      BY <1>8, <2>2, <2>3, <2>7 DEF Withheld
    <3>2. \A i \in before : /\ Certificate(run[i], gates).topology = run[i].topology
                            /\ Certificate(run[i], gates).p = run[i].p
                            /\ Certificate(run[i], gates).failed
                                 = FailedGates(run[i].observation, gates)
      BY DEF Certificate
    <3>3. \A i \in before : FailedGates(run[i].observation, gates) # {}
      BY <1>3, <3>1 DEF FeasibleOf, Feasible
    <3>4. \A i \in before : run[i].p = winner.p - 1
      BY <2>2, <2>3 DEF OneLess
    <3>5. {c.topology : c \in winner.certificates} = Deployable
      BY <1>2, <1>3, <1>6, <2>3, <3>1, <3>2
    <3> QED  BY <2>3, <3>2, <3>3, <3>4, <3>5
  <2> QED  BY <2>4, <2>5, <2>6, <2>7 DEF Certified
<1> QED  BY <1>7, <1>8

\* Under a lower floor at least as many cells pass, so the minimum is no higher.
FloorAt(f) == [BaselineGates EXCEPT !.tier = f]

LEMMA LowerFloorPasses ==
    ASSUME NEW c \in RanCell, NEW f \in Fraction, NEW g \in Fraction, ~Below(g, f),
           Feasible(c, FloorAt(g))
    PROVE  Feasible(c, FloorAt(f))
<1>1. BaselineGates \in Gates
  BY SizingAssumption
<1>2. \A h \in Fraction : /\ FloorAt(h).tier = h
                          /\ FloorAt(h).completion = BaselineGates.completion
                          /\ FloorAt(h).fairness = BaselineGates.fairness
                          /\ FloorAt(h).queue = BaselineGates.queue
                          /\ FloorAt(h).kvs = BaselineGates.kvs
  BY <1>1 DEF FloorAt, Gates
<1> DEFINE o == c.observation
<1>3. \A h \in Fraction :
          Feasible(c, FloorAt(h)) <=> /\ ~Below(o.completion, BaselineGates.completion)
                                      /\ ~Below(o.tier, h)
                                      /\ ~Below(o.fairness, BaselineGates.fairness)
                                      /\ ~(o.queue > BaselineGates.queue)
                                      /\ ~(o.kvs > BaselineGates.kvs)
  <2>1. ASSUME NEW gates, FailedGates(o, gates) = {}
        PROVE  /\ ~Below(o.completion, gates.completion) /\ ~Below(o.tier, gates.tier)
               /\ ~Below(o.fairness, gates.fairness)
               /\ ~(o.queue > gates.queue) /\ ~(o.kvs > gates.kvs)
    <3> HIDE DEF o
    <3> QED  BY <2>1 DEF FailedGates
  <2>2. ASSUME NEW gates,
               ~Below(o.completion, gates.completion), ~Below(o.tier, gates.tier),
               ~Below(o.fairness, gates.fairness),
               ~(o.queue > gates.queue), ~(o.kvs > gates.kvs)
        PROVE  FailedGates(o, gates) = {}
    <3> HIDE DEF o
    <3> QED  BY <2>2 DEF FailedGates
  <2> HIDE DEF o
  <2>3. \A h : Feasible(c, FloorAt(h)) <=> FailedGates(o, FloorAt(h)) = {}
    BY DEF Feasible, o
  <2> QED  BY <1>2, <2>1, <2>2, <2>3
<1>4. o.tier \in Fraction
  BY RanIs
<1>5. ~Below(o.tier, g)
  BY <1>3
<1>6. ~Below(o.tier, f)
  BY <1>4, <1>5, NotBelowTransits
<1> QED  BY <1>3, <1>6

LEMMA MinimaRise ==
    ASSUME NEW run \in Seq(RanCell), NEW t, NEW f \in Fraction, NEW g \in Fraction, ~Below(g, f),
           MinimumOf(run, t, FloorAt(f)) > 0, MinimumOf(run, t, FloorAt(g)) > 0
    PROVE  MinimumOf(run, t, FloorAt(f)) <= MinimumOf(run, t, FloorAt(g))
<1>1. PICK k \in FeasibleOf(run, FloorAt(f), {t}) :
          /\ MinimumOf(run, t, FloorAt(f)) = run[k].p
          /\ \A j \in FeasibleOf(run, FloorAt(f), {t}) : run[k].p <= run[j].p
  <2>1. /\ SelectMinimum(run, FloorAt(f), {t}).p \in Nat
        /\ SelectMinimum(run, FloorAt(f), {t}).p # 0 =>
              \E k \in FeasibleOf(run, FloorAt(f), {t}) :
                 /\ SelectMinimum(run, FloorAt(f), {t}).p = run[k].p
                 /\ \A j \in FeasibleOf(run, FloorAt(f), {t}) : run[k].p <= run[j].p
    BY MinimumP
  <2>2. MinimumOf(run, t, FloorAt(f)) = SelectMinimum(run, FloorAt(f), {t}).p
    BY DEF MinimumOf
  <2>3. SelectMinimum(run, FloorAt(f), {t}).p # 0
    BY <2>1, <2>2
  <2> QED  BY <2>1, <2>2, <2>3
<1>2. PICK j \in FeasibleOf(run, FloorAt(g), {t}) : MinimumOf(run, t, FloorAt(g)) = run[j].p
  BY MinimumP DEF MinimumOf
<1>3. j \in CandidatesOf(run, {t}) /\ Feasible(run[j], FloorAt(g)) /\ run[j] \in RanCell
  BY DEF FeasibleOf, CandidatesOf
<1>4. j \in FeasibleOf(run, FloorAt(f), {t})
  BY <1>3, LowerFloorPasses DEF FeasibleOf
<1> QED  BY <1>1, <1>2, <1>4

\* What PublishVerdicts publishes, and what FrontiersMeetTheVerdict says of it.
VerdictOf(run) == [baseline   |-> TopologyVerdicts(run, BaselineGates),
                   strict     |-> TopologyVerdicts(run, StrictGates),
                   thresholds |-> ThresholdFrontier(run),
                   deadlines  |-> DeadlineFrontier(run)]

LEMMA FrontiersMeet ==
    ASSUME NEW run, Grid(run), verdict = VerdictOf(run)
    PROVE  FrontiersMeetTheVerdict
<1>1. run \in Seq(RanCell)
  BY DEF Grid
<1>2. SUFFICES ASSUME NEW t \in ToSet(Topologies)
      PROVE  LET row == [k \in 1..Len(Floors) |-> verdict.thresholds[k][t]]
                 minimum == verdict.baseline.alone[t].p
             IN  /\ \A k \in 1..Len(Floors) : \A j \in 1..k :
                        row[j] > 0 /\ row[k] > 0 => row[j] <= row[k]
                 /\ \A k \in 1..Len(Floors) :
                        Floors[k] = BaselineGates.tier => row[k] = minimum
                 /\ \A k \in 1..Len(Multipliers) :
                        Multipliers[k] = 4 => verdict.deadlines[k][t] = minimum
  BY DEF FrontiersMeetTheVerdict
<1> DEFINE row == [k \in 1..Len(Floors) |-> verdict.thresholds[k][t]]
           minimum == verdict.baseline.alone[t].p
<1>3. minimum = MinimumOf(run, t, BaselineGates)
  BY DEF VerdictOf, TopologyVerdicts, MinimumOf
<1>4. ASSUME NEW k \in 1..Len(Floors)
      PROVE  row[k] = MinimumOf(run, t, FloorAt(Floors[k])) /\ Floors[k] \in Fraction
  BY SizingAssumption DEF VerdictOf, ThresholdFrontier, FloorAt
<1>5. ASSUME NEW k \in 1..Len(Floors), NEW j \in 1..k, row[j] > 0, row[k] > 0
      PROVE  row[j] <= row[k]
  <2>1. j \in 1..Len(Floors) /\ ~Below(Floors[k], Floors[j])
    BY SizingAssumption
  <2>2. /\ row[j] = MinimumOf(run, t, FloorAt(Floors[j])) /\ Floors[j] \in Fraction
        /\ row[k] = MinimumOf(run, t, FloorAt(Floors[k])) /\ Floors[k] \in Fraction
    BY <1>4, <2>1
  <2> HIDE DEF row
  <2> QED  BY <1>1, <1>5, <2>1, <2>2, MinimaRise
<1>6. ASSUME NEW k \in 1..Len(Floors), Floors[k] = BaselineGates.tier PROVE row[k] = minimum
  <2>1. FloorAt(BaselineGates.tier) = BaselineGates
    BY SizingAssumption DEF FloorAt, Gates
  <2> QED  BY <1>3, <1>4, <1>6, <2>1
<1>7. ASSUME NEW k \in 1..Len(Multipliers), Multipliers[k] = 4
      PROVE  verdict.deadlines[k][t] = minimum
  <2>1. [i \in DOMAIN run |-> Rescaled(run[i], 4)] = run
    BY <1>1, RanIs
  <2>2. verdict.deadlines[k][t]
          = MinimumOf([i \in DOMAIN run |-> Rescaled(run[i], 4)], t, BaselineGates)
    BY <1>7 DEF VerdictOf, DeadlineFrontier
  <2> QED  BY <1>3, <2>1, <2>2
<1> HIDE DEF row, minimum
<1>8. /\ \A k \in 1..Len(Floors) : \A j \in 1..k :
             row[j] > 0 /\ row[k] > 0 => row[j] <= row[k]
      /\ \A k \in 1..Len(Floors) : Floors[k] = BaselineGates.tier => row[k] = minimum
      /\ \A k \in 1..Len(Multipliers) : Multipliers[k] = 4 => verdict.deadlines[k][t] = minimum
  BY <1>5, <1>6, <1>7
<1> QED  BY <1>8 DEF row, minimum

LEMMA VerdictIsCertified ==
    ASSUME Grid(cells), verdict = VerdictOf(cells)
    PROVE  MinimumIsCertified
<1>1. /\ verdict.baseline.winner = SelectMinimum(cells, BaselineGates, Deployable)
      /\ verdict.strict.winner = SelectMinimum(cells, StrictGates, Deployable)
  BY DEF VerdictOf, TopologyVerdicts
<1>2. SUFFICES ASSUME NEW side \in {<<verdict.baseline, BaselineGates>>,
                                    <<verdict.strict, StrictGates>>}
      PROVE  Certified(cells, side[1].winner, side[2])
  BY DEF MinimumIsCertified, Certified
<1>3. side[1].winner = SelectMinimum(cells, side[2], Deployable)
  BY <1>1
<1> QED  BY <1>3, MinimumCertified

\* The place of a number in the order of a set is found for every place.
LEMMA EveryRankTaken ==
    ASSUME NEW counts, IsFiniteSet(counts), counts \subseteq Nat, NEW k \in 1..Cardinality(counts)
    PROVE  \E n \in counts : Cardinality({m \in counts : m < n}) = k - 1
<1>1. PICK size \in Nat : size = Cardinality(counts)
  BY FS_CardinalityType
<1> DEFINE under(n) == {m \in counts : m < n}
           rank == [n \in counts |-> Cardinality(under(n)) + 1]
<1>2. ASSUME NEW n \in counts
      PROVE  IsFiniteSet(under(n)) /\ Cardinality(under(n)) \in Nat /\ rank[n] \in 1..size
  <2>1. IsFiniteSet(under(n)) /\ under(n) \subseteq counts /\ under(n) # counts
    BY FS_Subset
  <2>2. Cardinality(under(n)) < Cardinality(counts) /\ Cardinality(under(n)) \in Nat
    <3> HIDE DEF under
    <3> QED  BY <2>1, FS_Subset, FS_CardinalityType
  <2> QED  BY <1>1, <2>1, <2>2
<1>3. ASSUME NEW m \in counts, NEW n \in counts, m < n PROVE rank[m] < rank[n]
  <2>1. under(m) \subseteq under(n) /\ m \in under(n) /\ m \notin under(m)
    <3>1. \A x \in counts : x \in Nat
      OBVIOUS
    <3>2. \A x \in counts : x < m => x < n
      BY <1>3, <3>1
    <3>3. under(m) \subseteq under(n)
      BY <3>2
    <3>4. ~(m < m) /\ m \in under(n)
      BY <1>3, <3>1
    <3> QED  BY <3>3, <3>4
  <2>2. Cardinality(under(m)) < Cardinality(under(n))
    <3> HIDE DEF under
    <3>1. under(m) # under(n) /\ IsFiniteSet(under(n))
      BY <1>2, <2>1
    <3> QED  BY <2>1, <3>1, FS_Subset, FS_CardinalityType
  <2> QED  BY <1>2, <2>2
<1>4. rank \in [counts -> 1..size]
  BY <1>2
<1>5. rank \in Injection(counts, 1..size)
  <2>1. \A m, n \in counts : rank[m] = rank[n] => m = n
    <3>1. ASSUME NEW m \in counts, NEW n \in counts, rank[m] = rank[n] PROVE m = n
      <4>1. rank[m] \in Int /\ rank[n] \in Int /\ m \in Int /\ n \in Int
        BY <1>2
      <4>2. ~(m < n) /\ ~(n < m)
        <5> HIDE DEF rank
        <5> QED  BY <1>3, <3>1, <4>1
      <4> QED  BY <4>1, <4>2
    <3> QED  BY <3>1
  <2> HIDE DEF rank
  <2> QED  BY <1>4, <2>1 DEF Injection, IsInjective
<1>6. rank \in Surjection(counts, 1..size)
  <2>1. IsFiniteSet(1..size) /\ Cardinality(1..size) = size
    BY FS_Interval
  <2> HIDE DEF rank
  <2> QED  BY <1>1, <1>5, <2>1, FS_Injection
<1>7. PICK n \in counts : rank[n] = k
  <2> HIDE DEF rank
  <2> QED  BY <1>1, <1>6 DEF Surjection
<1>8. Cardinality(under(n)) + 1 = k /\ Cardinality(under(n)) \in Nat
  BY <1>2, <1>7
<1>9. Cardinality(under(n)) = k - 1
  <2> HIDE DEF under
  <2> QED  BY <1>1, <1>8
<1> QED  BY <1>9

\* A plan holds every cell once.
LEMMA PlanIs ==
    ASSUME NEW counts \in CountSets
    PROVE  Plan(counts) \in Seq(PlanCell) /\ Different(Plan(counts))
<1>1. counts \subseteq Nat \ {0} /\ IsFiniteSet(counts) /\ counts \subseteq Nat
  BY SizingAssumption
<1>2. PICK size \in Nat : size = Cardinality(counts)
  BY <1>1, FS_CardinalityType
<1> DEFINE rising == [k \in 1..Cardinality(counts) |->
                         CHOOSE n \in counts : Cardinality({m \in counts : m < n}) = k - 1]
           part(t) == [k \in 1..Len(rising) |-> [topology |-> Topologies[t], p |-> rising[k]]]
           parts == [t \in 1..Len(Topologies) |-> part(t)]
<1>3. ASSUME NEW k \in 1..size
      PROVE  rising[k] \in counts /\ Cardinality({m \in counts : m < rising[k]}) = k - 1
  BY <1>1, <1>2, EveryRankTaken
<1>4. DOMAIN rising = 1..size /\ Len(rising) = size /\ rising \in Seq(counts)
  <2>1. rising \in [1..size -> counts]
    BY <1>2, <1>3
  <2> HIDE DEF rising
  <2> QED  BY <2>1
<1>5. \A j, k \in 1..size : rising[j] = rising[k] => j = k
  <2>1. ASSUME NEW j \in 1..size, NEW k \in 1..size, rising[j] = rising[k] PROVE j = k
    <3>1. j - 1 = k - 1
      BY <1>3, <2>1
    <3> QED  BY <3>1
  <2> QED  BY <2>1
<1>6. Len(Topologies) = 3 /\ DOMAIN parts = 1..3
  BY DEF Topologies
<1> HIDE DEF rising
<1>7. ASSUME NEW t \in 1..3
      PROVE  /\ part(t) \in Seq(PlanCell) /\ DOMAIN part(t) = 1..size
             /\ \A k \in 1..size : part(t)[k].topology = Topologies[t] /\ part(t)[k].p = rising[k]
  <2>1. Topologies[t] \in ToSet(Topologies)
    BY DEF Topologies, ToSet
  <2>2. \A k \in 1..size : rising[k] \in Nat \ {0}
    BY <1>1, <1>3
  <2> QED  BY <1>4, <2>1, <2>2 DEF PlanCell
<1>8. \A t, u \in 1..3 : Topologies[t] = Topologies[u] => t = u
  BY DEF Topologies
<1>9. parts \in Seq(Seq(PlanCell)) /\ Len(parts) = 3 /\ \A t \in 1..3 : parts[t] = part(t)
  BY <1>6, <1>7
<1>10. \A t \in 1..3 : IsInjective(parts[t])
  BY <1>5, <1>7, <1>9 DEF IsInjective
<1>11. \A t, u \in 1..3 : t # u => ToSet(parts[t]) \cap ToSet(parts[u]) = {}
  <2> HIDE DEF parts, part
  <2>1. \A t \in 1..3 : \A c \in ToSet(parts[t]) : c.topology = Topologies[t]
    BY <1>7, <1>9 DEF ToSet
  <2> QED  BY <1>8, <2>1
<1>12. Plan(counts) = FlattenSeq(parts)
  BY DEF Plan, rising
<1> HIDE DEF parts, part
<1>13. Plan(counts) \in Seq(PlanCell) /\ IsInjective(Plan(counts))
  BY <1>9, <1>10, <1>11, <1>12, Flattened
<1>14. Different(Plan(counts))
  <2>1. \A i \in DOMAIN Plan(counts) : Plan(counts)[i] \in PlanCell
    BY <1>13
  <2>2. \A a, b \in PlanCell : Same(a, b) => a = b
    BY DEF PlanCell, Same
  <2> QED  BY <1>13, <2>1, <2>2 DEF Different, IsInjective
<1> QED  BY <1>13, <1>14

\* What is planned is new, what ran is a grid, and what was published is its verdict.
SizeInv ==
    /\ jobs \in Nat /\ plan \in Seq(PlanCell) /\ Different(plan)
    /\ Grid(cells)
    /\ \A i \in DOMAIN cells : \A j \in DOMAIN plan : ~Same(cells[i], plan[j])
    /\ Published => verdict = VerdictOf(cells)

\* It says that the verdict is sound.
LEMMA SizesAreSound == ASSUME SizeInv PROVE VerdictIsSound
<1>1. CASE Published
  <2>1. Grid(cells) /\ verdict = VerdictOf(cells)
    BY <1>1 DEF SizeInv
  <2> QED  BY <2>1, VerdictIsCertified, FrontiersMeet DEF VerdictIsSound
<1>2. CASE ~Published
  BY <1>2 DEF VerdictIsSound, MinimumIsCertified, FrontiersMeetTheVerdict
<1> QED  BY <1>1, <1>2

LEMMA NothingSized == ASSUME SizingInit PROVE SizeInv
<1>1. PICK counts \in CountSets, limit \in Limits : plan = Limited(counts, limit)
  BY DEF SizingInit, SizingPlans
<1>2. Plan(counts) \in Seq(PlanCell) /\ Different(Plan(counts))
  BY PlanIs
<1> DEFINE all == Plan(counts)
           n == Min({limit, Len(all)})
<1>3. n \in Nat /\ n <= Len(all)
  <2>1. limit \in Nat /\ Len(all) \in Nat
    BY <1>2, SizingAssumption
  <2> HIDE DEF all
  <2>2. PICK l \in Nat : l = Len(all)
    BY <2>1
  <2>3. Min({limit, l}) \in {limit, l} /\ Min({limit, l}) <= l
    <3>1. limit \in Int /\ l \in Int
      BY <2>1
    <3> QED  BY <3>1, MinOfTwo
  <2>4. n \in {limit, Len(all)} /\ n <= Len(all)
    BY <2>2, <2>3
  <2> HIDE DEF n
  <2> QED  BY <2>1, <2>4
<1> HIDE DEF all, n
<1>4. /\ SubSeq(all, 1, n) \in Seq(PlanCell) /\ DOMAIN SubSeq(all, 1, n) = 1..n
      /\ \A k \in 1..n : SubSeq(all, 1, n)[k] = all[k]
  BY <1>2, <1>3 DEF all
<1>5. plan = SubSeq(all, 1, n)
  BY <1>1 DEF Limited, all, n
<1>6. plan \in Seq(PlanCell) /\ Different(plan)
  <2>1. \A k \in 1..n : k \in DOMAIN all
    BY <1>2, <1>3 DEF all
  <2> QED  BY <1>2, <1>4, <1>5, <2>1 DEF Different, all
<1>7. cells = <<>> /\ outcome = "running"
  BY DEF SizingInit
<1>8. Grid(cells)
  BY <1>7 DEF Grid, Different
<1>9. jobs \in Nat
  BY SizingAssumption DEF SizingInit
<1>10. DOMAIN cells = {}
  BY <1>7
<1> QED  BY <1>6, <1>7, <1>8, <1>9, <1>10 DEF SizeInv, Published

LEMMA FinishKeeps == ASSUME SizeInv, FinishCell PROVE SizeInv'
<1>1. /\ jobs \in Nat /\ plan \in Seq(PlanCell) /\ Different(plan)
      /\ cells \in Seq(RanCell) /\ Different(cells)
      /\ \A i \in DOMAIN cells : \A j \in DOMAIN plan : ~Same(cells[i], plan[j])
  BY DEF SizeInv, Grid
<1>0. PICK i \in 1..Min({jobs, Len(plan)}) :
          \E run \in CellRuns[plan[i].topology] : /\ cells' = Append(cells, Measured(plan[i], run))
                                                 /\ plan' = RemoveAt(plan, i)
  BY DEF FinishCell
<1>2. PICK run \in CellRuns[plan[i].topology] :
          cells' = Append(cells, Measured(plan[i], run)) /\ plan' = RemoveAt(plan, i)
  BY <1>0
<1>3. i \in 1..Len(plan)
  <2>1. Min({jobs, Len(plan)}) <= Len(plan) /\ Min({jobs, Len(plan)}) \in Int
    <3>1. jobs \in Int /\ Len(plan) \in Int
      BY <1>1
    <3> QED  BY <1>1, <3>1, MinOfTwo
  <2> QED  BY <1>1, <1>2, <2>1
<1> DEFINE c == Measured(plan[i], run)
<1>4. plan[i] \in PlanCell /\ Same(c, plan[i]) /\ c \in RanCell
  <2>1. plan[i] \in PlanCell
    BY <1>1, <1>3
  <2>2. run \in CellRuns[plan[i].topology] /\ c = Measured(plan[i], run)
    BY <1>2
  <2> HIDE DEF c
  <2>3. c \in RanCell
    BY <2>1, <2>2 DEF RanCell
  <2>4. Same(c, plan[i])
    BY <2>2 DEF Same, Measured
  <2> QED  BY <2>1, <2>3, <2>4
<1> HIDE DEF c
<1>5. PICK n \in Nat : n = Len(plan) /\ DOMAIN plan = 1..n
  BY <1>1
<1>6. /\ plan' \in Seq(PlanCell) /\ DOMAIN plan' = 1..(n - 1)
      /\ \A k \in 1..(n - 1) : plan'[k] = plan[IF k < i THEN k ELSE k + 1]
  BY <1>1, <1>2, <1>3, <1>5, EntryRemoved
<1> DEFINE at(k) == IF k < i THEN k ELSE k + 1
<1>7. /\ \A k \in 1..(n - 1) : at(k) \in 1..n /\ at(k) # i
      /\ \A j, k \in 1..(n - 1) : at(j) = at(k) => j = k
  BY <1>3, <1>5
<1>8. \A k \in 1..(n - 1) : plan'[k] = plan[at(k)]
  BY <1>6
<1> HIDE DEF at
<1>9. Different(plan')
  BY <1>1, <1>5, <1>6, <1>7, <1>8, SMTT(30) DEF Different
<1>10. PICK m \in Nat : m = Len(cells) /\ DOMAIN cells = 1..m
  BY <1>1
<1>11. /\ cells' \in Seq(RanCell) /\ DOMAIN cells' = 1..(m + 1)
       /\ \A k \in 1..m : cells'[k] = cells[k]
       /\ cells'[m + 1] = c
  BY <1>1, <1>2, <1>4, <1>10 DEF c
<1>12. \A k \in 1..m : ~Same(cells[k], c)
  BY <1>1, <1>3, <1>4, <1>5, <1>10 DEF Same
<1>13. Different(cells')
  <2>1. ASSUME NEW j \in 1..(m + 1), NEW k \in 1..(m + 1), Same(cells'[j], cells'[k]) PROVE j = k
    <3>1. CASE j \in 1..m /\ k \in 1..m
      BY <1>1, <1>10, <1>11, <2>1, <3>1 DEF Different
    <3>2. CASE j \notin 1..m \/ k \notin 1..m
      <4>1. \A x \in 1..(m + 1) : x \notin 1..m => x = m + 1
        OBVIOUS
      <4>2. \A x \in 1..m : ~Same(cells'[x], cells'[m + 1]) /\ ~Same(cells'[m + 1], cells'[x])
        BY <1>11, <1>12 DEF Same
      <4> QED  BY <2>1, <3>2, <4>1, <4>2
    <3> QED  BY <3>1, <3>2
  <2> QED  BY <1>11, <2>1 DEF Different
<1>14. \A k \in 1..(m + 1) : \A j \in 1..(n - 1) : ~Same(cells'[k], plan'[j])
  <2>1. ASSUME NEW k \in 1..(m + 1), NEW j \in 1..(n - 1) PROVE ~Same(cells'[k], plan[at(j)])
    <3>1. at(j) \in 1..n /\ at(j) # i
      BY <1>7
    <3>2. CASE k \in 1..m
      BY <1>1, <1>5, <1>10, <1>11, <3>1, <3>2
    <3>3. CASE k = m + 1
      <4>1. ~Same(plan[i], plan[at(j)])
        BY <1>1, <1>3, <1>5, <3>1 DEF Different
      <4> QED  BY <1>4, <1>11, <3>3, <4>1 DEF Same
    <3> QED  BY <3>2, <3>3
  <2> QED  BY <1>8, <2>1
<1>15. ~Published'
  BY DEF FinishCell, Published
<1>16. jobs' \in Nat
  BY <1>1 DEF FinishCell
<1>17. Grid(cells)'
  BY <1>11, <1>13 DEF Grid
<1> QED  BY <1>6, <1>9, <1>11, <1>14, <1>15, <1>16, <1>17 DEF SizeInv

LEMMA SizeKeeps == ASSUME SizeInv, SizingNext PROVE SizeInv'
<1>1. CASE FinishCell
  BY <1>1, FinishKeeps
<1>2. CASE CellRaises
  BY <1>2 DEF CellRaises, SizeInv, Grid, Published
<1>3. CASE PublishVerdicts
  <2>1. plan' = plan /\ cells' = cells /\ jobs' = jobs
    BY <1>3 DEF PublishVerdicts
  <2>2. outcome' = "published" => verdict' = VerdictOf(cells)
    BY <1>3 DEF PublishVerdicts, VerdictOf
  <2>3. VerdictOf(cells') = VerdictOf(cells) /\ Grid(cells')
    BY <2>1 DEF SizeInv
  <2> QED  BY <2>1, <2>2, <2>3 DEF SizeInv, Published
<1> QED  BY <1>1, <1>2, <1>3 DEF SizingNext

\* The grid is new in every run, what ran is a grid, and a verdict is of what ran.
THEOREM SizingInvariance == Spec => []SizeInv
<1>1. Init => SizeInv
  BY NothingSized DEF Init
<1>2. SizeInv /\ [Next]_vars => SizeInv'
  <2>1. SUFFICES ASSUME SizeInv, [Next]_vars PROVE SizeInv'
    OBVIOUS
  <2>2. CASE Size
    BY <2>1, <2>2, SizeKeeps DEF Size
  <2>3. CASE UNCHANGED sizingVars
    BY <2>1, <2>3 DEF SizeInv, Grid, Published, sizingVars, VerdictOf
  <2>4. [Next]_vars => Size \/ UNCHANGED sizingVars
    BY DEF Next, vars, Select, Kvs, Lease, Life, Place, Over
  <2> QED  BY <2>1, <2>2, <2>3, <2>4
<1> QED  BY <1>1, <1>2, PTL DEF Spec

\* What the sizing study publishes: a minimum that is certified, and frontiers that
\* meet it (m12_sizing.py 376-445, run_m12_sizing.py 327-416).
THEOREM VerdictsHold == Spec => []VerdictIsSound
BY SizingInvariance, SizesAreSound, PTL

-----------------------------------------------------------------------------
\* The KVS replay.  Its caches are lists in order of recency, as its store is.

Lru(list) == [policy |-> "LRU", resident |-> ToSet(list), order |-> list,
              protected |-> <<>>, ghost |-> <<>>]
LruFits(c, capacity) ==
    \E list \in Seq(TraceBlock) :
        c = Lru(list) /\ IsInjective(list) /\ Len(list) <= capacity

\* The recursion of place.
LruRec(f, c, prefix, capacity) ==
    f = [i \in 0..Len(prefix) |->
            IF i = 0 THEN [cache |-> c, inserted |-> {}]
            ELSE PlaceBlock(f[i - 1], prefix[i], {}, capacity)]

\* pop and move_to_end.
LEMMA WithoutIs == ASSUME NEW list, NEW x PROVE Without(list, x) = Dropped(list, x)
BY DEF Without, Dropped

LEMMA NoneWithout == ASSUME NEW x PROVE Without(<<>>, x) = <<>>
<1>1. ~Contains(<<>>, x)
  BY DEF Contains
<1> QED  BY <1>1, WithoutIs DEF Dropped

\* One block placed in a cache is one entry filed in its list.
LEMMA LruPlaces ==
    ASSUME NEW size, NEW capacity \in Nat \ {0}, size.blocks = capacity,
           NEW list \in Seq(TraceBlock), IsInjective(list),
           NEW fresh, NEW x \in TraceBlock
    PROVE  LET r == Filed([list |-> list, fresh |-> fresh], x, capacity)
           IN  PlaceBlock([cache |-> Lru(list), inserted |-> fresh], x, {}, size) =
                  [cache |-> Lru(r.list), inserted |-> r.fresh]
<1>1. PICK n \in Nat : n = Len(list) /\ DOMAIN list = 1..n
  OBVIOUS
<1>2. PICK c : c = Lru(list)
  OBVIOUS
<1>3. /\ c.policy = "LRU" /\ c.resident = ToSet(list) /\ c.order = list
      /\ c.protected = <<>> /\ c.ghost = <<>>
  BY <1>2 DEF Lru
<1>4. PICK old : old = {i \in 1..n : list[i] \notin fresh}
  OBVIOUS
<1>5. PICK r : r = Filed([list |-> list, fresh |-> fresh], x, capacity)
  OBVIOUS
<1>6. r = IF Contains(list, x) THEN [list |-> Append(Dropped(list, x), x), fresh |-> fresh]
          ELSE IF n >= capacity /\ old = {} THEN [list |-> list, fresh |-> fresh]
          ELSE [list  |-> Append(IF n >= capacity THEN Dropped(list, list[Min(old)])
                                 ELSE list, x),
                fresh |-> fresh \cup {x}]
  <2>1. PICK st : st = [list |-> list, fresh |-> fresh]
    OBVIOUS
  <2>2. st.list = list /\ st.fresh = fresh
    BY <2>1
  <2>3. [st EXCEPT !.list = Append(Dropped(list, x), x)] =
           [list |-> Append(Dropped(list, x), x), fresh |-> fresh]
    <3>1. ASSUME NEW m PROVE [[list |-> list, fresh |-> fresh] EXCEPT !.list = m] =
                                 [list |-> m, fresh |-> fresh]
      OBVIOUS
    <3> QED  BY <2>1, <3>1
  <2> QED  BY <1>1, <1>4, <1>5, <2>1, <2>2, <2>3 DEF Filed
<1>7. Contains(list, x) <=> x \in ToSet(list)
  BY <1>1 DEF Contains, ToSet
<1>8. IsFiniteSet(ToSet(list)) /\ Cardinality(ToSet(list)) = n
  BY <1>1, EntriesCount
<1>9. Consulted(c, x, size) = c /\ Admits(c, x)
  BY <1>3 DEF Consulted, Admits
<1>10. ASSUME NEW more
       PROVE  Inserted(Lru(more), x) =
                 [policy |-> "LRU", resident |-> ToSet(more) \cup {x},
                  order |-> Append(more, x), protected |-> <<>>, ghost |-> <<>>]
  <2>1. PICK d : d = Lru(more)
    OBVIOUS
  <2>2. d = [policy |-> "LRU", resident |-> ToSet(more), order |-> more,
             protected |-> <<>>, ghost |-> <<>>]
    BY <2>1 DEF Lru
  <2>3. d.resident = ToSet(more) /\ d.order = more
    BY <2>2
  <2>4. Inserted(d, x) = [d EXCEPT !.resident = ToSet(more) \cup {x},
                                            !.order = Append(more, x)]
    BY <2>3 DEF Inserted
  <2>5. ASSUME NEW held, NEW order
        PROVE  [Lru(more) EXCEPT !.resident = held, !.order = order] =
                  [policy |-> "LRU", resident |-> held, order |-> order,
                   protected |-> <<>>, ghost |-> <<>>]
    <3>1. PICK one : one = [d EXCEPT !.resident = held]
      OBVIOUS
    <3>2. one = [policy |-> "LRU", resident |-> held, order |-> more,
                 protected |-> <<>>, ghost |-> <<>>]
      BY <2>2, <3>1
    <3>3. [one EXCEPT !.order = order] = [policy |-> "LRU", resident |-> held, order |-> order,
                                          protected |-> <<>>, ghost |-> <<>>]
      BY <3>2
    <3> QED  BY <2>1, <2>2, <3>1, <3>3
  <2> QED  BY <2>1, <2>4, <2>5, Zenon
<1>11. ASSUME NEW more \in Seq(TraceBlock)
       PROVE  Inserted(Lru(more), x) = Lru(Append(more, x))
  <2>1. ToSet(Append(more, x)) = ToSet(more) \cup {x}
    BY AppendIs
  <2> QED  BY <1>10, <2>1 DEF Lru
<1>12. PICK s : s = [cache |-> c, inserted |-> fresh]
  OBVIOUS
<1>13. s.cache = c /\ s.inserted = fresh
  BY <1>12
<1>14. PICK victim : victim = Victims(c, {} \cup fresh)
  OBVIOUS
<1>15. victim = {list[i] : i \in {j \in old : \A k \in old : j <= k}}
  <2>1. list \o <<>> = list
    OBVIOUS
  <2>2. {i \in DOMAIN list : list[i] \in c.resident \ ({} \cup fresh)} = old
    BY <1>1, <1>3, <1>4 DEF ToSet
  <2> QED  BY <1>3, <1>14, <2>1, <2>2 DEF Victims
<1>16. PlaceBlock(s, x, {}, size) =
          IF x \in ToSet(list) THEN [s EXCEPT !.cache = Touched(c, x, size)]
          ELSE IF n + 1 > capacity /\ victim = {} THEN [s EXCEPT !.cache = c]
          ELSE [cache    |-> Inserted(
                                 IF n + 1 > capacity
                                 THEN Evicted(c, CHOOSE v \in victim : TRUE)
                                 ELSE c, x),
                inserted |-> fresh \cup {x}]
  BY <1>3, <1>8, <1>9, <1>13, <1>14 DEF PlaceBlock
<1>17. CASE x \in ToSet(list)
  <2>1. Contains(c.order, x)
    BY <1>3, <1>7, <1>17 DEF Contains
  <2>2. PICK moved : moved = Append(Dropped(list, x), x)
    OBVIOUS
  <2>3. Touched(c, x, size) = [c EXCEPT !.order = moved]
    <3>1. MovedToEnd(c.order, x) = moved
      BY <1>3, <2>2, WithoutIs DEF MovedToEnd
    <3>2. Touched(c, x, size) = [c EXCEPT !.order = MovedToEnd(c.order, x)]
      BY <1>3, <2>1 DEF Touched
    <3> QED  BY <3>1, <3>2
  <2>4. ToSet(moved) = ToSet(list)
    <3>1. Dropped(list, x) \in Seq(TraceBlock) /\ ToSet(Dropped(list, x)) = ToSet(list) \ {x}
      BY DroppedIs
    <3>2. ToSet(moved) = ToSet(Dropped(list, x)) \cup {x}
      BY <2>2, <3>1, AppendIs
    <3> QED  BY <1>17, <3>1, <3>2
  <2>5. [c EXCEPT !.order = moved] = Lru(moved)
    BY <1>2, <2>4 DEF Lru
  <2>6. r = [list |-> moved, fresh |-> fresh]
    BY <1>6, <1>7, <1>17, <2>2
  <2>7. PlaceBlock(s, x, {}, size) = [cache |-> Lru(moved), inserted |-> fresh]
    BY <1>12, <1>16, <1>17, <2>3, <2>5
  <2> QED  BY <1>2, <1>5, <1>12, <2>6, <2>7
<1>18. IsFiniteSet(old) /\ old \subseteq 1..n
  <2>1. IsFiniteSet(1..n) /\ old \in SUBSET (1..n)
    BY <1>4, UpToIs
  <2> QED  BY <2>1, FS_Subset
<1>19. CASE x \notin ToSet(list) /\ n >= capacity /\ old = {}
  <2>1. victim = {}
    BY <1>15, <1>19
  <2>2. PlaceBlock(s, x, {}, size) = [cache |-> Lru(list), inserted |-> fresh]
    BY <1>2, <1>12, <1>16, <1>19, <2>1
  <2>3. r = [list |-> list, fresh |-> fresh]
    BY <1>6, <1>7, <1>19
  <2> QED  BY <1>2, <1>5, <1>12, <2>2, <2>3
<1>20. CASE x \notin ToSet(list) /\ n >= capacity /\ old # {}
  <2>1. PICK v : v = Min(old)
    OBVIOUS
  <2>2. v \in old /\ \A i \in old : v <= i
    <3>1. old \subseteq Int
      BY <1>18
    <3>2. \E m \in old : \A i \in old : m <= i
      BY <1>18, <1>20, <3>1, LeastExists
    <3> QED  BY <2>1, <3>2 DEF Min
  <2>3. {j \in old : \A k \in old : j <= k} = {v}
    <3>1. \A j \in old : j \in Int
      BY <1>18
    <3>2. ASSUME NEW j \in old, \A k \in old : j <= k PROVE j = v
      BY <2>2, <3>1, <3>2
    <3> QED  BY <2>2, <3>2
  <2>4. victim = {list[v]}
    BY <1>15, <2>3
  <2>5. (CHOOSE y \in victim : TRUE) = list[v] /\ victim # {}
    BY <2>4
  <2>6. PICK less : less = Dropped(list, list[v])
    OBVIOUS
  <2>7. Evicted(c, list[v]) = Lru(less)
    <3>1. ToSet(less) = ToSet(list) \ {list[v]}
      BY <2>6, DroppedIs
    <3>2. Without(list, list[v]) = less /\ Without(<<>>, list[v]) = <<>>
      BY <2>6, WithoutIs, NoneWithout
    <3>3. Evicted(c, list[v]) = [c EXCEPT !.resident = ToSet(list) \ {list[v]},
                                                   !.order = less, !.protected = <<>>]
      BY <1>3, <3>2 DEF Evicted
    <3>4. c = [policy |-> "LRU", resident |-> ToSet(list), order |-> list,
               protected |-> <<>>, ghost |-> <<>>]
      BY <1>2 DEF Lru
    <3>5. Lru(less) = [policy |-> "LRU", resident |-> ToSet(list) \ {list[v]}, order |-> less,
                       protected |-> <<>>, ghost |-> <<>>]
      BY <3>1 DEF Lru
    <3> QED  BY <3>3, <3>4, <3>5
  <2>8. less \in Seq(TraceBlock)
    BY <2>6, DroppedIs
  <2>9. Inserted(Lru(less), x) = Lru(Append(less, x))
    BY <1>11, <2>8
  <2>10. n + 1 > capacity
    BY <1>20
  <2>11. PlaceBlock(s, x, {}, size) = [cache |-> Lru(Append(less, x)), inserted |-> fresh \cup {x}]
    BY <1>16, <1>20, <2>5, <2>7, <2>9, <2>10
  <2>12. r = [list |-> Append(less, x), fresh |-> fresh \cup {x}]
    BY <1>6, <1>7, <1>20, <2>1, <2>6
  <2>13. r.list = Append(less, x) /\ r.fresh = fresh \cup {x}
    BY <2>12
  <2> QED  BY <1>2, <1>5, <1>12, <2>11, <2>13
<1>21. CASE x \notin ToSet(list) /\ ~(n >= capacity)
  <2>1. ~(n + 1 > capacity)
    BY <1>21
  <2>2. Inserted(c, x) = Lru(Append(list, x))
    BY <1>2, <1>11
  <2>3. PlaceBlock(s, x, {}, size) = [cache |-> Lru(Append(list, x)), inserted |-> fresh \cup {x}]
    BY <1>16, <1>21, <2>1, <2>2
  <2>4. r = [list |-> Append(list, x), fresh |-> fresh \cup {x}]
    BY <1>6, <1>7, <1>21
  <2>5. r.list = Append(list, x) /\ r.fresh = fresh \cup {x}
    BY <2>4
  <2> QED  BY <1>2, <1>5, <1>12, <2>3, <2>5
<1> QED  BY <1>17, <1>19, <1>20, <1>21

\* What one place after another comes to, once the entries are filed as g says.
LEMMA LruPlacesAll ==
    ASSUME NEW size, NEW capacity \in Nat \ {0}, size.blocks = capacity,
           NEW p \in Seq(TraceBlock), NEW n \in Nat, n = Len(p), DOMAIN p = 1..n,
           NEW list, NEW g, Filing(g, list, p, capacity), AllFit(g, n, TraceBlock, capacity)
    PROVE  Placed(Lru(list), p, {}, size) = Lru(g[n].list)
<1>1. PICK c : c = Lru(list)
  OBVIOUS
<1>2. g[0] = [list |-> list, fresh |-> {}]
  BY DEF Filing
<1>3. \A i \in 1..n : g[i] = Filed(g[i - 1], p[i], capacity)
  BY DEF Filing
<1>4. \A i \in 0..n : /\ g[i] = [list |-> g[i].list, fresh |-> g[i].fresh]
                      /\ g[i].list \in Seq(TraceBlock) /\ IsInjective(g[i].list)
  BY DEF AllFit
<1> DEFINE Then(i) == [cache |-> Lru(g[i].list), inserted |-> g[i].fresh]
<1>5. ASSUME NEW i \in 1..n
      PROVE  PlaceBlock(Then(i - 1), p[i], {}, size) = Then(i)
  <2>1. PICK a, b : a = g[i - 1].list /\ b = g[i - 1].fresh
    OBVIOUS
  <2>2. i - 1 \in 0..n /\ p[i] \in TraceBlock
    OBVIOUS
  <2>3. g[i - 1] = [list |-> a, fresh |-> b] /\ a \in Seq(TraceBlock) /\ IsInjective(a)
    BY <1>4, <2>1, <2>2
  <2>4. PICK r : r = Filed([list |-> a, fresh |-> b], p[i], capacity)
    OBVIOUS
  <2>5. PlaceBlock([cache |-> Lru(a), inserted |-> b], p[i], {}, size) =
           [cache |-> Lru(r.list), inserted |-> r.fresh]
    BY <2>2, <2>3, <2>4, LruPlaces
  <2>6. g[i] = r
    BY <1>3, <2>3, <2>4
  <2> QED  BY <2>1, <2>5, <2>6
<1>6. Then(0) = [cache |-> c, inserted |-> {}]
  BY <1>1, <1>2
<1> HIDE DEF Then
<1>7. PICK f : f = [i \in 0..n |-> Then(i)]
  OBVIOUS
<1>8. LruRec(f, c, p, size)
  <2>1. ASSUME NEW i \in 0..n
        PROVE  f[i] = IF i = 0 THEN [cache |-> c, inserted |-> {}]
                      ELSE PlaceBlock(f[i - 1], p[i], {}, size)
    <3>1. CASE i = 0
      BY <1>6, <1>7, <3>1
    <3>2. CASE i # 0
      <4>1. i \in 1..n /\ i - 1 \in 0..n
        BY <3>2
      <4>2. f[i] = Then(i) /\ f[i - 1] = Then(i - 1)
        BY <1>7, <4>1
      <4> QED  BY <1>5, <3>2, <4>1, <4>2
    <3> QED  BY <3>1, <3>2
  <2>2. f = [i \in 0..n |-> IF i = 0 THEN [cache |-> c, inserted |-> {}]
                            ELSE PlaceBlock(f[i - 1], p[i], {}, size)]
    BY <1>7, <2>1
  <2> QED  BY <2>2 DEF LruRec
<1>9. PICK h : h = CHOOSE x : LruRec(x, c, p, size)
  OBVIOUS
<1>10. LruRec(h, c, p, size)
  BY <1>8, <1>9
<1>11. h = [i \in 0..n |-> IF i = 0 THEN [cache |-> c, inserted |-> {}]
                           ELSE PlaceBlock(h[i - 1], p[i], {}, size)]
  BY <1>10 DEF LruRec
<1>12. h[0] = [cache |-> c, inserted |-> {}]
  <2>1. 0 \in 0..n
    OBVIOUS
  <2> QED  BY <1>11, <2>1
<1>13. \A i \in 1..n : h[i] = PlaceBlock(h[i - 1], p[i], {}, size)
  <2>1. \A i \in 1..n : i \in 0..n /\ i # 0
    OBVIOUS
  <2> QED  BY <1>11, <2>1
<1>14. f[0] = h[0]
  BY <1>6, <1>7, <1>12
<1>15. ASSUME NEW i \in 1..n, f[i - 1] = h[i - 1] PROVE f[i] = h[i]
  <2>1. i - 1 \in 0..n /\ i \in 0..n
    OBVIOUS
  <2>2. f[i] = Then(i) /\ f[i - 1] = Then(i - 1)
    BY <1>7, <2>1
  <2> QED  BY <1>5, <1>13, <1>15, <2>2
<1>16. f[n] = h[n]
  <2>1. InStep(f, h, n)
    BY <1>14, <1>15 DEF InStep
  <2> QED  BY <2>1, StepsAgree
<1>17. Placed(c, p, {}, size) = h[n].cache
  BY <1>9 DEF Placed, LruRec
<1> QED  BY <1>1, <1>7, <1>16, <1>17 DEF Then

\* A prompt that fits in a cache is all in it after place, and the cache keeps to
\* its capacity.
LEMMA LruKeeps ==
    ASSUME NEW size, NEW capacity \in Nat \ {0}, size.blocks = capacity,
           NEW c, LruFits(c, capacity), NEW p \in Seq(TraceBlock), IsInjective(p)
    PROVE  LET r == Placed(c, p, {}, size)
           IN  /\ LruFits(r, capacity)
               /\ Len(p) <= capacity => ToSet(p) \subseteq r.resident
<1>1. Len(p) \in Nat /\ DOMAIN p = 1..Len(p)
  OBVIOUS
<1>2. PICK list \in Seq(TraceBlock) : c = Lru(list) /\ IsInjective(list) /\ Len(list) <= capacity
  BY DEF LruFits
<1>3. IsInjective(list) /\ Len(list) <= capacity /\ list \in Seq(TraceBlock)
  BY <1>2
<1>4. PICK g : Filing(g, list, p, capacity)
  BY <1>3, FilingExists
<1>5. /\ AllFit(g, Len(p), TraceBlock, capacity)
      /\ Len(p) <= capacity => ToSet(p) \subseteq ToSet(g[Len(p)].list)
  BY <1>3, <1>4, AllFiled
<1>10. Placed(c, p, {}, size) = Lru(g[Len(p)].list)
  BY <1>1, <1>2, <1>4, <1>5, LruPlacesAll
<1>11. PICK l : l = g[Len(p)].list
  OBVIOUS
<1>12. l \in Seq(TraceBlock) /\ IsInjective(l) /\ Len(l) <= capacity
  <2>1. Len(p) \in 0..Len(p)
    BY <1>1
  <2> QED  BY <1>5, <1>11, <2>1 DEF AllFit
<1>13. LruFits(Lru(l), capacity)
  BY <1>12 DEF LruFits
<1>14. Lru(l).resident = ToSet(l)
  BY DEF Lru
<1> QED  BY <1>5, <1>10, <1>11, <1>13, <1>14

\* The length of a hit, and what it is of a prompt that is all there.
LEMMA HitsAre ==
    ASSUME NEW V, NEW p \in Seq(V), NEW there
    PROVE  /\ HitBlocks(there, p) \in 0..Len(p)
           /\ \A i \in 1..HitBlocks(there, p) : p[i] \in there
           /\ ToSet(p) \subseteq there => HitBlocks(there, p) = Len(p)
<1> DEFINE misses == {i \in 1..Len(p) : p[i] \notin there}
<1>1. CASE misses = {}
  BY <1>1 DEF HitBlocks
<1>2. CASE misses # {}
  <2>1. IsFiniteSet(misses) /\ misses \subseteq Int
    BY FS_Interval, FS_Subset
  <2>2. \E m \in misses : \A k \in misses : m <= k
    <3> HIDE DEF misses
    <3> QED  BY <1>2, <2>1, LeastExists
  <2>3. PICK m : m = Min(misses)
    OBVIOUS
  <2>4. m \in misses /\ \A k \in misses : m <= k
    <3> HIDE DEF misses
    <3> QED  BY <2>2, <2>3 DEF Min
  <2>5. HitBlocks(there, p) = m - 1
    BY <1>2, <2>3 DEF HitBlocks
  <2>6. m - 1 \in 0..Len(p)
    BY <2>4
  <2>7. ASSUME NEW i \in 1..(m - 1) PROVE p[i] \in there
    <3>1. i \in 1..Len(p) /\ ~(m <= i)
      BY <2>4
    <3> QED  BY <2>4, <3>1
  <2>8. ~(ToSet(p) \subseteq there)
    <3>1. p[m] \in ToSet(p) /\ p[m] \notin there
      BY <2>4 DEF ToSet
    <3> QED  BY <3>1
  <2> QED  BY <2>5, <2>6, <2>7, <2>8
<1> QED  BY <1>1, <1>2

-----------------------------------------------------------------------------
(* The store, as the list of its objects and its transfer counts.           *)

StoredObject == Node \X TraceBlock

HeldIn(O) == [n \in Node |-> {b \in TraceBlock : <<n, b>> \in O}]
HoldersIn(O, b) == {n \in Node : <<n, b>> \in O}
CopiesOf(O) == [b \in {c \in TraceBlock : HoldersIn(O, c) # {}} |->
                   Cardinality(HoldersIn(O, b))]

StoreOf(list, t) == [objects |-> list, byHolder |-> HeldIn(ToSet(list)),
                     copies |-> CopiesOf(ToSet(list)), transfers |-> t]
Transfers(t, list) ==
    t = [b \in DOMAIN t |-> t[b]] /\ DOMAIN t \subseteq DOMAIN CopiesOf(ToSet(list))
StoreFits(s, capacity) ==
    \E list \in Seq(StoredObject) : \E t :
        /\ IsInjective(list) /\ Len(list) <= capacity /\ Transfers(t, list)
        /\ s = StoreOf(list, t)

\* The holders of a block are finitely many.
LEMMA HoldersCount ==
    ASSUME NEW O, NEW b
    PROVE  /\ IsFiniteSet(HoldersIn(O, b)) /\ Cardinality(HoldersIn(O, b)) \in Nat
           /\ Cardinality(HoldersIn(O, b)) = 0 <=> HoldersIn(O, b) = {}
<1>1. IsFiniteSet(HoldersIn(O, b))
  BY StoreAssumption, FS_Subset DEF HoldersIn
<1> QED  BY <1>1, FS_CardinalityType, FS_EmptySet

\* One copy more, and one less.
LEMMA CopyComes ==
    ASSUME NEW O, NEW n \in Node, NEW b \in TraceBlock, <<n, b>> \notin O
    PROVE  CopiesOf(O) (+) SetToBag({b}) = CopiesOf(O \cup {<<n, b>>})
<1>1. PICK more : more = O \cup {<<n, b>>}
  OBVIOUS
<1>2. HoldersIn(more, b) = HoldersIn(O, b) \cup {n} /\ n \notin HoldersIn(O, b)
  BY <1>1 DEF HoldersIn
<1>3. \A c : c # b => HoldersIn(more, c) = HoldersIn(O, c)
  BY <1>1 DEF HoldersIn
<1>4. Cardinality(HoldersIn(more, b)) = Cardinality(HoldersIn(O, b)) + 1
  BY <1>2, HoldersCount, FS_AddElement
<1>5. PICK C : C = CopiesOf(O)
  OBVIOUS
<1>6. /\ DOMAIN C = {c \in TraceBlock : HoldersIn(O, c) # {}}
      /\ \A c \in DOMAIN C : C[c] = Cardinality(HoldersIn(O, c))
  BY <1>5 DEF CopiesOf
<1>7. C (+) SetToBag({b}) = [c \in DOMAIN C \cup {b} |->
          (IF c \in DOMAIN C THEN C[c] ELSE 0) + (IF c \in {b} THEN 1 ELSE 0)]
  BY DEF (+), SetToBag
<1>8. DOMAIN C \cup {b} = {c \in TraceBlock : HoldersIn(more, c) # {}}
  BY <1>2, <1>3, <1>6
<1>9. ASSUME NEW c \in DOMAIN C \cup {b}
      PROVE  (IF c \in DOMAIN C THEN C[c] ELSE 0) + (IF c \in {b} THEN 1 ELSE 0) =
                 Cardinality(HoldersIn(more, c))
  <2>1. CASE c # b
    <3>1. c \in DOMAIN C /\ C[c] = Cardinality(HoldersIn(more, c))
      BY <1>3, <1>6, <2>1
    <3>2. Cardinality(HoldersIn(more, c)) \in Nat
      BY HoldersCount
    <3> QED  BY <2>1, <3>1, <3>2
  <2>2. CASE c = b /\ c \in DOMAIN C
    <3>1. C[c] = Cardinality(HoldersIn(O, b))
      BY <1>6, <2>2
    <3> QED  BY <1>4, <2>2, <3>1
  <2>3. CASE c = b /\ c \notin DOMAIN C
    <3>1. HoldersIn(O, b) = {}
      BY <1>6, <2>3
    <3>2. Cardinality(HoldersIn(O, b)) = 0
      BY <3>1, HoldersCount
    <3> QED  BY <1>4, <2>3, <3>2
  <2> QED  BY <2>1, <2>2, <2>3
<1>10. C (+) SetToBag({b}) = [c \in {x \in TraceBlock : HoldersIn(more, x) # {}} |->
                                 Cardinality(HoldersIn(more, c))]
  BY <1>7, <1>8, <1>9
<1> QED  BY <1>1, <1>5, <1>10 DEF CopiesOf

LEMMA CopyGoes ==
    ASSUME NEW O, NEW n \in Node, NEW b \in TraceBlock, <<n, b>> \in O
    PROVE  CopiesOf(O) (-) SetToBag({b}) = CopiesOf(O \ {<<n, b>>})
<1>1. PICK less : less = O \ {<<n, b>>}
  OBVIOUS
<1>2. HoldersIn(less, b) = HoldersIn(O, b) \ {n} /\ n \in HoldersIn(O, b)
  BY <1>1 DEF HoldersIn
<1>3. \A c : c # b => HoldersIn(less, c) = HoldersIn(O, c)
  BY <1>1 DEF HoldersIn
<1>4. Cardinality(HoldersIn(less, b)) = Cardinality(HoldersIn(O, b)) - 1
  BY <1>2, HoldersCount, FS_RemoveElement, ZenonT(40)
<1>5. PICK C : C = CopiesOf(O)
  OBVIOUS
<1>6. /\ DOMAIN C = {c \in TraceBlock : HoldersIn(O, c) # {}}
      /\ \A c \in DOMAIN C : C[c] = Cardinality(HoldersIn(O, c))
  BY <1>5 DEF CopiesOf
<1>7. PICK B : B = [c \in DOMAIN C |-> IF c \in {b} THEN C[c] - 1 ELSE C[c]]
  OBVIOUS
<1>8. C (-) SetToBag({b}) = [c \in {x \in DOMAIN B : B[x] > 0} |-> B[c]]
  BY <1>7 DEF (-), SetToBag
<1>9. DOMAIN B = DOMAIN C
  BY <1>7
<1>10. \A c \in DOMAIN B : B[c] = Cardinality(HoldersIn(less, c))
  <2>1. ASSUME NEW c \in DOMAIN B PROVE B[c] = Cardinality(HoldersIn(less, c))
    <3>1. CASE c = b
      BY <1>4, <1>6, <1>7, <1>9, <3>1
    <3>2. CASE c # b
      BY <1>3, <1>6, <1>7, <1>9, <3>2
    <3> QED  BY <3>1, <3>2
  <2> QED  BY <2>1
<1>11. {x \in DOMAIN B : B[x] > 0} = {x \in TraceBlock : HoldersIn(less, x) # {}}
  <2>1. ASSUME NEW x \in TraceBlock, HoldersIn(less, x) # {} PROVE x \in DOMAIN B
    <3>1. HoldersIn(O, x) # {}
      BY <1>2, <1>3, <2>1
    <3> QED  BY <1>6, <1>9, <3>1
  <2>2. ASSUME NEW x \in DOMAIN B
        PROVE  x \in TraceBlock /\ (B[x] > 0 <=> HoldersIn(less, x) # {})
    <3>1. Cardinality(HoldersIn(less, x)) \in Nat
          /\ (Cardinality(HoldersIn(less, x)) = 0 <=> HoldersIn(less, x) = {})
      BY HoldersCount
    <3>2. x \in TraceBlock /\ B[x] = Cardinality(HoldersIn(less, x))
      BY <1>6, <1>9, <1>10
    <3> QED  BY <3>1, <3>2
  <2> QED  BY <2>1, <2>2
<1>12. C (-) SetToBag({b}) = [c \in {x \in TraceBlock : HoldersIn(less, x) # {}} |->
                                 Cardinality(HoldersIn(less, c))]
  BY <1>8, <1>10, <1>11
<1> QED  BY <1>1, <1>5, <1>12 DEF CopiesOf

\* The indices, when an object comes or goes.
LEMMA HeldComes ==
    ASSUME NEW O, NEW n \in Node, NEW b \in TraceBlock
    PROVE  [HeldIn(O) EXCEPT ![n] = @ \cup {b}] = HeldIn(O \cup {<<n, b>>})
BY DEF HeldIn

LEMMA HeldGoes ==
    ASSUME NEW O, NEW n \in Node, NEW b \in TraceBlock
    PROVE  [HeldIn(O) EXCEPT ![n] = @ \ {b}] = HeldIn(O \ {<<n, b>>})
BY DEF HeldIn

\* What is indexed, and what stays so.
LEMMA IndexedAre ==
    ASSUME NEW O, NEW n \in Node, NEW b \in TraceBlock
    PROVE  /\ <<n, b>> \in O => b \in DOMAIN CopiesOf(O)
           /\ DOMAIN CopiesOf(O) \subseteq DOMAIN CopiesOf(O \cup {<<n, b>>})
           /\ \A c \in DOMAIN CopiesOf(O) : c # b => c \in DOMAIN CopiesOf(O \ {<<n, b>>})
<1>1. ASSUME NEW Q, NEW c
      PROVE  c \in DOMAIN CopiesOf(Q) <=> c \in TraceBlock /\ \E m \in Node : <<m, c>> \in Q
  <2>1. DOMAIN CopiesOf(Q) = {d \in TraceBlock : HoldersIn(Q, d) # {}}
    BY DEF CopiesOf
  <2>2. HoldersIn(Q, c) # {} <=> \E m \in Node : <<m, c>> \in Q
    BY DEF HoldersIn
  <2> QED  BY <2>1, <2>2
<1>2. PICK more, less : more = O \cup {<<n, b>>} /\ less = O \ {<<n, b>>}
  OBVIOUS
<1>3. DOMAIN CopiesOf(O) \subseteq DOMAIN CopiesOf(more)
  BY <1>1, <1>2
<1>4. ASSUME NEW c \in DOMAIN CopiesOf(O), c # b PROVE c \in DOMAIN CopiesOf(less)
  <2>1. PICK m \in Node : <<m, c>> \in O
    BY <1>1
  <2>2. <<m, c>> \in less
    BY <1>2, <1>4, <2>1
  <2> QED  BY <1>1, <2>2
<1> QED  BY <1>1, <1>2, <1>3, <1>4

\* An object that is stored.
LEMMA StoredIs ==
    ASSUME NEW list \in Seq(StoredObject), IsInjective(list), NEW t, Transfers(t, list),
           NEW x \in StoredObject, x \notin ToSet(list)
    PROVE  /\ Stored(StoreOf(list, t), x) = StoreOf(Append(list, x), t)
           /\ Transfers(t, Append(list, x))
<1>1. PICK n \in Node, b \in TraceBlock : x = <<n, b>>
  BY DEF StoredObject
<1>2. PICK O : O = ToSet(list)
  OBVIOUS
<1>3. ToSet(Append(list, x)) = O \cup {<<n, b>>}
  BY <1>1, <1>2, CameInIs
<1>4. PICK s : s = [objects |-> list, byHolder |-> HeldIn(O), copies |-> CopiesOf(O),
                    transfers |-> t]
  OBVIOUS
<1>5. s = StoreOf(list, t)
  BY <1>2, <1>4 DEF StoreOf
<1>6. Stored(s, x) = [s EXCEPT !.objects = Append(list, x),
                               !.byHolder[n] = @ \cup {b},
                               !.copies = CopiesOf(O) (+) SetToBag({b})]
  BY <1>1, <1>4 DEF Stored
<1>7. ASSUME NEW held, NEW h, NEW c, NEW l, NEW d,
             NEW s0, s0 = [objects |-> l, byHolder |-> h, copies |-> c, transfers |-> t]
      PROVE  [s0 EXCEPT !.objects = held, !.byHolder[n] = @ \cup {b}, !.copies = d] =
                [objects |-> held, byHolder |-> [h EXCEPT ![n] = @ \cup {b}], copies |-> d,
                 transfers |-> t]
  <2>0. PICK h2 : h2 = [h EXCEPT ![n] = @ \cup {b}]
    OBVIOUS
  <2>1. PICK s1 : s1 = [s0 EXCEPT !.objects = held]
    OBVIOUS
  <2>2. s1 = [objects |-> held, byHolder |-> h, copies |-> c, transfers |-> t]
    BY <1>7, <2>1
  <2>3. PICK s2 : s2 = [s1 EXCEPT !.byHolder[n] = @ \cup {b}]
    OBVIOUS
  <2>4. s2 = [objects |-> held, byHolder |-> h2, copies |-> c,
              transfers |-> t]
    BY <2>0, <2>2, <2>3
  <2>5. [s2 EXCEPT !.copies = d] =
            [objects |-> held, byHolder |-> h2, copies |-> d,
             transfers |-> t]
    BY <2>4
  <2> QED  BY <2>0, <1>7, <2>1, <2>3, <2>5
<1>8. Stored(s, x) = [objects |-> Append(list, x),
                      byHolder |-> [HeldIn(O) EXCEPT ![n] = @ \cup {b}],
                      copies |-> CopiesOf(O) (+) SetToBag({b}), transfers |-> t]
  BY <1>4, <1>6, <1>7, Zenon
<1>9. Stored(s, x) = StoreOf(Append(list, x), t)
  <2>1. [HeldIn(O) EXCEPT ![n] = @ \cup {b}] = HeldIn(O \cup {<<n, b>>})
    BY HeldComes
  <2>2. CopiesOf(O) (+) SetToBag({b}) = CopiesOf(O \cup {<<n, b>>})
    BY <1>1, <1>2, CopyComes
  <2> QED  BY <1>3, <1>8, <2>1, <2>2 DEF StoreOf
<1>10. Transfers(t, Append(list, x))
  BY <1>2, <1>3, IndexedAre DEF Transfers
<1> QED  BY <1>5, <1>9, <1>10

\* An object that is forgotten.
LEMMA ForgottenIs ==
    ASSUME NEW list \in Seq(StoredObject), IsInjective(list), NEW t, Transfers(t, list),
           NEW x \in StoredObject, x \in ToSet(list)
    PROVE  \E D \in SUBSET DOMAIN t :
              /\ Forgotten(StoreOf(list, t), x) =
                    StoreOf(Dropped(list, x), [b \in D |-> t[b]])
              /\ Transfers([b \in D |-> t[b]], Dropped(list, x))
<1>1. PICK n \in Node, b \in TraceBlock : x = <<n, b>>
  BY DEF StoredObject
<1>2. PICK O : O = ToSet(list)
  OBVIOUS
<1>3. ToSet(Dropped(list, x)) = O \ {<<n, b>>}
  BY <1>1, <1>2, DroppedIs
<1>4. PICK s : s = [objects |-> list, byHolder |-> HeldIn(O), copies |-> CopiesOf(O),
                    transfers |-> t]
  OBVIOUS
<1>5. s = StoreOf(list, t)
  BY <1>2, <1>4 DEF StoreOf
<1>6. CopiesOf(O) (-) SetToBag({b}) = CopiesOf(O \ {<<n, b>>})
  BY <1>1, <1>2, CopyGoes
<1>7. PICK D \in SUBSET DOMAIN t :
          D = IF b \in DOMAIN CopiesOf(O \ {<<n, b>>}) THEN DOMAIN t ELSE DOMAIN t \ {b}
  OBVIOUS
<1>8. PICK rest : rest = [c \in D |-> t[c]]
  OBVIOUS
<1>9. t = [c \in DOMAIN t |-> t[c]] /\ DOMAIN t \subseteq DOMAIN CopiesOf(O)
  BY <1>2 DEF Transfers
<1>10. (IF b \in DOMAIN CopiesOf(O \ {<<n, b>>}) THEN t
        ELSE [c \in DOMAIN t \ {b} |-> t[c]]) = rest
  BY <1>7, <1>8, <1>9
<1>11. Forgotten(s, x) = [s EXCEPT !.objects = Dropped(list, x),
                                   !.byHolder[n] = @ \ {b},
                                   !.copies = CopiesOf(O \ {<<n, b>>}),
                                   !.transfers = rest]
  BY <1>1, <1>4, <1>6, <1>10, WithoutIs DEF Forgotten, BagIn, BagToSet
<1>12. ASSUME NEW l, NEW h, NEW c, NEW more, NEW d, NEW u,
              NEW s0, s0 = [objects |-> l, byHolder |-> h, copies |-> c, transfers |-> t]
       PROVE  [s0 EXCEPT !.objects = more, !.byHolder[n] = @ \ {b}, !.copies = d,
                         !.transfers = u] =
                [objects |-> more, byHolder |-> [h EXCEPT ![n] = @ \ {b}], copies |-> d,
                 transfers |-> u]
  <2>0. PICK h2 : h2 = [h EXCEPT ![n] = @ \ {b}]
    OBVIOUS
  <2>1. PICK s1 : s1 = [s0 EXCEPT !.objects = more]
    OBVIOUS
  <2>2. s1 = [objects |-> more, byHolder |-> h, copies |-> c, transfers |-> t]
    BY <1>12, <2>1
  <2>3. PICK s2 : s2 = [s1 EXCEPT !.byHolder[n] = @ \ {b}]
    OBVIOUS
  <2>4. s2 = [objects |-> more, byHolder |-> h2, copies |-> c,
              transfers |-> t]
    BY <2>0, <2>2, <2>3
  <2>5. PICK s3 : s3 = [s2 EXCEPT !.copies = d]
    OBVIOUS
  <2>6. s3 = [objects |-> more, byHolder |-> h2, copies |-> d,
              transfers |-> t]
    BY <2>4, <2>5
  <2>7. [s3 EXCEPT !.transfers = u] =
            [objects |-> more, byHolder |-> h2, copies |-> d,
             transfers |-> u]
    BY <2>6
  <2> QED  BY <2>0, <1>12, <2>1, <2>3, <2>5, <2>7
<1>13. Forgotten(s, x) = [objects |-> Dropped(list, x),
                          byHolder |-> [HeldIn(O) EXCEPT ![n] = @ \ {b}],
                          copies |-> CopiesOf(O \ {<<n, b>>}), transfers |-> rest]
  BY <1>4, <1>11, <1>12, Zenon
<1>14. Forgotten(s, x) = StoreOf(Dropped(list, x), rest)
  BY <1>3, <1>13, HeldGoes DEF StoreOf
<1>15. Transfers(rest, Dropped(list, x))
  <2>1. DOMAIN rest = D /\ rest = [c \in DOMAIN rest |-> rest[c]]
    BY <1>8
  <2>2. D \subseteq DOMAIN CopiesOf(O \ {<<n, b>>})
    BY <1>7, <1>9, IndexedAre
  <2> QED  BY <1>3, <2>1, <2>2 DEF Transfers
<1> QED  BY <1>5, <1>8, <1>14, <1>15

\* What is left of the transfer counts.
Rest(t, D) == [b \in D |-> t[b]]
Rests(t) == {Rest(t, D) : D \in SUBSET DOMAIN t}

\* r is the store of the list q, with what is left of t.
PlacedAs(r, q, t) ==
    \E u \in Rests(t) : /\ r = [store |-> StoreOf(q.list, u), inserted |-> q.fresh]
                        /\ Transfers(u, q.list)

\* One object placed in the store is one entry filed in its list; the transfer counts
\* that go are those of blocks that go.
LEMMA ObjectPlaces ==
    ASSUME NEW capacity \in Nat \ {0}, NEW list \in Seq(StoredObject), IsInjective(list),
           NEW t, Transfers(t, list), NEW fresh, NEW x \in StoredObject
    PROVE  PlacedAs(PlaceObject([store |-> StoreOf(list, t), inserted |-> fresh], x, capacity),
                    Filed([list |-> list, fresh |-> fresh], x, capacity), t)
<1>1. PICK n \in Nat : n = Len(list) /\ DOMAIN list = 1..n
  OBVIOUS
<1>2. PICK old : old = {i \in 1..n : list[i] \notin fresh}
  OBVIOUS
<1>3. PICK q : q = Filed([list |-> list, fresh |-> fresh], x, capacity)
  OBVIOUS
<1>4. q = IF Contains(list, x) THEN [list |-> Append(Dropped(list, x), x), fresh |-> fresh]
          ELSE IF n >= capacity /\ old = {} THEN [list |-> list, fresh |-> fresh]
          ELSE [list  |-> Append(IF n >= capacity THEN Dropped(list, list[Min(old)])
                                 ELSE list, x),
                fresh |-> fresh \cup {x}]
  <2>1. PICK st : st = [list |-> list, fresh |-> fresh]
    OBVIOUS
  <2>2. st.list = list /\ st.fresh = fresh
    BY <2>1
  <2>3. [st EXCEPT !.list = Append(Dropped(list, x), x)] =
           [list |-> Append(Dropped(list, x), x), fresh |-> fresh]
    <3>1. ASSUME NEW m PROVE [[list |-> list, fresh |-> fresh] EXCEPT !.list = m] =
                                 [list |-> m, fresh |-> fresh]
      OBVIOUS
    <3> QED  BY <2>1, <3>1
  <2> QED  BY <1>1, <1>2, <1>3, <2>1, <2>2, <2>3 DEF Filed
<1>5. Contains(list, x) <=> x \in ToSet(list)
  BY <1>1 DEF Contains, ToSet
<1>6. t \in Rests(t)
  BY DEF Transfers, Rests, Rest
<1>7. PICK s : s = StoreOf(list, t)
  OBVIOUS
<1>8. s = [objects |-> list, byHolder |-> HeldIn(ToSet(list)), copies |-> CopiesOf(ToSet(list)),
           transfers |-> t]
  BY <1>7 DEF StoreOf
<1>9. PICK st : st = [store |-> s, inserted |-> fresh]
  OBVIOUS
<1>10. st.store = s /\ st.inserted = fresh /\ s.objects = list
  BY <1>8, <1>9
<1>11. PlaceObject(st, x, capacity) =
          IF Contains(list, x) THEN [st EXCEPT !.store = Refreshed(s, x)]
          ELSE IF n >= capacity /\ old = {} THEN st
          ELSE [store    |-> Stored(IF n >= capacity THEN Forgotten(s, list[Min(old)]) ELSE s, x),
                inserted |-> fresh \cup {x}]
  BY <1>1, <1>2, <1>10 DEF PlaceObject
<1>12. CASE x \in ToSet(list)
  <2>1. PICK moved : moved = Append(Dropped(list, x), x)
    OBVIOUS
  <2>2. ToSet(moved) = ToSet(list)
    <3>1. Dropped(list, x) \in Seq(StoredObject) /\ ToSet(Dropped(list, x)) = ToSet(list) \ {x}
      BY DroppedIs
    <3>2. ToSet(moved) = ToSet(Dropped(list, x)) \cup {x}
      BY <2>1, <3>1, AppendIs
    <3> QED  BY <1>12, <3>1, <3>2
  <2>3. Refreshed(s, x) = [s EXCEPT !.objects = moved]
    BY <1>10, <2>1, WithoutIs DEF Refreshed, MovedToEnd
  <2>4. [s EXCEPT !.objects = moved] = StoreOf(moved, t)
    BY <1>8, <2>2 DEF StoreOf
  <2>5. [st EXCEPT !.store = Refreshed(s, x)] = [store |-> StoreOf(moved, t), inserted |-> fresh]
    BY <1>9, <2>3, <2>4
  <2>6. q.list = moved /\ q.fresh = fresh
    BY <1>4, <1>5, <1>12, <2>1
  <2>7. Transfers(t, moved)
    BY <2>2 DEF Transfers
  <2> QED  BY <1>3, <1>5, <1>6, <1>7, <1>9, <1>11, <1>12, <2>5, <2>6, <2>7 DEF PlacedAs
<1>13. CASE x \notin ToSet(list) /\ n >= capacity /\ old = {}
  <2>1. q.list = list /\ q.fresh = fresh
    BY <1>4, <1>5, <1>13
  <2>2. PlaceObject(st, x, capacity) = [store |-> StoreOf(list, t), inserted |-> fresh]
    BY <1>5, <1>7, <1>9, <1>11, <1>13
  <2> QED  BY <1>3, <1>6, <1>7, <1>9, <2>1, <2>2 DEF PlacedAs
<1>14. CASE x \notin ToSet(list) /\ n >= capacity /\ old # {}
  <2>1. PICK v : v = list[Min(old)]
    OBVIOUS
  <2>2. v \in ToSet(list) /\ v \in StoredObject
    <3>1. old \subseteq 1..n /\ IsFiniteSet(old)
      <4>1. IsFiniteSet(1..n) /\ old \in SUBSET (1..n)
        BY <1>2, UpToIs
      <4> QED  BY <4>1, FS_Subset
    <3>2. old \subseteq Int
      BY <3>1
    <3>3. \E m \in old : \A i \in old : m <= i
      BY <1>14, <3>1, <3>2, LeastExists
    <3>4. Min(old) \in old
      BY <3>3 DEF Min
    <3>5. PICK i \in 1..n : v = list[i]
      BY <2>1, <3>1, <3>4
    <3> QED  BY <1>1, <3>5 DEF ToSet
  <2>3. PICK less : less = Dropped(list, v)
    OBVIOUS
  <2>4. less \in Seq(StoredObject) /\ IsInjective(less) /\ x \notin ToSet(less)
    BY <1>14, <2>3, DroppedIs
  <2>5. PICK D \in SUBSET DOMAIN t : /\ Forgotten(s, v) = StoreOf(less, [b \in D |-> t[b]])
                                     /\ Transfers([b \in D |-> t[b]], less)
    BY <1>7, <2>2, <2>3, ForgottenIs
  <2>6. PICK rest : rest = [b \in D |-> t[b]]
    OBVIOUS
  <2>7. Stored(StoreOf(less, rest), x) = StoreOf(Append(less, x), rest)
        /\ Transfers(rest, Append(less, x))
    BY <2>4, <2>5, <2>6, StoredIs
  <2>8. PlaceObject(st, x, capacity) =
           [store |-> StoreOf(Append(less, x), rest), inserted |-> fresh \cup {x}]
    BY <1>5, <1>11, <1>14, <2>1, <2>5, <2>6, <2>7
  <2>9. q.list = Append(less, x) /\ q.fresh = fresh \cup {x}
    BY <1>4, <1>5, <1>14, <2>1, <2>3
  <2>10. rest \in Rests(t)
    BY <2>5, <2>6 DEF Rests, Rest
  <2> QED  BY <1>3, <1>7, <1>9, <2>7, <2>8, <2>9, <2>10 DEF PlacedAs
<1>15. CASE x \notin ToSet(list) /\ ~(n >= capacity)
  <2>1. Stored(s, x) = StoreOf(Append(list, x), t) /\ Transfers(t, Append(list, x))
    BY <1>7, <1>15, StoredIs
  <2>2. PlaceObject(st, x, capacity) =
           [store |-> StoreOf(Append(list, x), t), inserted |-> fresh \cup {x}]
    BY <1>5, <1>11, <1>15, <2>1
  <2>3. q.list = Append(list, x) /\ q.fresh = fresh \cup {x}
    BY <1>4, <1>5, <1>15
  <2> QED  BY <1>3, <1>6, <1>7, <1>9, <2>1, <2>2, <2>3 DEF PlacedAs
<1> QED  BY <1>12, <1>13, <1>14, <1>15


\* The stores that placing may come to, from transfer counts t.
ObjectLists(capacity) == {l \in Seq(StoredObject) : IsInjective(l) /\ Len(l) <= capacity}
StoreStates(t, capacity) ==
    {st \in [store : {StoreOf(l, u) : l \in ObjectLists(capacity), u \in Rests(t)},
             inserted : SUBSET StoredObject] :
        \E l \in ObjectLists(capacity), u \in Rests(t) :
            st.store = StoreOf(l, u) /\ Transfers(u, l)}

AsList(st) == [list |-> st.store.objects, fresh |-> st.inserted]

LEMMA RestOfRest == ASSUME NEW t, NEW u \in Rests(t), NEW w \in Rests(u) PROVE w \in Rests(t)
<1>1. PICK E \in SUBSET DOMAIN t : u = [b \in E |-> t[b]]
  BY DEF Rests, Rest
<1>2. PICK D \in SUBSET E : w = [b \in D |-> u[b]]
  <2>1. DOMAIN u = E
    BY <1>1
  <2> QED  BY <2>1 DEF Rests, Rest
<1>3. w = [b \in D |-> t[b]]
  BY <1>1, <1>2
<1> QED  BY <1>3 DEF Rests, Rest

\* Placing one object.
LEMMA StoreSteps ==
    ASSUME NEW capacity \in Nat \ {0}, NEW t, NEW st \in StoreStates(t, capacity),
           NEW x \in StoredObject
    PROVE  LET r == PlaceObject(st, x, capacity)
           IN  /\ r \in StoreStates(t, capacity)
               /\ AsList(r) = Filed(AsList(st), x, capacity)
<1>1. PICK l \in ObjectLists(capacity), u \in Rests(t) :
          st.store = StoreOf(l, u) /\ Transfers(u, l)
  BY DEF StoreStates
<1>2. PICK fresh \in SUBSET StoredObject :
          st = [store |-> StoreOf(l, u), inserted |-> fresh]
  BY <1>1 DEF StoreStates
<1>3. l \in Seq(StoredObject) /\ IsInjective(l) /\ Len(l) <= capacity
  BY DEF ObjectLists
<1>4. PICK q : q = Filed([list |-> l, fresh |-> fresh], x, capacity)
  OBVIOUS
<1>5. PICK r : r = PlaceObject(st, x, capacity)
  OBVIOUS
<1>6. PlacedAs(r, q, u)
  BY <1>1, <1>2, <1>3, <1>4, <1>5, ObjectPlaces
<1>7. /\ q = [list |-> q.list, fresh |-> q.fresh]
      /\ q.list \in Seq(StoredObject) /\ IsInjective(q.list) /\ Len(q.list) <= capacity
      /\ q.fresh \subseteq fresh \cup {x}
  BY <1>3, <1>4, FiledFits
<1>8. q.list \in ObjectLists(capacity) /\ q.fresh \in SUBSET StoredObject
  BY <1>7 DEF ObjectLists
<1>9. PICK w \in Rests(u) : /\ r = [store |-> StoreOf(q.list, w), inserted |-> q.fresh]
                            /\ Transfers(w, q.list)
  BY <1>6 DEF PlacedAs
<1>10. w \in Rests(t)
  BY RestOfRest
<1>11. r.store = StoreOf(q.list, w) /\ r.inserted = q.fresh
  BY <1>9
<1>12. r \in StoreStates(t, capacity)
  BY <1>8, <1>9, <1>10, <1>11 DEF StoreStates
<1>13. AsList(r) = q
  <2>1. r.store.objects = q.list
    BY <1>11 DEF StoreOf
  <2> QED  BY <1>7, <1>11, <2>1 DEF AsList
<1>14. AsList(st) = [list |-> l, fresh |-> fresh]
  <2>1. StoreOf(l, u).objects = l
    BY DEF StoreOf
  <2> QED  BY <1>2, <2>1 DEF AsList
<1> QED  BY <1>4, <1>5, <1>12, <1>13, <1>14

\* The recursion of place in the store.
StoreRec(f, s, capacity, node, prompt) ==
    f = [i \in 0..Len(prompt.blocks) |->
            IF i = 0 THEN [store |-> s, inserted |-> {}]
            ELSE PlaceObject(f[i - 1], <<node, prompt.blocks[i]>>, capacity)]

\* A prompt that fits in the store is all in it after place, under the node that
\* placed it; the store keeps to its capacity and its indices to its objects.
LEMMA StoreKeeps ==
    ASSUME NEW capacity \in Nat \ {0}, NEW s, StoreFits(s, capacity), NEW node \in Node,
           NEW prompt, prompt.blocks \in Seq(TraceBlock), IsInjective(prompt.blocks)
    PROVE  LET r == StorePlaced(s, capacity, node, prompt)
           IN  /\ StoreFits(r, capacity)
               /\ Len(prompt.blocks) <= capacity =>
                      ToSet(prompt.blocks) \subseteq r.byHolder[node]
<1>1. PICK p : p = prompt.blocks
  OBVIOUS
<1>2. p \in Seq(TraceBlock) /\ IsInjective(p)
  BY <1>1
<1>3. PICK n \in Nat : n = Len(p) /\ DOMAIN p = 1..n
  BY <1>2
<1>4. PICK list \in Seq(StoredObject) :
          \E t : /\ IsInjective(list) /\ Len(list) <= capacity /\ Transfers(t, list)
                 /\ s = StoreOf(list, t)
  BY DEF StoreFits
<1>5. PICK t : Transfers(t, list) /\ s = StoreOf(list, t)
  BY <1>4
<1>6. PICK x : x = [i \in 1..n |-> <<node, p[i]>>]
  OBVIOUS
<1>7. /\ x \in Seq(StoredObject) /\ IsInjective(x) /\ Len(x) = n
      /\ \A i \in 1..n : x[i] = <<node, p[i]>> /\ x[i] \in StoredObject
  <2>1. \A i \in 1..n : p[i] \in TraceBlock
    BY <1>2, <1>3
  <2>2. \A i \in 1..n : x[i] = <<node, p[i]>> /\ x[i] \in StoredObject
    BY <1>6, <2>1 DEF StoredObject
  <2>3. DOMAIN x = 1..n
    BY <1>6
  <2>4. IsInjective(x)
    <3>1. ASSUME NEW i \in 1..n, NEW j \in 1..n, x[i] = x[j] PROVE i = j
      <4>1. p[i] = p[j]
        BY <2>2, <3>1
      <4> QED  BY <1>2, <1>3, <4>1 DEF IsInjective
    <3> QED  BY <2>3, <3>1 DEF IsInjective
  <2>5. x \in Seq(StoredObject) /\ Len(x) = n
    <3>1. x \in [1..n -> StoredObject]
      BY <1>6, <2>2
    <3> QED  BY <2>3, <3>1
  <2> QED  BY <2>2, <2>4, <2>5
<1> DEFINE Good == StoreStates(t, capacity)
           start == [store |-> s, inserted |-> {}]
           step == [q \in (1..n) \X Good |-> PlaceObject(q[2], x[q[1]], capacity)]
<1>8. start \in Good
  <2>1. list \in ObjectLists(capacity)
    BY <1>4 DEF ObjectLists
  <2>2. t \in Rests(t)
    BY <1>5 DEF Transfers, Rests, Rest
  <2> QED  BY <1>5, <2>1, <2>2 DEF StoreStates
<1>9. ASSUME NEW i \in 1..n, NEW st \in Good
      PROVE  /\ PlaceObject(st, x[i], capacity) \in Good
             /\ step[<<i, st>>] = PlaceObject(st, x[i], capacity)
             /\ AsList(PlaceObject(st, x[i], capacity)) = Filed(AsList(st), x[i], capacity)
  <2>1. x[i] \in StoredObject
    BY <1>7
  <2>2. /\ PlaceObject(st, x[i], capacity) \in Good
        /\ AsList(PlaceObject(st, x[i], capacity)) = Filed(AsList(st), x[i], capacity)
    BY <2>1, StoreSteps
  <2>3. step[<<i, st>>] = PlaceObject(st, x[i], capacity)
    <3> HIDE DEF Good
    <3>1. <<i, st>> \in (1..n) \X Good
      OBVIOUS
    <3> QED  BY <3>1
  <2> QED  BY <2>2, <2>3
<1> HIDE DEF start, step, Good
<1>10. PICK f : Stepwise(f, n, start, step)
  BY StepsAreDefined
<1>11. f = [i \in 0..n |-> IF i = 0 THEN start ELSE step[<<i, f[i - 1]>>]]
  BY <1>10 DEF Stepwise
<1>12. f[0] = start /\ \A i \in 1..n : f[i] = step[<<i, f[i - 1]>>]
  BY <1>11
<1>13. \A i \in 0..n : f[i] \in Good
  <2>1. ASSUME NEW i \in 1..n, f[i - 1] \in Good PROVE f[i] \in Good
    <3>1. PICK st : st = f[i - 1]
      OBVIOUS
    <3>2. step[<<i, st>>] \in Good
      BY <1>9, <2>1, <3>1
    <3> QED  BY <1>12, <3>1, <3>2
  <2> QED  BY <1>8, <1>12, <2>1, StepsStay
<1>14. ASSUME NEW i \in 1..n
       PROVE  /\ f[i] = PlaceObject(f[i - 1], x[i], capacity)
              /\ AsList(f[i]) = Filed(AsList(f[i - 1]), x[i], capacity)
  <2>1. i - 1 \in 0..n
    OBVIOUS
  <2>2. f[i - 1] \in Good
    BY <1>13, <2>1
  <2> QED  BY <1>9, <1>12, <2>2, ZenonT(40)
<1>15. StoreRec(f, s, capacity, node, prompt)
  <2>1. ASSUME NEW i \in 0..n
        PROVE  f[i] = IF i = 0 THEN [store |-> s, inserted |-> {}]
                      ELSE PlaceObject(f[i - 1], <<node, p[i]>>, capacity)
    <3>1. CASE i = 0
      BY <1>12, <3>1 DEF start
    <3>2. CASE i # 0
      <4>1. i \in 1..n
        BY <3>2
      <4> QED  BY <1>7, <1>14, <3>2, <4>1
    <3> QED  BY <3>1, <3>2
  <2>2. f = [i \in 0..n |-> IF i = 0 THEN [store |-> s, inserted |-> {}]
                            ELSE PlaceObject(f[i - 1], <<node, p[i]>>, capacity)]
    BY <1>11, <2>1
  <2> QED  BY <1>1, <1>3, <2>2 DEF StoreRec
<1>16. PICK h : h = CHOOSE y : StoreRec(y, s, capacity, node, prompt)
  OBVIOUS
<1>17. h = [i \in 0..n |-> IF i = 0 THEN [store |-> s, inserted |-> {}]
                           ELSE PlaceObject(h[i - 1], <<node, p[i]>>, capacity)]
  <2>1. StoreRec(h, s, capacity, node, prompt)
    BY <1>15, <1>16
  <2> QED  BY <1>1, <1>3, <2>1 DEF StoreRec
<1>18. h[0] = [store |-> s, inserted |-> {}]
  <2>1. 0 \in 0..n
    OBVIOUS
  <2> QED  BY <1>17, <2>1
<1>19. \A i \in 1..n : h[i] = PlaceObject(h[i - 1], x[i], capacity)
  <2>1. \A i \in 1..n : i \in 0..n /\ i # 0
    OBVIOUS
  <2> QED  BY <1>7, <1>17, <2>1
<1>20. f[n] = h[n]
  <2>1. f[0] = h[0]
    BY <1>12, <1>18 DEF start
  <2>2. InStep(f, h, n)
    BY <1>14, <1>19, <2>1 DEF InStep
  <2> QED  BY <2>2, StepsAgree
<1>21. StorePlaced(s, capacity, node, prompt) = h[n].store
  BY <1>1, <1>3, <1>16 DEF StorePlaced, StoreRec
<1>22. PICK g : g = [i \in 0..n |-> AsList(f[i])]
  OBVIOUS
<1>23. Filing(g, list, x, capacity)
  <2>1. g[0] = [list |-> list, fresh |-> {}]
    <3>1. g[0] = AsList(start)
      BY <1>12, <1>22
    <3>2. start.store = StoreOf(list, t) /\ start.inserted = {}
      BY <1>5 DEF start
    <3>3. StoreOf(list, t).objects = list
      BY DEF StoreOf
    <3> QED  BY <3>1, <3>2, <3>3 DEF AsList
  <2>2. \A i \in 1..n : g[i] = Filed(g[i - 1], x[i], capacity)
    <3>1. ASSUME NEW i \in 1..n PROVE g[i] = Filed(g[i - 1], x[i], capacity)
      <4>1. i \in 0..n /\ i - 1 \in 0..n
        OBVIOUS
      <4>2. g[i] = AsList(f[i]) /\ g[i - 1] = AsList(f[i - 1])
        BY <1>22, <4>1
      <4> QED  BY <1>14, <4>2
    <3> QED  BY <3>1
  <2> QED  BY <1>7, <2>1, <2>2 DEF Filing
<1>24. n <= capacity => ToSet(x) \subseteq ToSet(g[n].list)
  BY <1>4, <1>7, <1>23, AllFiled
<1>25. PICK l \in ObjectLists(capacity), u \in Rests(t) :
           f[n].store = StoreOf(l, u) /\ Transfers(u, l)
  <2>1. f[n] \in Good
    BY <1>13
  <2> QED  BY <2>1 DEF Good, StoreStates
<1>26. StorePlaced(s, capacity, node, prompt) = StoreOf(l, u)
  BY <1>20, <1>21, <1>25
<1>27. l = g[n].list
  <2>1. StoreOf(l, u).objects = l
    BY DEF StoreOf
  <2>2. g[n] = AsList(f[n])
    BY <1>22
  <2> QED  BY <1>25, <2>1, <2>2 DEF AsList
<1>28. StoreFits(StoreOf(l, u), capacity)
  BY <1>25 DEF StoreFits, ObjectLists
<1>29. ASSUME n <= capacity, NEW b \in ToSet(p) PROVE b \in StoreOf(l, u).byHolder[node]
  <2>1. PICK i \in 1..n : b = p[i]
    BY <1>3 DEF ToSet
  <2>2. x[i] \in ToSet(x)
    <3>1. DOMAIN x = 1..n
      BY <1>6
    <3> QED  BY <3>1 DEF ToSet
  <2>3. <<node, b>> \in ToSet(l) /\ b \in TraceBlock
    <3>1. x[i] = <<node, b>>
      BY <1>7, <2>1
    <3>2. x[i] \in ToSet(l)
      BY <1>24, <1>27, <1>29, <2>2
    <3>3. p[i] \in TraceBlock
      BY <1>2, <1>3
    <3> QED  BY <2>1, <3>1, <3>2, <3>3
  <2>4. StoreOf(l, u).byHolder = HeldIn(ToSet(l))
    BY DEF StoreOf
  <2> QED  BY <2>3, <2>4 DEF HeldIn
<1> QED  BY <1>1, <1>3, <1>26, <1>28, <1>29

\* What indexes the store is what is in it.
LEMMA FitsAgrees ==
    ASSUME NEW capacity, NEW s, StoreFits(s, capacity)
    PROVE  IndexesAgree(s, capacity)
<1>1. PICK list \in Seq(StoredObject) :
          \E t : /\ IsInjective(list) /\ Len(list) <= capacity /\ Transfers(t, list)
                 /\ s = StoreOf(list, t)
  BY DEF StoreFits
<1>2. PICK t : Transfers(t, list) /\ s = StoreOf(list, t)
  BY <1>1
<1>3. PICK O : O = ToSet(list)
  OBVIOUS
<1>4. /\ s.objects = list /\ s.byHolder = HeldIn(O) /\ s.copies = CopiesOf(O)
      /\ s.transfers = t
  BY <1>2, <1>3 DEF StoreOf
<1>5. \A n \in Node : \A b : <<n, b>> \in O => b \in DOMAIN CopiesOf(O) /\ b \in TraceBlock
  <2>1. ASSUME NEW n \in Node, NEW b, <<n, b>> \in O
        PROVE  b \in DOMAIN CopiesOf(O) /\ b \in TraceBlock
    <3>1. PICK i \in DOMAIN list : <<n, b>> = list[i]
      BY <1>3, <2>1 DEF ToSet
    <3>2. <<n, b>> \in StoredObject
      BY <3>1
    <3>3. b \in TraceBlock
      BY <3>2 DEF StoredObject
    <3> QED  BY <2>1, <3>3, IndexedAre
  <2> QED  BY <2>1
<1>6. \A o : Contains(list, o) <=> o \in O
  BY <1>3 DEF Contains, ToSet
<1>7. ASSUME NEW n \in Node
      PROVE  s.byHolder[n] = {b \in BagToSet(s.copies) : Contains(s.objects, <<n, b>>)}
  <2>1. s.byHolder[n] = {b \in TraceBlock : <<n, b>> \in O}
    BY <1>4 DEF HeldIn
  <2> QED  BY <1>4, <1>5, <1>6, <2>1 DEF BagToSet
<1>8. ASSUME NEW o \in ToSet(s.objects) PROVE BagIn(o[2], s.copies)
  <2>1. o \in O /\ o \in StoredObject
    BY <1>3, <1>4 DEF ToSet
  <2>2. PICK n \in Node, b \in TraceBlock : o = <<n, b>>
    BY <2>1 DEF StoredObject
  <2> QED  BY <1>4, <1>5, <2>1, <2>2 DEF BagIn, BagToSet
<1>9. ASSUME NEW b \in BagToSet(s.copies)
      PROVE  s.copies[b] = Cardinality({n \in Node : b \in s.byHolder[n]})
  <2>1. b \in DOMAIN CopiesOf(O)
    BY <1>4 DEF BagToSet
  <2>2. b \in TraceBlock /\ s.copies[b] = Cardinality(HoldersIn(O, b))
    BY <1>4, <2>1 DEF CopiesOf
  <2>3. HoldersIn(O, b) = {n \in Node : b \in s.byHolder[n]}
    BY <1>4, <2>2 DEF HoldersIn, HeldIn
  <2> QED  BY <2>2, <2>3
<1>10. BagToSet(s.transfers) \subseteq BagToSet(s.copies)
  BY <1>2, <1>3, <1>4 DEF BagToSet, Transfers
<1>11. Len(s.objects) <= capacity /\ IsInjective(s.objects)
  BY <1>1, <1>4
<1> QED  BY <1>7, <1>8, <1>9, <1>10, <1>11 DEF IndexesAgree

\* At first the tiers are empty.
LEMMA NothingHeld ==
    ASSUME NEW capacity \in Nat \ {0}
    PROVE  LruFits(NoBlocks, capacity) /\ StoreFits(EmptyStore, capacity)
<1>1. <<>> \in Seq(TraceBlock) /\ <<>> \in Seq(StoredObject) /\ Len(<<>>) = 0
  OBVIOUS
<1>2. IsInjective(<<>>) /\ ToSet(<<>>) = {}
  BY DEF IsInjective, ToSet
<1>3. NoBlocks = Lru(<<>>)
  BY <1>2 DEF NoBlocks, EmptyCache, Lru
<1>4. PICK none : none = <<>>
  OBVIOUS
<1>5. /\ none \in Seq(TraceBlock) /\ none \in Seq(StoredObject) /\ IsInjective(none)
       /\ Len(none) <= capacity /\ NoBlocks = Lru(none)
  BY <1>1, <1>2, <1>3, <1>4
<1>6. LruFits(NoBlocks, capacity)
  BY <1>5 DEF LruFits
<1>7. HeldIn({}) = [n \in Node |-> {}]
  BY DEF HeldIn
<1>8. CopiesOf({}) = EmptyBag /\ DOMAIN EmptyBag = {}
  <2>1. \A b : HoldersIn({}, b) = {}
    BY DEF HoldersIn
  <2>2. {c \in TraceBlock : HoldersIn({}, c) # {}} = {}
    BY <2>1
  <2> QED  BY <2>2 DEF CopiesOf, EmptyBag, SetToBag
<1>9. EmptyStore = StoreOf(<<>>, EmptyBag)
  BY <1>2, <1>7, <1>8 DEF EmptyStore, StoreOf
<1>10. Transfers(EmptyBag, <<>>)
  <2>1. EmptyBag = [b \in DOMAIN EmptyBag |-> EmptyBag[b]]
    BY DEF EmptyBag, SetToBag
  <2> QED  BY <1>2, <1>8, <2>1 DEF Transfers
<1>11. Transfers(EmptyBag, none) /\ EmptyStore = StoreOf(none, EmptyBag)
  BY <1>9, <1>10, <1>4
<1> QED  BY <1>6, <1>5, <1>11 DEF StoreFits

\* Blocks of the store may be transferred.
LEMMA TransferredFits ==
    ASSUME NEW capacity, NEW s, StoreFits(s, capacity), NEW prompt, NEW blocks,
           \A i \in 1..blocks : prompt.blocks[i] \in DOMAIN s.copies
    PROVE  StoreFits(Transferred(s, prompt, blocks), capacity)
<1>1. PICK list \in Seq(StoredObject) :
          \E t : /\ IsInjective(list) /\ Len(list) <= capacity /\ Transfers(t, list)
                 /\ s = StoreOf(list, t)
  BY DEF StoreFits
<1>2. PICK t : Transfers(t, list) /\ s = StoreOf(list, t)
  BY <1>1
<1>3. PICK moved : moved = {prompt.blocks[i] : i \in 1..blocks}
  OBVIOUS
<1>4. PICK u : u = t (+) SetToBag(moved)
  OBVIOUS
<1>5. DOMAIN u = DOMAIN t \cup moved /\ u = [b \in DOMAIN u |-> u[b]]
  BY <1>4 DEF (+), SetToBag
<1>6. s.copies = CopiesOf(ToSet(list)) /\ s.transfers = t
  BY <1>2 DEF StoreOf
<1>7. moved \subseteq DOMAIN CopiesOf(ToSet(list))
  BY <1>3, <1>6
<1>8. Transfers(u, list)
  BY <1>2, <1>5, <1>7 DEF Transfers
<1>9. Transferred(s, prompt, blocks) = StoreOf(list, u)
  <2>1. Transferred(s, prompt, blocks) = [s EXCEPT !.transfers = u]
    BY <1>3, <1>4, <1>6 DEF Transferred
  <2> QED  BY <1>2, <2>1 DEF StoreOf
<1> QED  BY <1>1, <1>8, <1>9 DEF StoreFits

\* A block that a holder has is in the store.
LEMMA HeldIsIndexed ==
    ASSUME NEW capacity, NEW s, StoreFits(s, capacity), NEW n \in Node, NEW b \in s.byHolder[n]
    PROVE  b \in DOMAIN s.copies
<1>1. PICK list \in Seq(StoredObject) : \E t : s = StoreOf(list, t)
  BY DEF StoreFits
<1>2. s.byHolder = HeldIn(ToSet(list)) /\ s.copies = CopiesOf(ToSet(list))
  BY <1>1 DEF StoreOf
<1>3. b \in TraceBlock /\ <<n, b>> \in ToSet(list)
  BY <1>2 DEF HeldIn
<1> QED  BY <1>2, <1>3, IndexedAre

-----------------------------------------------------------------------------
\* What a node finds of a prompt of the trace.

LEMMA TracePrompt ==
    ASSUME NEW prompt \in KvsPrompt
    PROVE  /\ prompt.blocks \in Seq(TraceBlock) /\ IsInjective(prompt.blocks)
           /\ prompt.sizes \in Seq(Nat) /\ Len(prompt.sizes) = Len(prompt.blocks)
BY KvsAssumption

\* The tokens of a prompt are those of its parts.
LEMMA TokensAre ==
    ASSUME NEW prompt \in KvsPrompt, NEW n \in Nat, n = Len(prompt.blocks),
           NEW own \in 0..n, NEW near \in own..n, NEW far \in near..n
    PROVE  /\ Tokens(prompt, 0, own) \in Nat /\ Tokens(prompt, own, near) \in Nat
           /\ Tokens(prompt, near, far) \in Nat /\ Tokens(prompt, far, n) \in Nat
           /\ InputTokens(prompt) = Tokens(prompt, 0, own) + Tokens(prompt, own, near)
                                  + Tokens(prompt, near, far) + Tokens(prompt, far, n)
           /\ near = far => Tokens(prompt, near, far) = 0
<1>1. PICK f : f = prompt.sizes
  OBVIOUS
<1>3. \A a, b : Tokens(prompt, a, b) = SumFunctionOnSet(f, (a + 1)..b)
  BY <1>1 DEF Tokens
<1>0. \A a \in 0..n : \A b \in a..n : \A c \in b..n :
         /\ SumFunctionOnSet(f, (a + 1)..b) \in Nat
         /\ SumFunctionOnSet(f, (a + 1)..c)
              = SumFunctionOnSet(f, (a + 1)..b) + SumFunctionOnSet(f, (b + 1)..c)
  <2>1. f \in [1..n -> Nat]
    BY <1>1, TracePrompt
  <2> QED  BY <2>1, SumOfParts DEF SumsAddUp
<1>4. ASSUME NEW a \in 0..n, NEW b \in a..n
      PROVE  /\ Tokens(prompt, a, b) \in Nat
             /\ Tokens(prompt, a, n) = Tokens(prompt, a, b) + Tokens(prompt, b, n)
  <2>1. n \in b..n
    OBVIOUS
  <2>2. /\ SumFunctionOnSet(f, (a + 1)..b) \in Nat
        /\ SumFunctionOnSet(f, (a + 1)..n)
             = SumFunctionOnSet(f, (a + 1)..b) + SumFunctionOnSet(f, (b + 1)..n)
    BY <1>0, <2>1
  <2> QED  BY <1>3, <2>2
<1>5. /\ 0 \in 0..n /\ own \in 0..n /\ near \in 0..n /\ far \in 0..n
      /\ own \in 0..n /\ near \in own..n /\ far \in near..n /\ n \in far..n
  OBVIOUS
<1>6. /\ Tokens(prompt, 0, own) \in Nat /\ Tokens(prompt, own, near) \in Nat
      /\ Tokens(prompt, near, far) \in Nat /\ Tokens(prompt, far, n) \in Nat
  BY <1>4, <1>5
<1>7. /\ Tokens(prompt, 0, n) = Tokens(prompt, 0, own) + Tokens(prompt, own, n)
      /\ Tokens(prompt, own, n) = Tokens(prompt, own, near) + Tokens(prompt, near, n)
      /\ Tokens(prompt, near, n) = Tokens(prompt, near, far) + Tokens(prompt, far, n)
  BY <1>4, <1>5
<1>8. InputTokens(prompt) = Tokens(prompt, 0, n)
  BY TracePrompt DEF InputTokens
<1>9. ASSUME near = far PROVE Tokens(prompt, near, far) = 0
  <2>1. (near + 1)..far = {}
    BY <1>9
  <2> QED  BY <1>3, <2>1, SumOfNone
<1> QED  BY <1>6, <1>7, <1>8, <1>9

\* The longest prefix that another holder has, and such a holder.
LEMMA ForeignIs ==
    ASSUME NEW s, NEW node \in Node, NEW prompt \in KvsPrompt, NEW n \in Nat,
           n = Len(prompt.blocks)
    PROVE  /\ ForeignHit(s, node, prompt) \in 0..n
           /\ ForeignHit(s, node, prompt) > 0 =>
                  \E h \in Node : \A i \in 1..ForeignHit(s, node, prompt) :
                      prompt.blocks[i] \in s.byHolder[h]
<1>1. PICK hits : hits = [h \in Node |-> HitBlocks(s.byHolder[h], prompt.blocks)]
  OBVIOUS
<1>2. ASSUME NEW h \in Node
      PROVE  /\ hits[h] \in 0..n
             /\ \A i \in 1..hits[h] : prompt.blocks[i] \in s.byHolder[h]
  <2>1. PICK there : there = s.byHolder[h]
    OBVIOUS
  <2>2. prompt.blocks \in Seq(TraceBlock)
    BY TracePrompt
  <2>3. /\ HitBlocks(there, prompt.blocks) \in 0..n
        /\ \A i \in 1..HitBlocks(there, prompt.blocks) : prompt.blocks[i] \in there
    BY <2>2, HitsAre
  <2>4. hits[h] = HitBlocks(there, prompt.blocks)
    BY <1>1, <2>1
  <2> QED  BY <2>1, <2>3, <2>4
<1>3. PICK others : others = {hits[h] : h \in Node \ {node}}
  OBVIOUS
<1>4. IsFiniteSet({0} \cup others)
  <2>1. IsFiniteSet(Node \ {node})
    BY StoreAssumption, FS_Subset
  <2>2. IsFiniteSet(others)
    BY <1>3, <2>1, ImageIsFinite
  <2> QED  BY <2>2, FS_AddElement
<1>5. PICK m : m = ForeignHit(s, node, prompt)
  OBVIOUS
<1>6. m = Max({0} \cup others)
  <2>1. {HitBlocks(s.byHolder[h], prompt.blocks) : h \in Node \ {node}} = others
    BY <1>1, <1>3
  <2> QED  BY <1>5, <2>1 DEF ForeignHit
<1>7. m \in {0} \cup others
  <2>1. {0} \cup others # {} /\ {0} \cup others \subseteq Int
    BY <1>2, <1>3
  <2> QED  BY <1>4, <1>6, <2>1, MaxIs
<1>8. m \in 0..n
  BY <1>2, <1>3, <1>7
<1>9. ASSUME m > 0
      PROVE  \E h \in Node : \A i \in 1..m : prompt.blocks[i] \in s.byHolder[h]
  <2>1. PICK h \in Node : m = hits[h]
    BY <1>3, <1>7, <1>9
  <2> QED  BY <1>2, <2>1
<1> QED  BY <1>5, <1>8, <1>9

\* A sound observation splits the whole prompt, and what is to be migrated is in the
\* store.
Split(o, prompt) ==
    /\ o.hbm \in Nat /\ o.dram \in Nat /\ o.remote \in Nat /\ o.recompute \in Nat
    /\ InputTokens(prompt) = o.hbm + o.dram + o.remote + o.recompute
    /\ o.remoteBlocks \in Nat
    /\ o.remoteBlocks = 0 => o.remote = 0

LEMMA ObservedSplits ==
    ASSUME NEW capacity, NEW s, StoreFits(s, capacity), NEW near1, NEW near2,
           NEW node \in Node, NEW prompt \in KvsPrompt, NEW lookup \in BOOLEAN
    PROVE  LET o == Observed(near1, near2, s, node, prompt, lookup)
           IN  /\ Split(o, prompt)
               /\ \A i \in 1..o.remoteBlocks : prompt.blocks[i] \in DOMAIN s.copies
<1>1. PICK n : n = Len(prompt.blocks)
  OBVIOUS
<1>2. prompt.blocks \in Seq(TraceBlock) /\ n \in Nat
  BY <1>1, TracePrompt
<1>3. PICK own, mid, held : /\ own = HitBlocks(near1.resident, prompt.blocks)
                            /\ mid = HitBlocks(near2.resident, prompt.blocks)
                            /\ held = HitBlocks(s.byHolder[node], prompt.blocks)
  OBVIOUS
<1>4. \A there : HitBlocks(there, prompt.blocks) \in 0..n
  BY <1>1, <1>2, HitsAre
<1>5. own \in 0..n /\ mid \in 0..n /\ held \in 0..n
  BY <1>3, <1>4
<1>6. PICK near : near = Max({own, mid, held})
  OBVIOUS
<1>7. near \in own..n
  <2>1. IsFiniteSet({own, mid, held})
    <3>1. IsFiniteSet({own})
      BY FS_Singleton
    <3>2. IsFiniteSet({own} \cup {mid})
      BY <3>1, FS_AddElement
    <3>3. IsFiniteSet(({own} \cup {mid}) \cup {held})
      BY <3>2, FS_AddElement
    <3>4. ({own} \cup {mid}) \cup {held} = {own, mid, held}
      OBVIOUS
    <3> QED  BY <3>3, <3>4
  <2>2. {own, mid, held} # {} /\ {own, mid, held} \subseteq Int
    BY <1>5
  <2>3. near \in {own, mid, held} /\ \A x \in {own, mid, held} : x <= near
    BY <1>6, <2>1, <2>2, MaxIs
  <2> QED  BY <1>5, <2>3
<1>8. PICK foreign : foreign = ForeignHit(s, node, prompt)
  OBVIOUS
<1>9. /\ foreign \in 0..n
      /\ foreign > 0 => \E h \in Node : \A i \in 1..foreign : prompt.blocks[i] \in s.byHolder[h]
  BY <1>1, <1>2, <1>8, ForeignIs
<1>10. PICK far : far = IF lookup THEN Max({near, foreign}) ELSE near
  OBVIOUS
<1>11. far \in near..n /\ (far # near => far = foreign)
  <2>1. near \in Int /\ foreign \in Int /\ near \in 0..n
    BY <1>5, <1>7, <1>9
  <2>2. Max({near, foreign}) \in {near, foreign} /\ near <= Max({near, foreign})
    BY <2>1, MaxOfTwo
  <2> QED  BY <1>2, <1>9, <1>10, <2>1, <2>2
<1>12. PICK o : o = Observed(near1, near2, s, node, prompt, lookup)
  OBVIOUS
<1>13. o = [hbm |-> Tokens(prompt, 0, own), dram |-> Tokens(prompt, own, near),
            remote |-> Tokens(prompt, near, far), recompute |-> Tokens(prompt, far, n),
            remoteBlocks |-> far - near]
  BY <1>1, <1>3, <1>6, <1>8, <1>10, <1>12 DEF Observed
<1>14. /\ Tokens(prompt, 0, own) \in Nat /\ Tokens(prompt, own, near) \in Nat
       /\ Tokens(prompt, near, far) \in Nat /\ Tokens(prompt, far, n) \in Nat
       /\ InputTokens(prompt) = Tokens(prompt, 0, own) + Tokens(prompt, own, near)
                              + Tokens(prompt, near, far) + Tokens(prompt, far, n)
       /\ near = far => Tokens(prompt, near, far) = 0
  BY <1>1, <1>2, <1>5, <1>7, <1>11, TokensAre
<1>15. near \in Nat /\ far \in Nat /\ near <= far
  BY <1>5, <1>7, <1>11
<1>16. Split(o, prompt)
  BY <1>13, <1>14, <1>15 DEF Split
<1>17. ASSUME NEW i \in 1..(far - near) PROVE prompt.blocks[i] \in DOMAIN s.copies
  <2>1. far # near /\ i \in 1..far
    BY <1>15, <1>17
  <2>2. foreign > 0 /\ i \in 1..foreign
    BY <1>11, <1>15, <2>1
  <2>3. PICK h \in Node : prompt.blocks[i] \in s.byHolder[h]
    BY <1>9, <2>2
  <2> QED  BY <2>3, HeldIsIndexed
<1> QED  BY <1>12, <1>13, <1>16, <1>17

\* What a node is charged for a transfer is all that it found elsewhere.
LEMMA CandidateIs ==
    ASSUME NEW o, NEW prompt, Split(o, prompt), NEW best \in Int, NEW queued \in Int,
           Local(o) + o.remote <= best
    PROVE  LET c == Candidate(o, best, queued)
           IN  /\ c.score \in Int
               /\ c.remote => o.remote > 0 /\ c.planned = Local(o) + o.remote
<1>1. PICK local, found, rest : /\ local = Local(o) /\ found = o.remote /\ rest = o.recompute
  OBVIOUS
<1>2. local \in Nat /\ found \in Nat /\ rest \in Nat /\ local + found <= best
  BY <1>1 DEF Split, Local
<1> DEFINE remote == found > 0 /\ (local = 0 \/ best >= Threshold * local)
<1>3. PICK input : input = local + found + rest
  OBVIOUS
<1>4. PICK moved : moved = IF remote THEN Min({best - local, found}) ELSE 0
  OBVIOUS
<1>5. /\ remote => moved = found
      /\ moved \in Nat
  <2>1. best - local \in Int /\ found \in Int /\ found <= best - local
    BY <1>2
  <2>2. Min({best - local, found}) \in {best - local, found}
        /\ Min({best - local, found}) <= found
    BY <2>1, MinOfTwo
  <2>3. Min({best - local, found}) = found
    BY <2>1, <2>2
  <2> QED  BY <1>2, <1>4, <2>3
<1>6. PICK c : c = Candidate(o, best, queued)
  OBVIOUS
<1>7. c = [remote |-> remote, planned |-> local + moved,
           score  |-> 512 * queued + moved * TransferWork(512)
                         + 512 * (input - local - moved) * RecomputeToken]
  BY <1>1, <1>3, <1>4, <1>6 DEF Candidate
<1>8. c.score \in Int
  <2>1. PICK w : w = TransferWork(512)
    OBVIOUS
  <2>2. w \in Int
    <3>1. TransferFixed \in Int /\ TransferToken \in Int
      BY StoreAssumption
    <3>2. w = TransferFixed + 512 * TransferToken
      BY <2>1 DEF TransferWork
    <3> QED  BY <3>1, <3>2
  <2>3. PICK x : x = 512 * (input - local - moved)
    OBVIOUS
  <2>4. x \in Int /\ RecomputeToken \in Int
    BY <1>2, <1>3, <1>5, <2>3, KvsAssumption
  <2>5. moved * w \in Int /\ x * RecomputeToken \in Int /\ 512 * queued \in Int
    BY <1>5, <2>2, <2>4
  <2>6. c.score = 512 * queued + moved * w + x * RecomputeToken
    BY <1>7, <2>1, <2>3
  <2> QED  BY <2>5, <2>6
<1>9. c.remote = remote /\ c.planned = local + moved
  BY <1>7
<1> QED  BY <1>1, <1>3, <1>5, <1>6, <1>8, <1>9

\* One of the nodes is selected.
LEMMA SelectedIs ==
    ASSUME NEW c, \A n \in Node : c[n].score \in Int
    PROVE  Selected(c) \in Node
<1>1. PICK score : score = [n \in Node |-> c[n].score]
  OBVIOUS
<1>2. \A n \in Node : score[n] = c[n].score /\ score[n] \in Int
  BY <1>1
<1>3. \E n \in Node : \A k \in Node \ {n} :
          score[n] < score[k] \/ (score[n] = score[k] /\ n < k)
  BY <1>2, StoreAssumption, LeastScoreExists
<1>4. \E n \in Node : \A k \in Node \ {n} :
          \/ c[n].score < c[k].score
          \/ c[n].score = c[k].score /\ n < k
  BY <1>2, <1>3
<1> QED  BY <1>4 DEF Selected

\* The tiers fit, their indices agree, and the books are of what was served.
KvsInv ==
    /\ hbm = [n \in Node |-> hbm[n]] /\ dram = [n \in Node |-> dram[n]]
    /\ \A n \in Node : LruFits(hbm[n], HbmBlocks) /\ LruFits(dram[n], DramBlocks)
    /\ StoreFits(store, StoreBlocks)
    /\ work \in [Node -> Int]
    /\ trace.served \in Nat
    /\ trace.served = 0 => trace.prompt.blocks = <<>>
    /\ books.local \in Nat /\ books.remote \in Nat /\ books.recompute \in Nat
    /\ PromptStaysWhole
    /\ ChargedIsMigrated

LEMMA CapacitiesAre == /\ HbmBlocks \in Nat \ {0} /\ DramBlocks \in Nat \ {0}
                       /\ StoreBlocks \in Nat \ {0}
BY KvsAssumption

\* A request without blocks is whole.
LEMMA NoneIsWhole ==
    ASSUME trace.prompt.blocks = <<>>
    PROVE  PromptStaysWhole
<1>1. ASSUME NEW there PROVE HitBlocks(there, <<>>) = Len(<<>>)
  <2>1. <<>> \in Seq(TraceBlock) /\ ToSet(<<>>) \subseteq there
    BY DEF ToSet
  <2> QED  BY <2>1, HitsAre
<1> QED  BY <1>1 DEF PromptStaysWhole

LEMMA KvsStarts == ASSUME KvsInit PROVE KvsInv
<1>1. /\ hbm = [n \in Node |-> NoBlocks] /\ dram = [n \in Node |-> NoBlocks]
      /\ store = EmptyStore
  BY DEF KvsInit, EmptyCaches
<1>2. LruFits(NoBlocks, HbmBlocks) /\ LruFits(NoBlocks, DramBlocks)
      /\ StoreFits(EmptyStore, StoreBlocks)
  BY CapacitiesAre, NothingHeld
<1>3. /\ trace.served = 0 /\ trace.prompt.blocks = <<>> /\ trace.blocks = 0
      /\ trace.tokens = 0
  BY DEF KvsInit, NothingServed
<1>4. /\ books.input = 0 /\ books.local = 0 /\ books.remote = 0 /\ books.recompute = 0
  BY DEF KvsInit
<1>5. work \in [Node -> Int]
  BY DEF KvsInit
<1>6. PromptStaysWhole
  BY <1>3, NoneIsWhole
<1>7. ChargedIsMigrated
  BY <1>3, <1>4 DEF ChargedIsMigrated
<1> QED  BY <1>1, <1>2, <1>3, <1>4, <1>5, <1>6, <1>7 DEF KvsInv

LEMMA ChooseKeeps == ASSUME KvsInv, ChooseMode PROVE KvsInv'
<1>1. /\ hbm' = hbm /\ dram' = dram /\ store' = store /\ work' = work /\ trace' = trace
      /\ books' = books /\ trace.served = 0
  BY DEF ChooseMode
<1>2. trace'.prompt.blocks = <<>>
  BY <1>1 DEF KvsInv
<1>3. PromptStaysWhole'
  <2>1. ASSUME NEW there PROVE HitBlocks(there, <<>>) = Len(<<>>)
    <3>1. <<>> \in Seq(TraceBlock) /\ ToSet(<<>>) \subseteq there
      BY DEF ToSet
    <3> QED  BY <3>1, HitsAre
  <2> QED  BY <1>2, <2>1 DEF PromptStaysWhole
<1> QED  BY <1>1, <1>3 DEF KvsInv, ChargedIsMigrated

\* What a request costs and what it leaves behind.
LEMMA ServeKeeps ==
    ASSUME KvsInv, NEW prompt \in KvsPrompt, NEW gap \in Gap, NEW lookup \in BOOLEAN,
           Serve(prompt, gap, lookup), mode' = mode
    PROVE  KvsInv'
<1> DEFINE queued == [n \in Node |-> Max({0, work[n] - gap})]
           obs    == [n \in Node |-> Observed(hbm[n], dram[n], store, n, prompt, lookup)]
           best   == Max({Local(obs[n]) + obs[n].remote : n \in Node})
           offers == [n \in Node |-> Candidate(obs[n], best, queued[n])]
<1>1. PICK node \in {Selected(offers)} :
        LET o         == obs[node]
            remote    == IF offers[node].remote THEN offers[node].planned - Local(o) ELSE 0
            recompute == InputTokens(prompt) - Local(o) - remote
            blocks    == IF offers[node].remote THEN o.remoteBlocks ELSE 0
        IN  /\ work' = [queued EXCEPT ![node] =
                            @ + Max({TransferWork(remote), recompute * RecomputeToken})]
            /\ books' = [input      |-> books.input + InputTokens(prompt),
                         local      |-> books.local + Local(o),
                         remote     |-> books.remote + remote,
                         recompute  |-> books.recompute + recompute,
                         migrations |-> books.migrations + (IF blocks > 0 THEN 1 ELSE 0)]
            /\ hbm' = [hbm EXCEPT ![node] =
                        Placed(@, prompt.blocks, {}, [blocks |-> HbmBlocks])]
            /\ dram' = IF mode = "HYBRID"
                       THEN [dram EXCEPT ![node] =
                               Placed(@, prompt.blocks, {}, [blocks |-> DramBlocks])]
                       ELSE dram
            /\ store' = IF mode = "LOCAL_ONLY" THEN store
                        ELSE StorePlaced(Transferred(store, prompt, blocks),
                                         StoreBlocks, node, prompt)
            /\ trace' = [served |-> trace.served + 1, node |-> node, prompt |-> prompt,
                         blocks |-> blocks, found |-> o.remote, tokens |-> remote]
  BY Zenon DEF Serve
<1>2. \A n \in Node : queued[n] \in Int
  <2>1. ASSUME NEW n \in Node PROVE Max({0, work[n] - gap}) \in Int
    <3>1. 0 \in Int /\ work[n] - gap \in Int
      BY KvsAssumption DEF KvsInv
    <3> QED  BY <3>1, MaxOfTwo
  <2> QED  BY <2>1
<1>3. ASSUME NEW n \in Node
      PROVE  /\ Split(obs[n], prompt)
             /\ \A i \in 1..obs[n].remoteBlocks : prompt.blocks[i] \in DOMAIN store.copies
  <2>1. StoreFits(store, StoreBlocks)
    BY DEF KvsInv
  <2>2. PICK r : r = Observed(hbm[n], dram[n], store, n, prompt, lookup)
    OBVIOUS
  <2>3. /\ Split(r, prompt)
        /\ \A i \in 1..r.remoteBlocks : prompt.blocks[i] \in DOMAIN store.copies
    BY <2>1, <2>2, ObservedSplits
  <2> QED  BY <2>2, <2>3
<1> HIDE DEF queued, obs
<1>4. best \in Int /\ \A n \in Node : Local(obs[n]) + obs[n].remote <= best
  <2>1. PICK reach : reach = [n \in Node |-> Local(obs[n]) + obs[n].remote]
    OBVIOUS
  <2>2. \A n \in Node : reach[n] \in Int
    BY <1>3, <2>1 DEF Split, Local
  <2>3. PICK S : S = {reach[n] : n \in Node}
    OBVIOUS
  <2>4. IsFiniteSet(S) /\ S # {} /\ S \subseteq Int
    BY <2>2, <2>3, StoreAssumption, ImageIsFinite
  <2>5. Max(S) \in S /\ \A x \in S : x <= Max(S)
    BY <2>4, MaxIs
  <2>6. S = {Local(obs[n]) + obs[n].remote : n \in Node}
    BY <2>1, <2>3
  <2> QED  BY <2>1, <2>3, <2>4, <2>5, <2>6
<1> HIDE DEF best
<1>5. ASSUME NEW n \in Node
      PROVE  /\ offers[n].score \in Int
             /\ offers[n].remote => /\ obs[n].remote > 0
                                    /\ offers[n].planned = Local(obs[n]) + obs[n].remote
  <2>1. PICK c : c = Candidate(obs[n], best, queued[n])
    OBVIOUS
  <2>2. /\ c.score \in Int
        /\ c.remote => /\ obs[n].remote > 0
                       /\ c.planned = Local(obs[n]) + obs[n].remote
    BY <1>2, <1>3, <1>4, <2>1, CandidateIs
  <2> QED  BY <2>1, <2>2
<1> HIDE DEF offers
<1>6. node \in Node
  BY <1>1, <1>5, SelectedIs
<1>7. PICK o : o = obs[node]
  OBVIOUS
<1>8. Split(o, prompt) /\ \A i \in 1..o.remoteBlocks : prompt.blocks[i] \in DOMAIN store.copies
  BY <1>3, <1>6, <1>7
<1>9. PICK local, tokens, blocks, rest :
          /\ local = Local(o)
          /\ tokens = IF offers[node].remote THEN offers[node].planned - Local(o) ELSE 0
          /\ blocks = IF offers[node].remote THEN o.remoteBlocks ELSE 0
          /\ rest = InputTokens(prompt) - Local(o) - tokens
  OBVIOUS
<1>10. local \in Nat /\ o.remote \in Nat /\ o.recompute \in Nat /\ o.remoteBlocks \in Nat
       /\ InputTokens(prompt) = local + o.remote + o.recompute
       /\ (o.remoteBlocks = 0 => o.remote = 0)
  BY <1>8, <1>9 DEF Split, Local
<1>11. /\ tokens = IF blocks > 0 THEN o.remote ELSE 0
       /\ tokens \in 0..o.remote /\ blocks \in 0..o.remoteBlocks
  <2>1. CASE offers[node].remote
    <3>1. o.remote > 0 /\ offers[node].planned = local + o.remote
      BY <1>5, <1>6, <1>7, <1>9, <2>1
    <3>2. tokens = o.remote /\ blocks = o.remoteBlocks /\ blocks > 0
      BY <1>9, <1>10, <2>1, <3>1
    <3> QED  BY <1>10, <3>2
  <2>2. CASE ~offers[node].remote
    BY <1>9, <1>10, <2>2
  <2> QED  BY <2>1, <2>2
<1>12. rest \in Nat /\ InputTokens(prompt) = local + tokens + rest
  BY <1>9, <1>10, <1>11
<1>13. /\ work' = [queued EXCEPT ![node] =
                      @ + Max({TransferWork(tokens), rest * RecomputeToken})]
       /\ books' = [input      |-> books.input + InputTokens(prompt),
                    local      |-> books.local + local,
                    remote     |-> books.remote + tokens,
                    recompute  |-> books.recompute + rest,
                    migrations |-> books.migrations + (IF blocks > 0 THEN 1 ELSE 0)]
       /\ hbm' = [hbm EXCEPT ![node] = Placed(@, prompt.blocks, {}, [blocks |-> HbmBlocks])]
       /\ dram' = IF mode = "HYBRID"
                  THEN [dram EXCEPT ![node] =
                          Placed(@, prompt.blocks, {}, [blocks |-> DramBlocks])]
                  ELSE dram
       /\ store' = IF mode = "LOCAL_ONLY" THEN store
                   ELSE StorePlaced(Transferred(store, prompt, blocks),
                                    StoreBlocks, node, prompt)
       /\ trace' = [served |-> trace.served + 1, node |-> node, prompt |-> prompt,
                    blocks |-> blocks, found |-> o.remote, tokens |-> tokens]
  BY <1>1, <1>7, <1>9
<1>14. PICK whole : whole = Len(prompt.blocks)
  OBVIOUS
<1>15. prompt.blocks \in Seq(TraceBlock) /\ IsInjective(prompt.blocks)
  BY TracePrompt
<1>16. \A there : ToSet(prompt.blocks) \subseteq there => HitBlocks(there, prompt.blocks) = whole
  BY <1>14, <1>15, HitsAre
<1>17. /\ hbm' = [n \in Node |-> hbm'[n]] /\ \A n \in Node : LruFits(hbm'[n], HbmBlocks)
       /\ whole <= HbmBlocks => HitBlocks(hbm'[node].resident, prompt.blocks) = whole
  <2>1. PICK r : r = Placed(hbm[node], prompt.blocks, {}, [blocks |-> HbmBlocks])
    OBVIOUS
  <2>2. /\ LruFits(r, HbmBlocks)
        /\ whole <= HbmBlocks => ToSet(prompt.blocks) \subseteq r.resident
    <3>1. LruFits(hbm[node], HbmBlocks)
      BY <1>6 DEF KvsInv
    <3>2. PICK size : size = [blocks |-> HbmBlocks]
      OBVIOUS
    <3>3. size.blocks = HbmBlocks /\ r = Placed(hbm[node], prompt.blocks, {}, size)
      BY <2>1, <3>2
    <3> QED  BY <1>14, <1>15, <3>1, <3>3, CapacitiesAre, LruKeeps
  <2>3. hbm = [n \in Node |-> hbm[n]] /\ \A n \in Node : LruFits(hbm[n], HbmBlocks)
    BY DEF KvsInv
  <2>4. hbm' = [n \in Node |-> IF n = node THEN r ELSE hbm[n]]
    BY <1>6, <1>13, <2>1, <2>3
  <2> QED  BY <1>6, <1>16, <2>2, <2>3, <2>4
<1>18. /\ dram' = [n \in Node |-> dram'[n]] /\ \A n \in Node : LruFits(dram'[n], DramBlocks)
       /\ mode = "HYBRID" /\ whole <= DramBlocks =>
              HitBlocks(dram'[node].resident, prompt.blocks) = whole
  <2>1. PICK r : r = Placed(dram[node], prompt.blocks, {}, [blocks |-> DramBlocks])
    OBVIOUS
  <2>2. /\ LruFits(r, DramBlocks)
        /\ whole <= DramBlocks => ToSet(prompt.blocks) \subseteq r.resident
    <3>1. LruFits(dram[node], DramBlocks)
      BY <1>6 DEF KvsInv
    <3>2. PICK size : size = [blocks |-> DramBlocks]
      OBVIOUS
    <3>3. size.blocks = DramBlocks /\ r = Placed(dram[node], prompt.blocks, {}, size)
      BY <2>1, <3>2
    <3> QED  BY <1>14, <1>15, <3>1, <3>3, CapacitiesAre, LruKeeps
  <2>3. dram = [n \in Node |-> dram[n]] /\ \A n \in Node : LruFits(dram[n], DramBlocks)
    BY DEF KvsInv
  <2>4. CASE mode = "HYBRID"
    <3>1. dram' = [n \in Node |-> IF n = node THEN r ELSE dram[n]]
      BY <1>6, <1>13, <2>1, <2>3, <2>4
    <3> QED  BY <1>6, <1>16, <2>2, <2>3, <3>1
  <2>5. CASE mode # "HYBRID"
    BY <1>13, <2>3, <2>5
  <2> QED  BY <2>4, <2>5
<1>19. /\ StoreFits(store', StoreBlocks)
       /\ mode # "LOCAL_ONLY" /\ whole <= StoreBlocks =>
              HitBlocks(store'.byHolder[node], prompt.blocks) = whole
  <2>1. StoreFits(store, StoreBlocks)
    BY DEF KvsInv
  <2>2. CASE mode = "LOCAL_ONLY"
    BY <1>13, <2>1, <2>2
  <2>3. CASE mode # "LOCAL_ONLY"
    <3>1. PICK s : s = Transferred(store, prompt, blocks)
      OBVIOUS
    <3>2. \A i \in 1..blocks : prompt.blocks[i] \in DOMAIN store.copies
      <4>1. \A i \in 1..blocks : i \in 1..o.remoteBlocks
        BY <1>10, <1>11
      <4> QED  BY <1>8, <4>1
    <3>3. StoreFits(s, StoreBlocks)
      BY <2>1, <3>1, <3>2, TransferredFits
    <3>4. store' = StorePlaced(s, StoreBlocks, node, prompt)
      BY <1>13, <2>3, <3>1
    <3>5. /\ StoreFits(store', StoreBlocks)
          /\ whole <= StoreBlocks => ToSet(prompt.blocks) \subseteq store'.byHolder[node]
      BY <1>6, <1>14, <1>15, <3>3, <3>4, CapacitiesAre, StoreKeeps
    <3> QED  BY <1>16, <3>5
  <2> QED  BY <2>2, <2>3
<1>20. work' \in [Node -> Int]
  <2>1. PICK x : x = Max({TransferWork(tokens), rest * RecomputeToken})
    OBVIOUS
  <2>2. x \in Int
    <3>1. TransferFixed \in Nat /\ TransferToken \in Nat /\ RecomputeToken \in Nat
      BY StoreAssumption, KvsAssumption
    <3>2. tokens \in Nat
      BY <1>10, <1>11
    <3>3. rest * RecomputeToken \in Int /\ tokens * TransferToken \in Int
      BY <1>12, <3>1, <3>2
    <3>4. TransferWork(tokens) \in Int
      BY <3>1, <3>3 DEF TransferWork
    <3> QED  BY <2>1, <3>3, <3>4, MaxOfTwo
  <2>3. queued = [n \in Node |-> queued[n]]
    BY DEF queued
  <2>4. work' = [queued EXCEPT ![node] = @ + x]
    BY <1>13, <2>1
  <2>5. PICK q : q = queued
    OBVIOUS
  <2>6. q = [n \in Node |-> q[n]] /\ \A n \in Node : q[n] \in Int
    BY <1>2, <2>3, <2>5
  <2>7. work' = [q EXCEPT ![node] = q[node] + x]
    BY <2>4, <2>5
  <2>8. work' = [n \in Node |-> IF n = node THEN q[n] + x ELSE q[n]]
    BY <1>6, <2>6, <2>7
  <2> QED  BY <2>2, <2>6, <2>8
<1>21. /\ trace'.served = trace.served + 1 /\ trace'.node = node /\ trace'.prompt = prompt
       /\ trace'.blocks = blocks /\ trace'.found = o.remote /\ trace'.tokens = tokens
  BY <1>13
<1>22. trace'.served \in Nat /\ trace'.served # 0
  BY <1>21 DEF KvsInv
<1>23. PromptStaysWhole'
  BY <1>14, <1>17, <1>18, <1>19, <1>21 DEF PromptStaysWhole
<1>24. /\ books'.input = books.input + InputTokens(prompt)
       /\ books'.local = books.local + local /\ books'.remote = books.remote + tokens
       /\ books'.recompute = books.recompute + rest
  BY <1>13
<1>25. /\ books'.local \in Nat /\ books'.remote \in Nat /\ books'.recompute \in Nat
       /\ books'.input = books'.local + books'.remote + books'.recompute
  <2>1. /\ books.local \in Nat /\ books.remote \in Nat /\ books.recompute \in Nat
        /\ books.input = books.local + books.remote + books.recompute
    BY DEF KvsInv, ChargedIsMigrated
  <2>2. tokens \in Nat
    BY <1>10, <1>11
  <2> QED  BY <1>10, <1>12, <1>24, <2>1, <2>2
<1>26. ChargedIsMigrated'
  BY <1>11, <1>21, <1>25 DEF ChargedIsMigrated
<1> QED  BY <1>17, <1>18, <1>19, <1>20, <1>22, <1>23, <1>25, <1>26 DEF KvsInv

LEMMA KvsKeeps == ASSUME KvsInv, ChooseMode \/ ServeNext PROVE KvsInv'
<1>1. CASE ChooseMode
  BY <1>1, ChooseKeeps
<1>2. CASE ServeNext
  <2>1. PICK prompt \in KvsPrompt, gap \in Gap, lookup \in BOOLEAN : Serve(prompt, gap, lookup)
    BY <1>2 DEF ServeNext
  <2>2. mode' = mode
    BY <1>2 DEF ServeNext
  <2> QED  BY <2>1, <2>2, ServeKeeps
<1> QED  BY <1>1, <1>2

\* Every tier fits and is indexed by what it holds, and the books are true.
THEOREM KvsInvariance == Spec => []KvsInv
<1>1. Init => KvsInv
  BY KvsStarts DEF Init
<1>2. KvsInv /\ [Next]_vars => KvsInv'
  <2>1. SUFFICES ASSUME KvsInv, [Next]_vars PROVE KvsInv'
    OBVIOUS
  <2>2. CASE Kvs
    BY <2>1, <2>2, KvsKeeps DEF Kvs
  <2>3. CASE UNCHANGED kvsVars
    BY <2>1, <2>3 DEF KvsInv, PromptStaysWhole, ChargedIsMigrated, kvsVars
  <2>4. [Next]_vars => Kvs \/ UNCHANGED kvsVars
    BY DEF Next, vars, Select, Size, Lease, Life, Place, Over
  <2> QED  BY <2>1, <2>2, <2>3, <2>4
<1> QED  BY <1>1, <1>2, PTL DEF Spec

\* What a request leaves in the tiers of its node, what it is charged for a transfer
\* and what indexes the store (cache.py 106-160, kvs.py 106-154,
\* m5_experiment.py 137-189).
THEOREM TiersHold == Spec => []TiersAreSound
<1>1. KvsInv => TiersAreSound
  BY FitsAgrees DEF KvsInv, TiersAreSound, StoreIndexesAgree
<1> QED  BY <1>1, KvsInvariance, PTL
=============================================================================
