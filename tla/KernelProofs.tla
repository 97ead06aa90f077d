---------------------------- MODULE KernelProofs ----------------------------
(***************************************************************************)
(* The kernel for any pools, workload, plans and costs: what it knows      *)
(* between two events, and the invariants that follow from it.  Then the   *)
(* credit policy on the kernel, for any predictions and capacity: what its *)
(* ledger and the kernel know of each other between two events.            *)
(***************************************************************************)
EXTENDS DecodeCapacity, SumTheorems

\* The events that carry a request on: all but the wake-ups of a decode.
NextKinds == Kinds \ {"DECODE_START"}
PrefillKinds == {"PREFILL_START", "PREFILL_FINISH"}
DecodeKinds == {"LEASE_BOUNDARY", "COMPLETION"}

Has(a, kinds) == \E e \in queue : e.attempt = a /\ e.kind \in kinds

\* The fields of an attempt are set one after the other, and not ahead of time.
AttemptShape(a) ==
    LET t == attempts[a] IN
    /\ t.ready <= now /\ t.prefillStart <= now /\ t.decodeStart <= now
    /\ t.ready = None => t.prefillStart = None
    /\ t.prefillStart = None => t.prefillFinish = None /\ t.decodeStart = None
    /\ t.prefillStart # None => t.prefillFinish # None
    /\ t.prefillStart # None => t.prefillFinish <= now \/ Has(a, {"PREFILL_FINISH"})
    /\ t.decodeStart # None => t.finish = t.decodeStart + t.emitted
    /\ a \in done => t.decodeStart # None /\ t.finish <= now

\* What is ahead of an attempt in each state it can be in.
AttemptGoesOn(a) ==
    LET t == attempts[a] IN
    /\ t.ready = None => Has(a, {"ATTEMPT_READY"})
    /\ (t.ready # None /\ t.prefillStart = None) =>
          Has(a, {"PREFILL_START"}) \/ a \in WaitingFor(t.plan.p)
    /\ (t.prefillStart # None /\ t.decodeStart = None) =>
          Has(a, {"PREFILL_FINISH", "DECODE_START"})
    /\ (t.decodeStart # None /\ a \notin done) => Has(a, DecodeKinds)

\* What an event says of the attempt it is about.
EventFits(e) ==
    LET a == e.attempt
        t == attempts[a]
    IN  /\ now <= e.at
        /\ e.kind = "ARRIVAL" => a[2] = 0 /\ \A b \in DOMAIN attempts : b[1] # a[1]
        /\ e.kind # "ARRIVAL" => a \in DOMAIN attempts
        /\ e.kind = "ATTEMPT_READY" => t.ready = None
        /\ e.kind = "PREFILL_START" => /\ t.ready # None /\ t.prefillStart = None
                                       /\ a \notin WaitingFor(t.plan.p)
        /\ e.kind = "PREFILL_FINISH" => /\ t.prefillStart # None /\ t.decodeStart = None
                                        /\ t.prefillFinish = e.at
                                        /\ ~Has(a, {"DECODE_START"})
        /\ e.kind = "DECODE_START" => t.prefillStart # None /\ t.prefillFinish <= now
        /\ e.kind = "LEASE_BOUNDARY" => /\ t.decodeStart # None /\ a \notin done
                                        /\ t.decodeStart < e.at /\ e.at < t.finish
        /\ e.kind = "COMPLETION" => /\ t.decodeStart # None /\ a \notin done
                                    /\ t.finish = e.at

OneNextEvent ==
    \A e, f \in queue :
        (e.attempt = f.attempt /\ e.kind \in NextKinds /\ f.kind \in NextKinds) => e = f

LifeInv ==
    /\ \A a \in DOMAIN attempts : AttemptShape(a) /\ AttemptGoesOn(a)
    /\ \A e \in queue : EventFits(e)
    /\ OneNextEvent
    /\ OneAttemptAtATime

\* A prefill node and those who wait for it.
InPrefill(e, p) == e.kind \in PrefillKinds /\ attempts[e.attempt].plan.p = p

NodeFits(p) ==
    /\ \A e, f \in queue : InPrefill(e, p) /\ InPrefill(f, p) => e = f
    /\ busy[p] <=> \E e \in queue : InPrefill(e, p)
    /\ ~busy[p] => waiting[p] = {}
    /\ IsFiniteSet(waiting[p])
    /\ \A w \in waiting[p] :
          /\ w.attempt \in DOMAIN attempts
          /\ attempts[w.attempt].plan.p = p
          /\ attempts[w.attempt].ready = w.at
          /\ attempts[w.attempt].prefillStart = None
          /\ w.seq < serial
    /\ \A v, w \in waiting[p] : v.attempt = w.attempt \/ v.seq = w.seq => v = w

NodeInv == \A p \in PNodes : NodeFits(p)

\* Attempts of one prefill node, by the order they became ready.
InOrder(a, b) ==
    LET p == attempts[a].plan.p
        s == attempts[a]
        t == attempts[b]
    IN  /\ (s.prefillStart # None /\ t.prefillStart # None) =>
              \/ s.prefillFinish <= t.prefillStart
              \/ t.prefillFinish <= s.prefillStart
        /\ (t.ready < s.ready /\ a \notin WaitingFor(p)) => b \notin WaitingFor(p)
        /\ (t.ready < s.ready /\ s.prefillStart # None) =>
              t.prefillStart # None /\ t.prefillStart <= s.prefillStart

OrderInv ==
    \A a, b \in Pending :
        (attempts[a].plan.p = attempts[b].plan.p /\ a # b) => InOrder(a, b)

\* A decode node is free no sooner than every decode on it ends.
DecodeInv ==
    /\ \A a \in DOMAIN attempts :
          Started(a) => attempts[a].finish <= dAvailable[attempts[a].plan.d]
    /\ DecodesNeverOverlap

SleepInv ==
    \A a \in DOMAIN attempts :
        (~Started(a) /\ Has(a, {"DECODE_START"})) =>
            \E e \in queue :
                /\ e.attempt = a /\ e.kind = "DECODE_START"
                /\ \/ e.at <= now
                   \/ e.at <= dAvailable[attempts[a].plan.d]
                   \/ e.at <= attempts[a].fence

\* Every key a node holds was put there by an attempt that was published.
Published(b, k) ==
    /\ b \in done
    /\ attempts[b].terminal = "COMPLETED" \/ attempts[b].plan.reusable
    /\ k \in ToSet(PrefixOf(b))

CacheInv ==
    /\ \A p \in PNodes : IsFiniteSet(cache[p])
    /\ \A p \in PNodes : \A k \in cache[p] : \E b \in DOMAIN attempts : Published(b, k)

KernelInv ==
    /\ KernelTypeOK /\ LifeInv /\ NodeInv /\ OrderInv /\ DecodeInv /\ SleepInv /\ CacheInv
    /\ HitsComeFromPublishedWork /\ QueueProxyExact
-----------------------------------------------------------------------------
(* What the helpers of the kernel return.                                   *)

\* The heap order has a first entry.
LEMMA FirstIsFirst ==
    ASSUME NEW entries, IsFiniteSet(entries), entries # {},
           \A w \in entries : w.at \in Nat /\ w.seq \in Nat,
           \A v, w \in entries : v.seq = w.seq => v = w
    PROVE  /\ First(entries) \in entries
           /\ \A v \in entries : First(entries).at <= v.at
<1> DEFINE Ahead(w, v) == w.at < v.at \/ (w.at = v.at /\ w.seq < v.seq)
           Headed(u) == \E w \in u : \A v \in u \ {w} : Ahead(w, v)
           T == {u \in SUBSET entries : u # {} => Headed(u)}
<1>1. {} \in T
  OBVIOUS
<1>2. ASSUME NEW u \in T, NEW x \in entries \ u PROVE u \cup {x} \in T
  <2>1. CASE u = {}
    BY <2>1
  <2>2. CASE u # {}
    <3>1. PICK w \in u : \A v \in u \ {w} : Ahead(w, v)
      BY <2>2
    <3>2. w \in entries /\ x \in entries /\ u \in SUBSET entries /\ w # x
      BY <3>1
    <3>3. w.seq # x.seq /\ {w.at, w.seq, x.at, x.seq} \subseteq Nat
      BY <3>2
    <3>4. CASE Ahead(w, x)
      <4>1. \A v \in (u \cup {x}) \ {w} : Ahead(w, v)
        BY <3>1, <3>4
      <4>2. QED
        BY <3>2, <4>1
    <3>5. CASE ~Ahead(w, x)
      <4>1. Ahead(x, w)
        BY <3>3, <3>5
      <4>2. \A v \in u : v.at \in Nat /\ v.seq \in Nat
        BY <3>2
      <4>3. \A v \in (u \cup {x}) \ {x} : Ahead(x, v)
        BY <3>1, <3>3, <4>1, <4>2
      <4>4. QED
        BY <3>2, <4>3
    <3>6. QED
      BY <3>4, <3>5
  <2>3. QED
    BY <2>1, <2>2
<1>3. T \in SUBSET SUBSET entries
  OBVIOUS
<1>4. entries \in T
  <2> HIDE DEF T
  <2>1. \A u, x : u \in T /\ x \in entries /\ x \notin u => u \cup {x} \in T
    BY <1>2
  <2>2. T = SUBSET entries
    BY <1>1, <1>3, <2>1, ElementInduction
  <2>3. QED
    BY <2>2
<1>5. Headed(entries)
  BY <1>4
<1>6. First(entries) \in entries /\ \A v \in entries \ {First(entries)} : Ahead(First(entries), v)
  BY <1>5 DEF First
<1>7. QED
  BY <1>6

LEMMA MaxOfThree ==
    ASSUME NEW x \in Int, NEW y \in Int, NEW z \in Int
    PROVE  /\ Max({x, y, z}) \in {x, y, z}
           /\ x <= Max({x, y, z}) /\ y <= Max({x, y, z}) /\ z <= Max({x, y, z})
<1>1. \E m \in {x, y, z} : \A n \in {x, y, z} : m >= n
  BY x <= y \/ y <= x, x <= z \/ z <= x, y <= z \/ z <= y
<1>2. QED
  BY <1>1 DEF Max

LEMMA TokensAreCounted ==
    ASSUME NEW keys, IsFiniteSet(keys), keys \subseteq Key
    PROVE  Tokens(keys) \in Nat
<1>1. \A k \in keys : KeyTokens[k] \in Nat
  BY KernelAssumption
<1>2. QED
  BY <1>1, SumOfNaturals DEF Tokens

\* What a prefix begins with are keys of its own; if there are any, the first.
LEMMA LeadingKeys ==
    ASSUME NEW prefix \in Seq(Key), NEW held
    PROVE  /\ Leading(prefix, held) \subseteq ToSet(prefix)
           /\ Leading(prefix, held) # {} => prefix[1] \in held
<1> DEFINE misses == {i \in DOMAIN prefix : prefix[i] \notin held}
<1>1. DOMAIN prefix = 1..Len(prefix) /\ Len(prefix) \in Nat
  OBVIOUS
<1>2. CASE misses = {}
  <2>1. Leading(prefix, held) = ToSet(prefix)
    BY <1>2 DEF Leading
  <2>2. ToSet(prefix) # {} => 1 \in DOMAIN prefix
    BY <1>1 DEF ToSet
  <2>3. QED
    BY <1>2, <2>1, <2>2
<1>3. CASE misses # {}
  <2>1. IsFiniteSet(misses) /\ misses \subseteq Int
    <3>1. IsFiniteSet(1..Len(prefix)) /\ misses \subseteq 1..Len(prefix)
      BY <1>1, FS_Interval
    <3>2. 1..Len(prefix) \subseteq Int
      BY <1>1
    <3>3. IsFiniteSet(misses)
      BY <3>1, FS_Subset
    <3>4. QED
      BY <3>1, <3>2, <3>3
  <2> DEFINE m == Min(misses)
  <2>2. m \in misses /\ \A n \in misses : m <= n
    <3> HIDE DEF misses
    <3>1. QED
      BY <1>3, <2>1, LeastExists DEF Min
  <2>3. Leading(prefix, held) = ToSet(SubSeq(prefix, 1, m - 1))
    BY <1>3 DEF Leading
  <2> HIDE DEF m
  <2>4. m \in 1..Len(prefix)
    BY <1>1, <2>2
  <2>5. /\ DOMAIN SubSeq(prefix, 1, m - 1) = 1..(m - 1)
        /\ \A i \in 1..(m - 1) : SubSeq(prefix, 1, m - 1)[i] = prefix[i]
    BY <1>1, <2>4
  <2>6. Leading(prefix, held) \subseteq ToSet(prefix)
    BY <1>1, <2>3, <2>4, <2>5 DEF ToSet
  <2>7. Leading(prefix, held) # {} => prefix[1] \in held
    <3>1. Leading(prefix, held) # {} => 1 \in 1..(m - 1)
      BY <2>3, <2>4, <2>5 DEF ToSet
    <3>2. 1 \in 1..(m - 1) => 1 \notin misses
      BY <2>2, <2>4
    <3>3. QED
      BY <1>1, <2>4, <3>1, <3>2
  <2>8. QED
    BY <2>6, <2>7
<1>4. QED
  BY <1>2, <1>3

\* The request of an attempt, and the keys of its prefix.
LEMMA RequestOf ==
    ASSUME workload \in Workloads, NEW a \in AttemptKey
    PROVE  /\ a[1] \in DOMAIN workload /\ a[1] \in DOMAIN Plans
           /\ workload[a[1]] \in Request
           /\ PrefixOf(a) \in Seq(Key)
           /\ IsFiniteSet(ToSet(PrefixOf(a))) /\ ToSet(PrefixOf(a)) \subseteq Key
           /\ MaximumPrefillWork(a) \in Nat
<1>1. /\ a[1] \in 1..Len(workload) /\ workload \in Seq(Request)
      /\ Len(workload) = Len(Plans) /\ Plans \in Seq(SUBSET Plan)
  BY KernelAssumption DEF AttemptKey
<1>2. /\ a[1] \in DOMAIN workload /\ a[1] \in DOMAIN Plans
      /\ workload[a[1]] \in Request
  BY <1>1
<1>3. PrefixOf(a) \in Seq(Key)
  BY <1>2 DEF PrefixOf, Request
<1>4. IsFiniteSet(ToSet(PrefixOf(a))) /\ ToSet(PrefixOf(a)) \subseteq Key
  <2>1. IsFiniteSet(DOMAIN PrefixOf(a))
    <3>1. DOMAIN PrefixOf(a) = 1..Len(PrefixOf(a)) /\ Len(PrefixOf(a)) \in Nat
      BY <1>3
    <3>2. QED
      BY <3>1, FS_Interval
  <2>2. QED
    BY <1>3, <2>1, ImageIsFinite DEF ToSet
<1>5. MaximumPrefillWork(a) \in Nat
  BY <1>4, TokensAreCounted, KernelAssumption DEF MaximumPrefillWork
<1>6. QED
  BY <1>2, <1>3, <1>4, <1>5

\* An event that is popped is at or after now, and at or before the others.
LEMMA PopsForward ==
    ASSUME KernelTypeOK, LifeInv, NEW e \in queue, NEW kind, Pops(e, kind)
    PROVE  /\ now' = e.at /\ now' \in 0..End /\ now <= now' /\ e.kind = kind
           /\ \A f \in queue : now' <= f.at
<1>1. now \in 0..End /\ \A f \in queue : f.at \in Nat
  BY DEF KernelTypeOK
<1>2. now <= e.at
  BY DEF LifeInv, EventFits
<1>3. e.kind = kind /\ e.at <= End /\ now' = e.at /\ \A f \in queue \ {e} : e.at <= f.at
  BY <1>1 DEF Pops, Before
<1>4. QED
  BY <1>1, <1>2, <1>3

-----------------------------------------------------------------------------
(* What a step keeps by leaving things alone.  New attempts have not run.   *)
Kept(b) ==
    /\ attempts'[b].plan = attempts[b].plan
    /\ attempts'[b].terminal = attempts[b].terminal
    /\ attempts'[b].decodeStart = attempts[b].decodeStart
    /\ attempts'[b].finish = attempts[b].finish

NoDecodeMoves ==
    /\ DOMAIN attempts \subseteq DOMAIN attempts'
    /\ \A b \in DOMAIN attempts : Kept(b)
    /\ \A b \in DOMAIN attempts' \ DOMAIN attempts :
          attempts'[b].prefillStart = None /\ attempts'[b].decodeStart = None
    /\ workload' = workload

\* An event and its attempt are left alone.
LEMMA KeepsEvent ==
    ASSUME KernelTypeOK, now' \in Nat, now <= now',
           NEW f \in queue, f.kind # "ARRIVAL", EventFits(f), now' <= f.at,
           f.attempt \in DOMAIN attempts', attempts'[f.attempt] = attempts[f.attempt],
           f.attempt \in done' => f.attempt \in done,
           Has(f.attempt, {"DECODE_START"})' => Has(f.attempt, {"DECODE_START"}),
           f.kind = "PREFILL_START" =>
               \A w \in waiting'[attempts[f.attempt].plan.p] : w.attempt # f.attempt
    PROVE  EventFits(f)'
<1>1. f.attempt \in DOMAIN attempts
  BY DEF EventFits
<1>2. attempts[f.attempt].prefillFinish \in Int /\ now \in Int /\ attempts[f.attempt].plan.p \in PNodes
  BY <1>1 DEF KernelTypeOK, AttemptRecord, Plan, None
<1>3. (f.attempt \in WaitingFor(attempts[f.attempt].plan.p))' =>
          \E w \in waiting'[attempts[f.attempt].plan.p] : w.attempt = f.attempt
  BY DEF WaitingFor
<1>4. QED
  BY <1>2, <1>3 DEF EventFits

LEMMA KeepsArrival ==
    ASSUME NEW f \in queue, f.kind = "ARRIVAL", EventFits(f), now' <= f.at,
           \A b \in DOMAIN attempts' : b \in DOMAIN attempts \/ b[1] # f.attempt[1]
    PROVE  EventFits(f)'
BY DEF EventFits

\* An attempt, its events and its place in the line are left alone.
LEMMA KeepsAttempt ==
    ASSUME KernelTypeOK, now' \in Nat, now <= now',
           NEW b \in DOMAIN attempts, AttemptShape(b), AttemptGoesOn(b),
           attempts'[b] = attempts[b], b \in done' <=> b \in done,
           \A f \in queue : f.attempt = b => f \in queue',
           \A w \in waiting[attempts[b].plan.p] : w.attempt = b =>
               Has(b, {"PREFILL_START"})' \/ w \in waiting'[attempts[b].plan.p]
    PROVE  AttemptShape(b)' /\ AttemptGoesOn(b)'
<1>1. attempts[b] \in AttemptRecord /\ now \in Int
  BY DEF KernelTypeOK
<1>2. \A kinds : Has(b, kinds) => Has(b, kinds)'
  BY DEF Has
<1>3. AttemptShape(b)'
  BY <1>1, <1>2 DEF AttemptShape, AttemptRecord, None
<1>4. b \in WaitingFor(attempts[b].plan.p) =>
          Has(b, {"PREFILL_START"})' \/ b \in {w.attempt : w \in waiting'[attempts[b].plan.p]}
  BY DEF WaitingFor
<1>5. AttemptGoesOn(b)'
  <2>1. (b \in WaitingFor(attempts[b].plan.p))' <=>
            b \in {w.attempt : w \in waiting'[attempts[b].plan.p]}
    BY DEF WaitingFor
  <2>2. QED
    BY <1>2, <1>4, <2>1 DEF AttemptGoesOn
<1>6. QED
  BY <1>3, <1>5

LEMMA KeepsDecodeInv ==
    ASSUME DecodeInv, NoDecodeMoves, dAvailable' = dAvailable
    PROVE  DecodeInv'
BY DEF DecodeInv, DecodesNeverOverlap, Started, NoDecodeMoves, Kept

LEMMA KeepsSleepInv ==
    ASSUME SleepInv, NoDecodeMoves, dAvailable' = dAvailable, KernelTypeOK, now \in Int,
           now' \in Int, now <= now',
           \A b \in DOMAIN attempts : attempts'[b].fence = attempts[b].fence,
           \A f : f.kind = "DECODE_START" => (f \in queue' <=> f \in queue),
           \A f \in queue : f.kind = "DECODE_START" => f.attempt \in DOMAIN attempts
    PROVE  SleepInv'
<1>1. SUFFICES ASSUME NEW b \in DOMAIN attempts', ~Started(b)', Has(b, {"DECODE_START"})'
               PROVE  \E f \in queue' :
                        /\ f.attempt = b /\ f.kind = "DECODE_START"
                        /\ \/ f.at <= now'
                           \/ f.at <= dAvailable'[attempts'[b].plan.d]
                           \/ f.at <= attempts'[b].fence
  BY DEF SleepInv
<1>2. b \in DOMAIN attempts /\ ~Started(b) /\ Has(b, {"DECODE_START"}) /\ Kept(b)
  BY <1>1 DEF Has, Started, NoDecodeMoves, Kept
<1>3. PICK f \in queue :
             /\ f.attempt = b /\ f.kind = "DECODE_START"
             /\ \/ f.at <= now
                \/ f.at <= dAvailable[attempts[b].plan.d]
                \/ f.at <= attempts[b].fence
  BY <1>2 DEF SleepInv
<1>4. f \in queue' /\ f.at \in Nat
  BY <1>3 DEF KernelTypeOK
<1>5. f.at <= now => f.at <= now'
  BY <1>4
<1>6. QED
  BY <1>2, <1>3, <1>4, <1>5 DEF Kept

\* What is done stays as it was.
DoneKept ==
    /\ done \subseteq done' /\ done \subseteq DOMAIN attempts'
    /\ \A c \in done : /\ attempts'[c].plan = attempts[c].plan
                      /\ attempts'[c].terminal = attempts[c].terminal
                      /\ attempts'[c].finish = attempts[c].finish
    /\ workload' = workload

LEMMA KeepsCacheInv ==
    ASSUME CacheInv, DoneKept, cache' = cache
    PROVE  CacheInv'
BY DEF CacheInv, Published, PrefixOf, DoneKept

HitFits(a) ==
    (attempts[a].prefillStart # None /\ attempts[a].prefillWork < MaximumPrefillWork(a)) =>
        \E b \in done \ {a} :
            /\ attempts[b].finish <= attempts[a].prefillStart
            /\ attempts[b].terminal = "COMPLETED" \/ attempts[b].plan.reusable
            /\ PrefixOf(a)[1] \in ToSet(PrefixOf(b))

LEMMA KeepsHit ==
    ASSUME DoneKept, NEW b, HitFits(b),
           attempts'[b].prefillStart = attempts[b].prefillStart,
           attempts'[b].prefillWork = attempts[b].prefillWork
    PROVE  HitFits(b)'
<1>1. SUFFICES ASSUME attempts'[b].prefillStart # None,
                      attempts'[b].prefillWork < MaximumPrefillWork(b)'
               PROVE  \E c \in done' \ {b} :
                        /\ attempts'[c].finish <= attempts'[b].prefillStart
                        /\ attempts'[c].terminal = "COMPLETED" \/ attempts'[c].plan.reusable
                        /\ PrefixOf(b)'[1] \in ToSet(PrefixOf(c)')
  BY DEF HitFits
<1>2. attempts[b].prefillStart # None /\ attempts[b].prefillWork < MaximumPrefillWork(b)
  BY <1>1 DEF DoneKept, MaximumPrefillWork, PrefixOf, Tokens
<1>3. PICK c \in done \ {b} :
             /\ attempts[c].finish <= attempts[b].prefillStart
             /\ attempts[c].terminal = "COMPLETED" \/ attempts[c].plan.reusable
             /\ PrefixOf(b)[1] \in ToSet(PrefixOf(c))
  BY <1>2 DEF HitFits
<1>4. QED
  BY <1>3 DEF DoneKept, PrefixOf

LEMMA KeepsHits ==
    ASSUME HitsComeFromPublishedWork, DoneKept,
           \A b \in DOMAIN attempts' :
               \/ attempts'[b].prefillStart = None
               \/ /\ b \in DOMAIN attempts
                  /\ attempts'[b].prefillStart = attempts[b].prefillStart
                  /\ attempts'[b].prefillWork = attempts[b].prefillWork
    PROVE  HitsComeFromPublishedWork'
<1>1. \A b \in DOMAIN attempts : HitFits(b)
  BY DEF HitsComeFromPublishedWork, HitFits
<1>2. \A b \in DOMAIN attempts' : HitFits(b)'
  <2>1. SUFFICES ASSUME NEW b \in DOMAIN attempts' PROVE HitFits(b)'
    OBVIOUS
  <2>2. CASE attempts'[b].prefillStart = None
    BY <2>2 DEF HitFits
  <2>3. CASE attempts'[b].prefillStart # None
    BY <1>1, <2>3, KeepsHit
  <2>4. QED
    BY <2>2, <2>3
<1>3. QED
  BY <1>2 DEF HitsComeFromPublishedWork, HitFits

\* The attempts that are ready and have not started, at one node.
Queued(p) == {a \in Pending : attempts[a].plan.p = p /\ attempts[a].prefillStart = None}
WorkOf(s) == SumFunctionOnSet([a \in s |-> MaximumPrefillWork(a)], s)

LEMMA ProxyIsWork ==
    QueueProxyExact <=> \A p \in PNodes : queuedWork[p] = WorkOf(Queued(p))
BY DEF QueueProxyExact, Queued, WorkOf, SumFunction

LEMMA WorkGrows ==
    ASSUME NEW s, IsFiniteSet(s), NEW a, a \notin s,
           \A b \in s \cup {a} : MaximumPrefillWork(b) \in Nat
    PROVE  WorkOf(s \cup {a}) = MaximumPrefillWork(a) + WorkOf(s)
<1> DEFINE f == [b \in s \cup {a} |-> MaximumPrefillWork(b)]
           h == [b \in s |-> MaximumPrefillWork(b)]
<1>1. \A b \in s \cup {a} : f[b] \in Int
  OBVIOUS
<1>2. \A b \in s : f[b] \in Int /\ h[b] = f[b]
  OBVIOUS
<1>3. f[a] = MaximumPrefillWork(a)
  OBVIOUS
<1>4. WorkOf(s \cup {a}) = SumFunctionOnSet(f, s \cup {a}) /\ WorkOf(s) = SumFunctionOnSet(h, s)
  BY DEF WorkOf
<1> HIDE DEF f, h
<1>5. SumFunctionOnSet(f, s \cup {a}) = f[a] + SumFunctionOnSet(f, s)
  BY <1>1, SumPutsIn
<1>6. SumFunctionOnSet(h, s) = SumFunctionOnSet(f, s)
  BY <1>2, SumsAgree
<1>7. QED
  BY <1>3, <1>4, <1>5, <1>6

\* Few enough attempts to count: their keys are bounded.
LEMMA AttemptsAreFinite ==
    ASSUME KernelTypeOK
    PROVE  IsFiniteSet(DOMAIN attempts)
<1>1. Len(workload) \in Nat /\ RetryBudget \in Nat
  BY KernelAssumption DEF KernelTypeOK
<1>2. IsFiniteSet(1..Len(workload)) /\ IsFiniteSet(0..RetryBudget)
  BY <1>1, FS_Interval
<1>3. IsFiniteSet(AttemptKey)
  BY <1>2, FS_Product DEF AttemptKey
<1>4. QED
  BY <1>3, FS_Subset DEF KernelTypeOK

LEMMA KeepsProxy ==
    ASSUME QueueProxyExact, workload' = workload, queuedWork' = queuedWork,
           \A p \in PNodes : Queued(p)' = Queued(p)
    PROVE  QueueProxyExact'
<1>1. \A p \in PNodes : queuedWork[p] = WorkOf(Queued(p))
  BY ProxyIsWork
<1>2. \A p \in PNodes : WorkOf(Queued(p))' = WorkOf(Queued(p))
  BY DEF WorkOf, MaximumPrefillWork, Tokens, PrefixOf
<1>3. \A p \in PNodes : (queuedWork[p] = WorkOf(Queued(p)))'
  BY <1>1, <1>2
<1>4. QED
  BY <1>3 DEF QueueProxyExact, Queued, WorkOf, SumFunction

\* No prefill node, and no attempt on its way through one, is touched.
NoPrefillMoves ==
    /\ DOMAIN attempts \subseteq DOMAIN attempts'
    /\ \A b \in DOMAIN attempts :
          /\ attempts'[b].plan = attempts[b].plan
          /\ attempts'[b].ready = attempts[b].ready
          /\ attempts'[b].prefillStart = attempts[b].prefillStart
          /\ attempts'[b].prefillFinish = attempts[b].prefillFinish
          /\ attempts'[b].prefillWork = attempts[b].prefillWork
    /\ \A b \in DOMAIN attempts' \ DOMAIN attempts :
          attempts'[b].ready = None /\ attempts'[b].prefillStart = None
    /\ \A f : f.kind \in PrefillKinds => (f \in queue' <=> f \in queue)
    /\ UNCHANGED <<workload, busy, waiting, queuedWork>>
    /\ serial \in Nat /\ serial' \in Nat /\ serial <= serial'

LEMMA KeepsNodeInv ==
    ASSUME KernelTypeOK, LifeInv, NodeInv, NoPrefillMoves
    PROVE  NodeInv'
<1>1. \A f \in queue : f.kind \in PrefillKinds => f.attempt \in DOMAIN attempts
  BY DEF LifeInv, EventFits, PrefillKinds
<1>2. \A f \in queue', q \in PNodes : InPrefill(f, q)' <=> f \in queue /\ InPrefill(f, q)
  BY <1>1 DEF InPrefill, NoPrefillMoves
<1>3. \A f \in queue, q \in PNodes : InPrefill(f, q) => f \in queue'
  BY DEF InPrefill, NoPrefillMoves
<1>4. ASSUME NEW q \in PNodes PROVE NodeFits(q)'
  <2>1. NodeFits(q) /\ waiting'[q] = waiting[q] /\ (busy'[q] <=> busy[q])
    BY DEF NodeInv, NoPrefillMoves
  <2>2. \A w \in waiting[q] : w.seq \in Nat
    BY DEF KernelTypeOK
  <2>3. \A w \in waiting[q] : w.seq < serial'
    BY <2>1, <2>2 DEF NodeFits, NoPrefillMoves
  <2>4. \A w \in waiting[q] :
          /\ w.attempt \in DOMAIN attempts'
          /\ attempts'[w.attempt].plan.p = q
          /\ attempts'[w.attempt].ready = w.at
          /\ attempts'[w.attempt].prefillStart = None
    BY <2>1 DEF NodeFits, NoPrefillMoves
  <2>5. /\ \A f, g \in queue' : InPrefill(f, q)' /\ InPrefill(g, q)' => f = g
        /\ busy'[q] <=> \E f \in queue' : InPrefill(f, q)'
    BY <1>2, <1>3, <2>1 DEF NodeFits
  <2>6. QED
    BY <2>1, <2>3, <2>4, <2>5 DEF NodeFits
<1>5. QED
  BY <1>4 DEF NodeInv

LEMMA KeepsOrderInv ==
    ASSUME OrderInv, NoPrefillMoves
    PROVE  OrderInv'
<1>1. Pending' = Pending
  BY DEF Pending, NoPrefillMoves
<1>2. \A q : WaitingFor(q)' = WaitingFor(q)
  BY DEF WaitingFor, NoPrefillMoves
<1>3. ASSUME NEW x \in Pending', NEW y \in Pending', x # y,
             (attempts[x].plan.p = attempts[y].plan.p)'
      PROVE  InOrder(x, y)'
  <2>1. /\ x \in Pending /\ y \in Pending
        /\ x \in DOMAIN attempts /\ y \in DOMAIN attempts
    BY <1>1, <1>3 DEF Pending
  <2>2. attempts[x].plan.p = attempts[y].plan.p
    BY <1>3, <2>1 DEF NoPrefillMoves
  <2>3. InOrder(x, y)
    BY <1>3, <2>1, <2>2 DEF OrderInv
  <2>4. WaitingFor(attempts[x].plan.p)' = WaitingFor(attempts[x].plan.p)
    BY <1>2, <2>1 DEF NoPrefillMoves, WaitingFor
  <2>5. QED
    BY <2>1, <2>3, <2>4 DEF InOrder, NoPrefillMoves
<1>4. QED
  BY <1>3 DEF OrderInv

LEMMA KeepsQueued ==
    ASSUME NoPrefillMoves
    PROVE  \A p \in PNodes : Queued(p)' = Queued(p)
BY DEF Queued, Pending, NoPrefillMoves

-----------------------------------------------------------------------------
\* An attempt becomes ready, and starts or waits.
LEMMA ReadyKeepsInv ==
    ASSUME KernelInv, NEW e \in queue, AttemptReady(e)
    PROVE  KernelInv'
<1>0. PICK a, t, p, entry, start :
           /\ a = e.attempt /\ t = attempts[a] /\ p = t.plan.p
           /\ entry = [at |-> e.at, seq |-> serial, attempt |-> a]
           /\ start = Event("PREFILL_START", e.at, serial, a)
  OBVIOUS
<1>1. /\ now' = e.at /\ now' \in 0..End /\ now <= now' /\ e.kind = "ATTEMPT_READY"
      /\ \A f \in queue : now' <= f.at
      /\ now \in Nat /\ now' \in Nat
  BY PopsForward, SMTT(30) DEF KernelInv, AttemptReady, KernelTypeOK
<1>2. /\ a \in DOMAIN attempts /\ a \in AttemptKey /\ t \in AttemptRecord /\ p \in PNodes
      /\ t.ready = None /\ t.prefillStart = None /\ t.prefillFinish = None
      /\ t.decodeStart = None /\ a \notin done
  <2>1. a \in DOMAIN attempts /\ t.ready = None
    BY <1>0, <1>1 DEF KernelInv, LifeInv, EventFits
  <2>2. AttemptShape(a) /\ a \in AttemptKey /\ t \in AttemptRecord
    BY <1>0, <2>1 DEF KernelInv, LifeInv, KernelTypeOK
  <2>3. QED
    BY <1>0, <2>1, <2>2 DEF AttemptShape, AttemptRecord, Plan
<1>3. /\ DOMAIN attempts' = DOMAIN attempts
      /\ attempts'[a] = [t EXCEPT !.ready = now']
      /\ \A b \in DOMAIN attempts : b # a => attempts'[b] = attempts[b]
      /\ UNCHANGED <<workload, cache, dAvailable, done>>
      /\ serial' = serial + 1
  BY <1>0, <1>1, <1>2 DEF AttemptReady
<1>4. \A b \in DOMAIN attempts :
        /\ attempts'[b].plan = attempts[b].plan
        /\ attempts'[b].prefillStart = attempts[b].prefillStart
        /\ attempts'[b].prefillFinish = attempts[b].prefillFinish
        /\ attempts'[b].decodeStart = attempts[b].decodeStart
        /\ attempts'[b].finish = attempts[b].finish
        /\ attempts'[b].fence = attempts[b].fence
        /\ attempts'[b].terminal = attempts[b].terminal
        /\ attempts'[b].emitted = attempts[b].emitted
        /\ attempts'[b].prefillWork = attempts[b].prefillWork
        /\ attempts'[b].ready = IF b = a THEN now' ELSE attempts[b].ready
  BY <1>0, <1>2, <1>3 DEF AttemptRecord
<1>5. \/ /\ busy[p] /\ busy' = busy /\ queue' = queue \ {e}
         /\ waiting' = [waiting EXCEPT ![p] = @ \cup {entry}]
      \/ /\ ~busy[p] /\ waiting[p] = {} /\ waiting' = waiting
         /\ busy' = [busy EXCEPT ![p] = TRUE]
         /\ queue' = (queue \ {e}) \cup {start}
  <2>1. /\ busy \in [PNodes -> BOOLEAN] /\ DOMAIN waiting = PNodes
        /\ waiting = [q \in PNodes |-> waiting[q]]
    BY DEF KernelInv, KernelTypeOK
  <2>2. CASE busy[p]
    BY <1>0, <1>2, <2>1, <2>2 DEF AttemptReady
  <2>3. CASE ~busy[p]
    <3>1. waiting[p] = {}
      BY <1>0, <1>2, <2>3 DEF KernelInv, NodeInv, NodeFits
    <3>2. First({entry}) = entry
      BY DEF First
    <3>3. waiting[p] \cup {entry} = {entry} /\ {entry} \ {First({entry})} = {}
      BY <3>1, <3>2
    <3>4. First(waiting[p] \cup {entry}).attempt = a
      <4>1. First(waiting[p] \cup {entry}) = entry
        BY <3>2, <3>3, Zenon
      <4>2. entry = [at |-> e.at, seq |-> serial, attempt |-> a]
        BY <1>0, Zenon
      <4>3. entry.attempt = a
        BY <4>2, Zenon
      <4>4. QED
        BY <4>1, <4>3, Zenon
    <3>5. waiting' = [waiting EXCEPT ![p] = {}]
      BY <1>0, <2>3, <3>3 DEF AttemptReady
    <3>6. waiting' = waiting
      BY <2>1, <3>1, <3>5
    <3>7. /\ busy' = [busy EXCEPT ![p] = TRUE]
          /\ queue' = (queue \ {e}) \cup
                        {Event("PREFILL_START", e.at, serial,
                               First(waiting[p] \cup {entry}).attempt)}
      BY <1>0, <2>3 DEF AttemptReady
    <3>8. queue' = (queue \ {e}) \cup {start}
      BY <1>0, <3>4, <3>7
    <3>9. QED
      BY <2>3, <3>1, <3>6, <3>7, <3>8
  <2>4. QED
    BY <1>2, <2>1, <2>2, <2>3
<1>6. /\ \A f \in queue' : f \in queue \/ (~busy[p] /\ f = start)
      /\ \A f \in queue : f \in queue' \/ f = e
      /\ e \notin queue'
      /\ ~busy[p] => start \in queue'
      /\ start.kind = "PREFILL_START" /\ start.at = now' /\ start.attempt = a
  <2>1. start = Event("PREFILL_START", e.at, serial, a)
    BY <1>0
  <2>2. start.kind = "PREFILL_START" /\ start.at = e.at /\ start.attempt = a
    BY <2>1 DEF Event
  <2>3. e.kind = "ATTEMPT_READY" /\ now' = e.at
    BY <1>1
  <2>4. start # e
    BY <2>2, <2>3
  <2>5. \/ busy[p] /\ queue' = queue \ {e}
        \/ ~busy[p] /\ queue' = (queue \ {e}) \cup {start}
    BY <1>5
  <2>6. QED
    BY <2>2, <2>3, <2>4, <2>5
<1>7. KernelTypeOK'
  <2>1. queue' \subseteq [kind: Kinds, at: Nat, seq: Nat, attempt: AttemptKey]
    <3>1. start \in [kind: Kinds, at: Nat, seq: Nat, attempt: AttemptKey]
      BY <1>0, <1>1, <1>2 DEF KernelInv, KernelTypeOK, Event, Kinds
    <3>2. QED
      BY <1>6, <3>1 DEF KernelInv, KernelTypeOK
  <2>2. \A b \in DOMAIN attempts' : attempts'[b] \in AttemptRecord
    BY <1>1, <1>2, <1>3 DEF KernelInv, KernelTypeOK, AttemptRecord
  <2>3. waiting' \in [PNodes -> SUBSET [at: Nat, seq: Nat, attempt: AttemptKey]]
    <3>1. entry \in [at: Nat, seq: Nat, attempt: AttemptKey]
      BY <1>0, <1>1, <1>2 DEF KernelInv, KernelTypeOK
    <3>2. QED
      BY <1>2, <1>5, <3>1 DEF KernelInv, KernelTypeOK
  <2>4. queuedWork' \in [PNodes -> Nat]
    <3>1. MaximumPrefillWork(a) \in Nat
      BY <1>2, RequestOf DEF KernelInv, KernelTypeOK
    <3>2. queuedWork' = [queuedWork EXCEPT ![p] = @ + MaximumPrefillWork(a)]
      BY <1>0 DEF AttemptReady
    <3>3. QED
      BY <1>2, <3>1, <3>2 DEF KernelInv, KernelTypeOK
  <2>5. serial' \in Nat /\ busy' \in [PNodes -> BOOLEAN]
    <3>1. serial \in Nat /\ busy \in [PNodes -> BOOLEAN]
      BY DEF KernelInv, KernelTypeOK
    <3>2. busy' = busy \/ busy' = [busy EXCEPT ![p] = TRUE]
      BY <1>5
    <3>3. busy' \in [PNodes -> BOOLEAN]
      BY <3>1, <3>2
    <3>4. QED
      BY <1>3, <3>1, <3>3
  <2>6. QED
    BY <1>1, <1>3, <2>1, <2>2, <2>3, <2>4, <2>5 DEF KernelInv, KernelTypeOK, AttemptKey
<1>8. LifeInv'
  <2>1. ASSUME NEW b \in DOMAIN attempts' PROVE AttemptShape(b)' /\ AttemptGoesOn(b)'
    <3>1. CASE b = a
      <4>1. AttemptShape(b)'
        BY <1>0, <1>1, <1>2, <1>3, <1>4, <3>1 DEF AttemptShape, None
      <4>2. busy[p] => a \in {w.attempt : w \in waiting'[p]}
        <5>1. busy[p] => entry \in waiting'[p]
          BY <1>2, <1>5 DEF KernelInv, KernelTypeOK
        <5>2. QED
          BY <1>0, <5>1
      <4>3. ~busy[p] => Has(a, {"PREFILL_START"})'
        BY <1>6 DEF Has
      <4>4. AttemptGoesOn(b)'
        BY <1>0, <1>1, <1>2, <1>4, <3>1, <4>2, <4>3 DEF AttemptGoesOn, WaitingFor, None
      <4>5. QED
        BY <4>1, <4>4
    <3>2. CASE b # a
      <4>1. b \in DOMAIN attempts /\ AttemptShape(b) /\ AttemptGoesOn(b)
        BY <1>3, <2>1 DEF KernelInv, LifeInv
      <4>2. attempts[b].plan.p \in PNodes
        BY <4>1 DEF KernelInv, KernelTypeOK, AttemptRecord, Plan
      <4>3. \A f \in queue : f.attempt = b => f \in queue'
        BY <1>0, <1>6, <3>2
      <4>4. \A q \in PNodes : \A w \in waiting[q] : w \in waiting'[q]
        BY <1>5 DEF KernelInv, KernelTypeOK
      <4>5. QED
        BY <1>1, <1>3, <3>2, <4>1, <4>2, <4>3, <4>4, KeepsAttempt DEF KernelInv
    <3>3. QED
      BY <3>1, <3>2
  <2>2. ASSUME NEW f \in queue' PROVE EventFits(f)'
    <3>1. CASE f \in queue /\ f # e
      <4>1. EventFits(f) /\ now' <= f.at /\ f.kind \in Kinds
        BY <1>1, <3>1 DEF KernelInv, LifeInv, KernelTypeOK
      <4>2. f.kind # "ARRIVAL" => f.attempt \in DOMAIN attempts /\ f.attempt # a
        BY <1>0, <1>1, <1>2, <3>1, <4>1
           DEF KernelInv, LifeInv, OneNextEvent, NextKinds, Kinds, EventFits
      <4>3. Has(f.attempt, {"DECODE_START"})' => Has(f.attempt, {"DECODE_START"})
        BY <1>6 DEF Has
      <4>4. ASSUME f.kind = "PREFILL_START"
            PROVE  \A w \in waiting'[attempts[f.attempt].plan.p] : w.attempt # f.attempt
        <5>1. attempts[f.attempt].plan.p \in PNodes
          BY <4>2, <4>4 DEF KernelInv, KernelTypeOK, AttemptRecord, Plan
        <5>2. \A q \in PNodes : \A w \in waiting'[q] : w \in waiting[q] \/ w = entry
          BY <1>5 DEF KernelInv, KernelTypeOK
        <5>3. \A w \in waiting[attempts[f.attempt].plan.p] : w.attempt # f.attempt
          BY <4>1, <4>4 DEF EventFits, WaitingFor
        <5>4. QED
          BY <1>0, <4>2, <4>4, <5>1, <5>2, <5>3
      <4>5. QED
        BY <1>1, <1>3, <3>1, <4>1, <4>2, <4>3, <4>4, KeepsEvent, KeepsArrival DEF KernelInv
    <3>2. CASE ~busy[p] /\ f = start
      <4>1. waiting'[p] = {} /\ attempts'[a].plan.p = p
        BY <1>0, <1>4, <1>2, <1>5, <3>2
      <4>2. /\ f.kind = "PREFILL_START" /\ f.at = now' /\ f.attempt = a
            /\ attempts'[a].ready # None /\ attempts'[a].prefillStart = None
        BY <1>0, <1>1, <1>2, <1>4, <1>6, <3>2 DEF None
      <4>3. QED
        BY <1>2, <1>3, <1>1, <4>1, <4>2 DEF EventFits, WaitingFor
    <3>3. QED
      BY <1>6, <3>1, <3>2
  <2>3. OneNextEvent'
    BY <1>0, <1>1, <1>6 DEF KernelInv, LifeInv, OneNextEvent, NextKinds, Kinds
  <2>4. OneAttemptAtATime'
    BY <1>3, <1>4 DEF KernelInv, LifeInv, OneAttemptAtATime
  <2>5. QED
    BY <2>1, <2>2, <2>3, <2>4 DEF LifeInv
<1>9. NodeInv'
  <2>1. \A f \in queue, q \in PNodes : InPrefill(f, q)' <=> InPrefill(f, q)
    <3>1. \A f \in queue : f.kind \in PrefillKinds => f.attempt \in DOMAIN attempts
      BY DEF KernelInv, LifeInv, EventFits, PrefillKinds
    <3>2. QED
      BY <1>4, <3>1 DEF InPrefill
  <2>2. ASSUME NEW q \in PNodes
        PROVE  (InPrefill(start, q)' <=> q = p) /\ ~InPrefill(e, q)
    BY <1>0, <1>1, <1>2, <1>4, <1>6 DEF InPrefill, PrefillKinds
  <2>3. ASSUME NEW q \in PNodes PROVE NodeFits(q)'
    <3>1. NodeFits(q)
      BY DEF KernelInv, NodeInv
    <3>2. CASE q = p /\ ~busy[p]
      <4>1. waiting'[q] = {} /\ busy'[q]
        BY <1>2, <1>5, <3>2 DEF KernelInv, KernelTypeOK
      <4>2. \A f \in queue' : InPrefill(f, q)' <=> f = start
        BY <1>6, <2>1, <2>2, <3>1, <3>2 DEF NodeFits
      <4>3. start \in queue'
        BY <1>6, <3>2
      <4>4. QED
        BY <4>1, <4>2, <4>3, FS_EmptySet DEF NodeFits
    <3>3. CASE ~(q = p /\ ~busy[p])
      <4>1. \A f \in queue' : InPrefill(f, q)' <=> f \in queue /\ InPrefill(f, q)
        BY <1>6, <2>1, <2>2, <3>3
      <4>2. \A f \in queue : InPrefill(f, q) => f \in queue'
        BY <1>6, <2>2
      <4>3. busy'[q] <=> busy[q]
        BY <1>2, <1>5, <3>3 DEF KernelInv, KernelTypeOK
      <4>4. /\ waiting'[q] = waiting[q] \/ (q = p /\ busy[p] /\ waiting'[q] = waiting[q] \cup {entry})
        BY <1>2, <1>5, <3>3 DEF KernelInv, KernelTypeOK
      <4>5. IsFiniteSet(waiting'[q])
        BY <3>1, <4>4, FS_AddElement DEF NodeFits
      <4>6. serial \in Nat /\ \A w \in waiting[q] : w.attempt # a /\ w.seq \in Nat
        BY <1>0, <1>2, <3>1 DEF NodeFits, KernelInv, KernelTypeOK, AttemptGoesOn, None
      <4>7. QED
        BY <1>0, <1>1, <1>2, <1>3, <1>4, <3>1, <4>1, <4>2, <4>3, <4>4, <4>5, <4>6 DEF NodeFits
    <3>4. QED
      BY <3>2, <3>3
  <2>4. QED
    BY <2>3 DEF NodeInv
<1>10. OrderInv'
  <2>1. Pending' = Pending \cup {a}
    BY <1>0, <1>1, <1>2, <1>3, <1>4 DEF Pending, None
  <2>2. a \notin Pending
    BY <1>0, <1>2 DEF Pending
  <2>3. \A q \in PNodes : \A x : x # a => ((x \in WaitingFor(q))' <=> x \in WaitingFor(q))
    BY <1>0, <1>2, <1>5 DEF WaitingFor, KernelInv, KernelTypeOK
  <2>4. \A x \in Pending : x \in DOMAIN attempts /\ attempts[x].plan.p \in PNodes
                           /\ attempts[x].ready \in Nat /\ attempts[x].ready <= now
    <3>1. SUFFICES ASSUME NEW x \in Pending
                   PROVE  x \in DOMAIN attempts /\ attempts[x].plan.p \in PNodes
                            /\ attempts[x].ready \in Nat /\ attempts[x].ready <= now
      OBVIOUS
    <3>2. attempts[x] \in AttemptRecord /\ attempts[x].ready # None /\ AttemptShape(x)
      BY DEF Pending, KernelInv, KernelTypeOK, LifeInv
    <3>3. QED
      BY <3>2 DEF Pending, AttemptRecord, Plan, AttemptShape, None
  <2>5. ASSUME NEW x \in Pending', NEW y \in Pending', x # y,
               (attempts[x].plan.p = attempts[y].plan.p)'
        PROVE  InOrder(x, y)'
    <3>1. CASE x # a /\ y # a
      <4>0. x \in Pending /\ y \in Pending /\ attempts[x].plan.p = attempts[y].plan.p
        BY <1>4, <2>1, <2>4, <2>5, <3>1
      <4>1. InOrder(x, y) /\ x \in Pending /\ y \in Pending
        BY <2>5, <4>0 DEF KernelInv, OrderInv
      <4>2. attempts'[x] = attempts[x] /\ attempts'[y] = attempts[y]
        BY <1>3, <2>4, <3>1, <4>1
      <4>3. /\ (x \in WaitingFor(attempts[x].plan.p))' <=> x \in WaitingFor(attempts[x].plan.p)
            /\ (y \in WaitingFor(attempts[x].plan.p))' <=> y \in WaitingFor(attempts[x].plan.p)
        BY <2>3, <2>4, <3>1, <4>1, <4>2 DEF WaitingFor
      <4>4. QED
        BY <4>1, <4>2, <4>3 DEF InOrder
    <3>2. CASE x = a
      <4>1. attempts'[a].prefillStart = None /\ attempts'[a].plan.p = p
        BY <1>0, <1>2, <1>4
      <4>2. (a \notin WaitingFor(p))' => (waiting'[p] = {})
        BY <1>0, <1>2, <1>4, <1>5 DEF WaitingFor, KernelInv, KernelTypeOK
      <4>3. QED
        BY <1>0, <3>2, <4>1, <4>2 DEF InOrder, WaitingFor
    <3>3. CASE y = a
      <4>0. x \in Pending /\ x # a
        BY <2>1, <2>5, <3>3
      <4>1. attempts'[x].ready <= now /\ attempts'[a].ready = now' /\ attempts'[x].ready \in Nat
        BY <1>2, <1>4, <2>4, <4>0
      <4>2. attempts'[a].prefillStart = None
        BY <1>0, <1>2, <1>4
      <4>3. QED
        BY <1>1, <3>3, <4>1, <4>2 DEF InOrder
    <3>4. QED
      BY <3>1, <3>2, <3>3
  <2>6. QED
    BY <2>5 DEF OrderInv
<1>11. NoDecodeMoves
  BY <1>3, <1>4 DEF NoDecodeMoves, Kept
<1>12. SleepInv'
  <2>1. \A f : f.kind = "DECODE_START" => (f \in queue' <=> f \in queue)
    BY <1>1, <1>6
  <2>2. \A f \in queue : f.kind = "DECODE_START" => f.attempt \in DOMAIN attempts
    BY DEF KernelInv, LifeInv, EventFits
  <2>3. QED
    BY <1>1, <1>3, <1>4, <1>11, <2>1, <2>2, KeepsSleepInv DEF KernelInv
<1>13. DecodeInv' /\ CacheInv' /\ HitsComeFromPublishedWork'
  <2>1. DoneKept
    BY <1>3, <1>4 DEF DoneKept, KernelInv, KernelTypeOK
  <2>2. QED
    BY <1>3, <1>4, <1>11, <2>1, KeepsDecodeInv, KeepsCacheInv, KeepsHits DEF KernelInv
<1>14. QueueProxyExact'
  <2>1. ASSUME NEW q \in PNodes PROVE Queued(q)' = IF q = p THEN Queued(p) \cup {a} ELSE Queued(q)
    BY <1>0, <1>1, <1>2, <1>3, <1>4, <2>1 DEF Queued, Pending, None
  <2>2. queuedWork' = [queuedWork EXCEPT ![p] = @ + MaximumPrefillWork(a)]
    BY <1>0 DEF AttemptReady
  <2>3. \A q \in PNodes : queuedWork[q] = WorkOf(Queued(q))
    BY ProxyIsWork DEF KernelInv
  <2>4. WorkOf(Queued(p) \cup {a}) = MaximumPrefillWork(a) + WorkOf(Queued(p))
    <3>1. IsFiniteSet(Queued(p)) /\ Queued(p) \subseteq DOMAIN attempts
      BY AttemptsAreFinite, FS_Subset DEF KernelInv, Queued, Pending
    <3>2. \A b \in DOMAIN attempts : MaximumPrefillWork(b) \in Nat
      BY RequestOf DEF KernelInv, KernelTypeOK
    <3>3. a \notin Queued(p)
      BY <1>0, <1>2 DEF Queued, Pending
    <3>4. QED
      BY <1>2, <3>1, <3>2, <3>3, WorkGrows
  <2>5. \A s : WorkOf(s)' = WorkOf(s)
    BY <1>3 DEF WorkOf, MaximumPrefillWork, Tokens, PrefixOf
  <2>6. ASSUME NEW q \in PNodes PROVE (queuedWork[q] = WorkOf(Queued(q)))'
    <3>1. queuedWork'[q] = IF q = p THEN queuedWork[p] + MaximumPrefillWork(a) ELSE queuedWork[q]
      BY <2>2 DEF KernelInv, KernelTypeOK
    <3>2. WorkOf(Queued(q))' = IF q = p THEN WorkOf(Queued(p) \cup {a}) ELSE WorkOf(Queued(q))
      BY <2>1, <2>5
    <3>3. queuedWork[p] \in Nat /\ MaximumPrefillWork(a) \in Nat
      BY <1>2, RequestOf DEF KernelInv, KernelTypeOK
    <3>4. QED
      BY <1>2, <2>3, <2>4, <3>1, <3>2, <3>3
  <2>7. QED
    BY <2>6 DEF QueueProxyExact, Queued, WorkOf, SumFunction
<1>15. QED
  BY <1>7, <1>8, <1>9, <1>10, <1>12, <1>13, <1>14 DEF KernelInv
-----------------------------------------------------------------------------
\* A wake-up that outlived its attempt's start is dropped.
LEMMA StaleKeepsInv ==
    ASSUME KernelInv, NEW e \in queue, StaleDecodeStart(e)
    PROVE  KernelInv'
<1>0. PICK a : a = e.attempt
  OBVIOUS
<1>1. /\ now' = e.at /\ now' \in 0..End /\ now <= now' /\ e.kind = "DECODE_START"
      /\ \A f \in queue : now' <= f.at
      /\ now \in Nat /\ now' \in Nat
  BY PopsForward DEF KernelInv, StaleDecodeStart, KernelTypeOK
<1>2. a \in DOMAIN attempts /\ attempts[a].decodeStart # None
  BY <1>0, <1>1 DEF KernelInv, LifeInv, EventFits, StaleDecodeStart, Stale
<1>3. /\ UNCHANGED <<workload, serial, attempts, cache, busy, waiting, queuedWork, dAvailable, done>>
      /\ queue' = queue \ {e}
  BY DEF StaleDecodeStart
<1>4. KernelTypeOK'
  BY <1>1, <1>3 DEF KernelInv, KernelTypeOK, AttemptKey
<1>5. LifeInv'
  <2>1. ASSUME NEW b \in DOMAIN attempts' PROVE AttemptShape(b)' /\ AttemptGoesOn(b)'
    <3>1. b \in DOMAIN attempts /\ AttemptShape(b) /\ AttemptGoesOn(b) /\ attempts[b] \in AttemptRecord
      BY <1>3, <2>1 DEF KernelInv, LifeInv, KernelTypeOK
    <3>2. CASE b # a
      BY <1>0, <1>1, <1>3, <3>1, <3>2, KeepsAttempt DEF KernelInv
    <3>3. CASE b = a
      <4>1. \A kinds : "DECODE_START" \notin kinds => (Has(a, kinds)' <=> Has(a, kinds))
        BY <1>1, <1>3 DEF Has
      <4>2. AttemptShape(b)'
        BY <1>1, <1>3, <3>1, <3>3, <4>1 DEF AttemptShape, AttemptRecord, None
      <4>3. AttemptGoesOn(b)'
        <5>1. attempts[a].prefillStart # None /\ attempts[a].ready # None
          BY <1>2, <3>1, <3>3 DEF AttemptShape
        <5>2. Has(a, DecodeKinds)' <=> Has(a, DecodeKinds)
          BY <4>1 DEF DecodeKinds
        <5>3. QED
          BY <1>2, <1>3, <3>1, <3>3, <5>1, <5>2 DEF AttemptGoesOn
      <4>4. QED
        BY <4>2, <4>3
    <3>4. QED
      BY <3>2, <3>3
  <2>2. ASSUME NEW f \in queue' PROVE EventFits(f)'
    <3>1. f \in queue /\ EventFits(f) /\ now' <= f.at
      BY <1>1, <1>3, <2>2 DEF KernelInv, LifeInv
    <3>2. Has(f.attempt, {"DECODE_START"})' => Has(f.attempt, {"DECODE_START"})
      BY <1>3 DEF Has
    <3>3. CASE f.kind = "ARRIVAL"
      BY <1>3, <3>1, <3>3, KeepsArrival, ZenonT(40)
    <3>4. CASE f.kind # "ARRIVAL"
      <4>1. f.attempt \in DOMAIN attempts
        BY <3>1, <3>4 DEF EventFits
      <4>2. f.kind = "PREFILL_START" =>
               \A w \in waiting'[attempts[f.attempt].plan.p] : w.attempt # f.attempt
        BY <1>3, <3>1 DEF EventFits, WaitingFor
      <4>3. QED
        BY <1>1, <1>3, <3>1, <3>2, <3>4, <4>1, <4>2, KeepsEvent DEF KernelInv
    <3>5. QED
      BY <3>3, <3>4
  <2>3. OneNextEvent' /\ OneAttemptAtATime'
    BY <1>3 DEF KernelInv, LifeInv, OneNextEvent, OneAttemptAtATime
  <2>4. QED
    BY <2>1, <2>2, <2>3 DEF LifeInv
<1>6. NoPrefillMoves
  <2>1. \A f : f.kind \in PrefillKinds => (f \in queue' <=> f \in queue)
    BY <1>1, <1>3 DEF PrefillKinds
  <2>2. QED
    BY <1>3, <2>1 DEF NoPrefillMoves, KernelInv, KernelTypeOK
<1>7. NoDecodeMoves /\ DoneKept
  BY <1>3 DEF NoDecodeMoves, Kept, DoneKept, KernelInv, KernelTypeOK
<1>8. SleepInv'
  <2>1. SUFFICES ASSUME NEW b \in DOMAIN attempts, ~Started(b), Has(b, {"DECODE_START"})'
                 PROVE  \E f \in queue' :
                          /\ f.attempt = b /\ f.kind = "DECODE_START"
                          /\ \/ f.at <= now'
                             \/ f.at <= dAvailable'[attempts'[b].plan.d]
                             \/ f.at <= attempts'[b].fence
    BY <1>3 DEF SleepInv, Started
  <2>2. Has(b, {"DECODE_START"}) /\ b # a
    BY <1>2, <1>3, <2>1 DEF Has, Started
  <2>3. PICK f \in queue :
               /\ f.attempt = b /\ f.kind = "DECODE_START"
               /\ \/ f.at <= now
                  \/ f.at <= dAvailable[attempts[b].plan.d]
                  \/ f.at <= attempts[b].fence
    BY <2>1, <2>2 DEF KernelInv, SleepInv
  <2>4. f.at \in Nat /\ f \in queue'
    BY <1>0, <1>3, <2>2, <2>3 DEF KernelInv, KernelTypeOK
  <2>5. QED
    BY <1>1, <1>3, <2>3, <2>4
<1>9. NodeInv' /\ OrderInv' /\ QueueProxyExact'
  BY <1>3, <1>6, KeepsNodeInv, KeepsOrderInv, KeepsQueued, KeepsProxy DEF KernelInv
<1>10. DecodeInv' /\ CacheInv'
  BY <1>3, <1>7, KeepsDecodeInv, KeepsCacheInv DEF KernelInv
<1>11. HitsComeFromPublishedWork'
  BY <1>3, <1>7, KeepsHits DEF KernelInv
<1>12. QED
  BY <1>4, <1>5, <1>8, <1>9, <1>10, <1>11 DEF KernelInv
-----------------------------------------------------------------------------
(* The turn of a decode: it runs, or is looked at again.  A prefill node    *)
(* that is done hands over to the attempt it starts in the same step.       *)

Turn(a, fence, lease, others, seq) ==
    IF Admissible(a, fence) THEN Decodes(a, fence, lease, others, seq)
                            ELSE Gated(a, fence, others, seq)

\* Whom the starts of a step take out of a waiting line, and how.
HandsOver(starts) ==
    /\ waiting' \in [PNodes -> SUBSET [at: Nat, seq: Nat, attempt: AttemptKey]]
    /\ \A q \in PNodes :
          /\ waiting'[q] \subseteq waiting[q]
          /\ \A w \in waiting[q] : w \in waiting'[q] \/ \E f \in starts : f.attempt = w.attempt
    /\ \A f \in starts :
          /\ f \in [kind: {"PREFILL_START"}, at: {now'}, seq: Nat, attempt: AttemptKey]
          /\ \E q \in PNodes : \E w \in waiting[q] : w.attempt = f.attempt
          /\ \A q \in PNodes : \A w \in waiting'[q] : w.attempt # f.attempt
    /\ \A f, g \in starts : f = g

\* The decode of a runs from now on, and nx is what comes next for it.
Runs(a, nx) ==
    LET d == attempts[a].plan.d
        finish == now' + attempts[a].emitted
    IN  /\ dAvailable[d] <= now'
        /\ attempts'[a].decodeStart = now' /\ attempts'[a].finish = finish
        /\ dAvailable' = [dAvailable EXCEPT ![d] = finish]
        /\ nx.kind \in DecodeKinds
        /\ nx.kind = "COMPLETION" => nx.at = finish
        /\ nx.kind = "LEASE_BOUNDARY" => now' < nx.at /\ nx.at < finish

Sleeps(a, nx) ==
    /\ attempts'[a].decodeStart = None /\ attempts'[a].finish = attempts[a].finish
    /\ dAvailable' = dAvailable
    /\ nx.kind = "DECODE_START"
    /\ now' <= nx.at
    /\ nx.at <= now' \/ nx.at <= dAvailable[attempts[a].plan.d] \/ nx.at <= attempts'[a].fence

\* What a turn leaves of the attempts, and the event it adds.
TurnOf(a, e, starts, nx) ==
    /\ DOMAIN attempts' = DOMAIN attempts
    /\ \A b \in DOMAIN attempts : b # a => attempts'[b] = attempts[b]
    /\ attempts'[a] \in AttemptRecord
    /\ attempts'[a].plan = attempts[a].plan
    /\ attempts'[a].terminal = attempts[a].terminal
    /\ attempts'[a].emitted = attempts[a].emitted
    /\ attempts'[a].ready = attempts[a].ready
    /\ attempts'[a].prefillStart = attempts[a].prefillStart
    /\ attempts'[a].prefillFinish = attempts[a].prefillFinish
    /\ attempts'[a].prefillWork = attempts[a].prefillWork
    /\ queue' = (queue \ {e}) \cup starts \cup {nx}
    /\ nx \in [kind: Kinds, at: Nat, seq: Nat, attempt: {a}]
    /\ Runs(a, nx) \/ Sleeps(a, nx)

LEMMA TurnsOnce ==
    ASSUME KernelTypeOK, now' \in Nat, NEW a \in DOMAIN attempts, attempts[a].decodeStart = None,
           NEW fence \in Nat, NEW lease \in Nat \cup {None}, NEW e, NEW starts, NEW seq \in Nat,
           Turn(a, fence, lease, (queue \ {e}) \cup starts, seq)
    PROVE  \E nx : TurnOf(a, e, starts, nx)
<1>0. PICK t, d : t = attempts[a] /\ d = t.plan.d
  OBVIOUS
<1>1. t \in AttemptRecord /\ d \in DNodes /\ dAvailable[d] \in Nat /\ t.emitted \in Nat
  BY <1>0 DEF KernelTypeOK, AttemptRecord, Plan
<1>2. CASE Admissible(a, fence)
  <2>1. PICK nx : nx = IF lease = None THEN Event("COMPLETION", now' + t.emitted, seq, a)
                       ELSE Event("LEASE_BOUNDARY", now' + lease, seq, a)
    OBVIOUS
  <2>2. /\ lease # None => 0 < lease /\ lease < t.emitted
        /\ attempts' = [attempts EXCEPT ![a] =
              [@ EXCEPT !.decodeStart = now', !.finish = now' + t.emitted, !.fence = fence]]
        /\ dAvailable' = [dAvailable EXCEPT ![d] = now' + t.emitted]
        /\ queue' = (queue \ {e}) \cup starts \cup {nx}
    BY <1>0, <1>2, <2>1 DEF Turn, Decodes
  <2>3. /\ nx \in [kind: Kinds, at: Nat, seq: Nat, attempt: {a}]
        /\ nx.kind \in DecodeKinds
        /\ nx.kind = "COMPLETION" => nx.at = now' + t.emitted
        /\ nx.kind = "LEASE_BOUNDARY" => now' < nx.at /\ nx.at < now' + t.emitted
    <3>1. CASE lease = None
      BY <1>1, <2>1, <3>1 DEF Event, DecodeKinds, Kinds
    <3>2. CASE lease # None
      BY <1>1, <2>1, <2>2, <3>2 DEF Event, DecodeKinds, Kinds
    <3>3. QED
      BY <3>1, <3>2
  <2>4. attempts'[a] = [t EXCEPT !.decodeStart = now', !.finish = now' + t.emitted, !.fence = fence]
    BY <1>0, <2>2
  <2>5. PICK finish : finish = now' + t.emitted
    OBVIOUS
  <2>6. finish \in Nat /\ attempts'[a] = [t EXCEPT !.decodeStart = now', !.finish = finish, !.fence = fence]
    BY <1>1, <2>4, <2>5
  <2>7. /\ attempts'[a] \in AttemptRecord
        /\ attempts'[a].decodeStart = now' /\ attempts'[a].finish = finish
        /\ attempts'[a].plan = t.plan /\ attempts'[a].terminal = t.terminal
        /\ attempts'[a].emitted = t.emitted /\ attempts'[a].ready = t.ready
        /\ attempts'[a].prefillStart = t.prefillStart
        /\ attempts'[a].prefillFinish = t.prefillFinish
        /\ attempts'[a].prefillWork = t.prefillWork
    BY <1>1, <2>6, ZenonT(40) DEF AttemptRecord
  <2>8. Runs(a, nx)
    BY <1>0, <1>2, <2>2, <2>3, <2>5, <2>7 DEF Runs, Admissible
  <2>9. /\ DOMAIN attempts' = DOMAIN attempts
        /\ \A b \in DOMAIN attempts : b # a => attempts'[b] = attempts[b]
    BY <2>2
  <2>10. QED
    BY <1>0, <2>2, <2>3, <2>7, <2>8, <2>9 DEF TurnOf
<1>3. CASE ~Admissible(a, fence)
  <2>1. PICK at : at = Max({now', dAvailable[d], fence})
    OBVIOUS
  <2>2. PICK nx : nx = Event("DECODE_START", at, seq, a)
    OBVIOUS
  <2>3. /\ attempts' = [attempts EXCEPT ![a].fence = fence]
        /\ dAvailable' = dAvailable
        /\ queue' = (queue \ {e}) \cup starts \cup {nx}
    BY <1>0, <1>3, <2>1, <2>2 DEF Turn, Gated
  <2>4. at \in {now', dAvailable[d], fence} /\ now' <= at
    <3>1. now' \in Int /\ dAvailable[d] \in Int /\ fence \in Int
      BY <1>1
    <3>2. QED
      BY <2>1, <3>1, MaxOfThree
  <2>5. attempts'[a] = [t EXCEPT !.fence = fence]
    BY <1>0, <2>3
  <2>6. attempts'[a] \in AttemptRecord
    BY <1>1, <2>5 DEF AttemptRecord
  <2>7. /\ nx \in [kind: Kinds, at: Nat, seq: Nat, attempt: {a}]
        /\ nx.kind = "DECODE_START" /\ nx.at = at
    BY <1>1, <2>2, <2>4 DEF Event, Kinds
  <2>8. Sleeps(a, nx)
    BY <1>0, <1>1, <2>3, <2>4, <2>5, <2>7 DEF Sleeps, AttemptRecord
  <2>9. QED
    BY <1>0, <1>1, <2>3, <2>5, <2>6, <2>7, <2>8 DEF TurnOf, AttemptRecord
<1>4. QED
  BY <1>2, <1>3
\* What a turn knows of the attempt it is about, of its events and of the rest.
LEMMA TurnFacts ==
    ASSUME KernelInv, NEW e \in queue, e.kind \in {"PREFILL_FINISH", "DECODE_START"},
           NEW a, a = e.attempt, attempts[a].decodeStart = None,
           e.kind = "PREFILL_FINISH" => e.at <= now',
           now' \in Nat, now <= now'
    PROVE  /\ a \in DOMAIN attempts /\ a \in AttemptKey /\ attempts[a] \in AttemptRecord
           /\ attempts[a].plan.p \in PNodes /\ attempts[a].plan.d \in DNodes
           /\ attempts[a].prefillStart # None /\ attempts[a].ready # None
           /\ attempts[a].prefillFinish # None /\ attempts[a].prefillFinish <= now'
           /\ a \notin done
           /\ \A f \in queue : f.attempt = a => f = e \/ f.kind = "DECODE_START"
           /\ \A q \in PNodes : \A w \in waiting[q] : w.attempt # a
<1>1. /\ EventFits(e) /\ a \in DOMAIN attempts /\ attempts[a].prefillStart # None
      /\ AttemptShape(a) /\ AttemptGoesOn(a) /\ a \in AttemptKey /\ attempts[a] \in AttemptRecord
  BY DEF KernelInv, KernelTypeOK, LifeInv, EventFits
<1>2. /\ attempts[a].ready # None /\ attempts[a].prefillFinish # None /\ a \notin done
      /\ attempts[a].plan.p \in PNodes /\ attempts[a].plan.d \in DNodes
      /\ attempts[a].prefillFinish \in Int /\ now \in Int
  BY <1>1 DEF AttemptShape, AttemptRecord, Plan, None, KernelInv, KernelTypeOK
<1>3. attempts[a].prefillFinish <= now'
  BY <1>1, <1>2 DEF EventFits
<1>4. ASSUME NEW f \in queue, f.attempt = a, f # e PROVE f.kind = "DECODE_START"
  <2>1. EventFits(f) /\ f.kind \in Kinds /\ e.kind \in Kinds
    BY DEF KernelInv, KernelTypeOK, LifeInv
  <2>2. f.kind # "ARRIVAL" /\ f.kind # "ATTEMPT_READY" /\ f.kind # "PREFILL_START"
        /\ f.kind # "LEASE_BOUNDARY" /\ f.kind # "COMPLETION"
    BY <1>1, <1>2, <1>4, <2>1 DEF EventFits
  <2>3. f.kind = "PREFILL_FINISH" => e.kind # "DECODE_START"
    BY <1>4, <2>1 DEF EventFits, Has
  <2>4. f.kind = "PREFILL_FINISH" => e.kind # "PREFILL_FINISH"
    BY <1>4 DEF KernelInv, LifeInv, OneNextEvent, NextKinds, Kinds
  <2>5. QED
    BY <2>1, <2>2, <2>3, <2>4 DEF Kinds
<1>5. \A q \in PNodes : \A w \in waiting[q] : w.attempt # a
  BY <1>1 DEF KernelInv, NodeInv, NodeFits
<1>6. QED
  BY <1>1, <1>2, <1>3, <1>4, <1>5

\* Who is taken out of a waiting line was ready, and nothing else was ahead of it.
LEMMA HandedOver ==
    ASSUME KernelInv, NEW starts, HandsOver(starts), NEW s \in starts
    PROVE  /\ s.attempt \in DOMAIN attempts
           /\ attempts[s.attempt].ready # None /\ attempts[s.attempt].prefillStart = None
           /\ attempts[s.attempt].plan.p \in PNodes
           /\ \A f \in queue : f.attempt # s.attempt
<1>0. PICK c : c = s.attempt
  OBVIOUS
<1>1. PICK q \in PNodes : \E w \in waiting[q] : w.attempt = c
  BY <1>0 DEF HandsOver
<1>2. PICK w \in waiting[q] : w.attempt = c
  BY <1>1
<1>3. /\ c \in DOMAIN attempts /\ attempts[c].plan.p = q /\ attempts[c].ready = w.at
      /\ attempts[c].prefillStart = None /\ w.at \in Nat
  BY <1>2 DEF KernelInv, NodeInv, NodeFits, KernelTypeOK
<1>4. c \in WaitingFor(q)
  BY <1>2 DEF WaitingFor
<1>5. attempts[c].ready # None /\ attempts[c].decodeStart = None
  BY <1>3 DEF None, KernelInv, LifeInv, AttemptShape
<1>6. ASSUME NEW f \in queue, f.attempt = c PROVE FALSE
  <2>1. EventFits(f) /\ f.kind \in Kinds
    BY DEF KernelInv, KernelTypeOK, LifeInv
  <2>2. QED
    BY <1>3, <1>4, <1>5, <1>6, <2>1 DEF EventFits, Kinds
<1>7. QED
  BY <1>0, <1>3, <1>5, <1>6

\* A turn keeps what is known of the attempts and their events.
LEMMA TurnKeepsLife ==
    ASSUME KernelInv, NEW e \in queue, e.kind \in {"PREFILL_FINISH", "DECODE_START"},
           NEW a, a = e.attempt, attempts[a].decodeStart = None,
           e.at = now', now' \in Nat, now <= now', \A f \in queue : now' <= f.at,
           NEW starts, HandsOver(starts), NEW nx, TurnOf(a, e, starts, nx),
           workload' = workload, done' = done
    PROVE  LifeInv'
<1>1. /\ a \in DOMAIN attempts /\ attempts[a] \in AttemptRecord
      /\ attempts[a].plan.p \in PNodes
      /\ attempts[a].prefillStart # None /\ attempts[a].ready # None
      /\ attempts[a].prefillFinish # None /\ attempts[a].prefillFinish <= now'
      /\ a \notin done
      /\ \A f \in queue : f.attempt = a => f = e \/ f.kind = "DECODE_START"
      /\ \A q \in PNodes : \A w \in waiting[q] : w.attempt # a
  <2>1. e.kind = "PREFILL_FINISH" => e.at <= now'
    OBVIOUS
  <2>2. QED
    BY <2>1, TurnFacts
<1>2. /\ DOMAIN attempts' = DOMAIN attempts
      /\ \A b \in DOMAIN attempts : b # a => attempts'[b] = attempts[b]
      /\ attempts'[a].plan = attempts[a].plan
      /\ attempts'[a].ready = attempts[a].ready
      /\ attempts'[a].terminal = attempts[a].terminal
      /\ attempts'[a].emitted = attempts[a].emitted
      /\ attempts'[a].prefillStart = attempts[a].prefillStart
      /\ attempts'[a].prefillFinish = attempts[a].prefillFinish
      /\ attempts'[a] \in AttemptRecord
      /\ nx.attempt = a /\ nx.at \in Nat /\ nx.kind \in Kinds
  BY DEF TurnOf
<1>3. /\ \A f \in queue' : (f \in queue /\ f # e) \/ f \in starts \/ f = nx
      /\ \A f \in queue : f \in queue' \/ f = e
      /\ \A f \in starts : f \in queue'
      /\ nx \in queue'
  BY DEF TurnOf
<1>4. \A s \in starts : /\ s.kind = "PREFILL_START" /\ s.at = now' /\ s.attempt # a
                       /\ s.attempt \in DOMAIN attempts
                       /\ attempts[s.attempt].ready # None /\ attempts[s.attempt].prefillStart = None
                       /\ attempts[s.attempt].plan.p \in PNodes
                       /\ \A f \in queue : f.attempt # s.attempt
  <2>1. ASSUME NEW s \in starts
        PROVE  /\ s.attempt \in DOMAIN attempts
               /\ attempts[s.attempt].ready # None /\ attempts[s.attempt].prefillStart = None
               /\ attempts[s.attempt].plan.p \in PNodes
               /\ \A f \in queue : f.attempt # s.attempt
    BY HandedOver
  <2>2. \A s \in starts : s.kind = "PREFILL_START" /\ s.at = now'
    BY DEF HandsOver
  <2>3. QED
    BY <1>1, <2>1, <2>2
<1>5. \/ /\ Runs(a, nx) /\ nx.kind \in DecodeKinds
         /\ attempts'[a].decodeStart = now' /\ attempts'[a].finish = now' + attempts[a].emitted
      \/ /\ Sleeps(a, nx) /\ nx.kind = "DECODE_START" /\ now' <= nx.at
         /\ attempts'[a].decodeStart = None /\ attempts'[a].finish = attempts[a].finish
  BY DEF TurnOf, Runs, Sleeps
<1>6. ASSUME NEW b \in DOMAIN attempts' PROVE AttemptShape(b)' /\ AttemptGoesOn(b)'
  <2>1. b \in DOMAIN attempts /\ AttemptShape(b) /\ AttemptGoesOn(b)
    BY <1>2, <1>6 DEF KernelInv, LifeInv
  <2>2. CASE b # a
    <3>1. attempts[b].plan.p \in PNodes
      BY <2>1 DEF KernelInv, KernelTypeOK, AttemptRecord, Plan
    <3>2. \A w \in waiting[attempts[b].plan.p] : w.attempt = b =>
              Has(b, {"PREFILL_START"})' \/ w \in waiting'[attempts[b].plan.p]
      BY <1>3, <1>4, <3>1 DEF HandsOver, Has
    <3>3. \A f \in queue : f.attempt = b => f \in queue'
      BY <1>3, <2>2
    <3>4. QED
      BY <1>2, <2>1, <2>2, <3>2, <3>3, KeepsAttempt DEF KernelInv
  <2>3. CASE b = a
    <3>1. now \in Nat /\ attempts[a].emitted \in Nat
      BY <1>1 DEF KernelInv, KernelTypeOK, AttemptRecord
    <3>2. /\ attempts'[a].ready <= now' /\ attempts'[a].prefillStart <= now'
          /\ attempts'[a].prefillFinish <= now'
      BY <1>1, <1>2, <2>1, <2>3, <3>1 DEF AttemptShape, AttemptRecord, None
    <3>3. AttemptShape(b)'
      BY <1>1, <1>2, <1>5, <2>3, <3>1, <3>2 DEF AttemptShape, None
    <3>4. attempts'[a].decodeStart = None => Has(a, {"PREFILL_FINISH", "DECODE_START"})'
      BY <1>2, <1>3, <1>5 DEF Has, None
    <3>5. attempts'[a].decodeStart # None => Has(a, DecodeKinds)'
      BY <1>2, <1>3, <1>5 DEF Has
    <3>6. AttemptGoesOn(b)'
      BY <1>1, <1>2, <2>3, <3>4, <3>5 DEF AttemptGoesOn
    <3>7. QED
      BY <3>3, <3>6
  <2>4. QED
    BY <2>2, <2>3
<1>7. ASSUME NEW f \in queue' PROVE EventFits(f)'
  <2>1. CASE f \in queue /\ f # e /\ f.attempt # a
    <3>1. EventFits(f) /\ now' <= f.at
      BY <2>1 DEF KernelInv, LifeInv
    <3>2. CASE f.kind = "ARRIVAL"
      BY <1>2, <2>1, <3>1, <3>2, KeepsArrival
    <3>3. CASE f.kind # "ARRIVAL"
      <4>1. f.attempt \in DOMAIN attempts /\ attempts[f.attempt].plan.p \in PNodes
        BY <3>1, <3>3 DEF EventFits, KernelInv, KernelTypeOK, AttemptRecord, Plan
      <4>2. Has(f.attempt, {"DECODE_START"})' => Has(f.attempt, {"DECODE_START"})
        BY <1>2, <1>3, <1>4, <2>1 DEF Has
      <4>3. f.kind = "PREFILL_START" =>
                \A w \in waiting'[attempts[f.attempt].plan.p] : w.attempt # f.attempt
        BY <3>1, <4>1 DEF EventFits, WaitingFor, HandsOver
      <4>4. QED
        BY <1>2, <2>1, <3>1, <3>3, <4>1, <4>2, <4>3, KeepsEvent DEF KernelInv
    <3>4. QED
      BY <3>2, <3>3
  <2>2. CASE f \in queue /\ f # e /\ f.attempt = a
    <3>1. f.kind = "DECODE_START" /\ now' <= f.at
      BY <1>1, <2>2
    <3>2. QED
      BY <1>1, <1>2, <2>2, <3>1 DEF EventFits
  <2>3. CASE f \in starts
    <3>1. attempts'[f.attempt] = attempts[f.attempt] /\ f.attempt \in DOMAIN attempts'
      BY <1>2, <1>4, <2>3
    <3>2. (f.attempt \notin WaitingFor(attempts[f.attempt].plan.p))'
      BY <1>4, <2>3, <3>1 DEF WaitingFor, HandsOver
    <3>3. QED
      BY <1>4, <2>3, <3>1, <3>2 DEF EventFits
  <2>4. CASE f = nx
    <3>1. CASE Runs(a, nx)
      <4>1. /\ attempts'[a].decodeStart = now' /\ attempts'[a].finish = now' + attempts[a].emitted
            /\ nx.kind \in DecodeKinds
            /\ nx.kind = "COMPLETION" => nx.at = now' + attempts[a].emitted
            /\ nx.kind = "LEASE_BOUNDARY" => now' < nx.at /\ nx.at < now' + attempts[a].emitted
        BY <3>1 DEF Runs
      <4>2. attempts[a].emitted \in Nat /\ now' # None
        BY <1>1 DEF AttemptRecord, None
      <4>3. CASE nx.kind = "COMPLETION"
        BY <1>1, <1>2, <2>4, <4>1, <4>2, <4>3 DEF EventFits
      <4>4. CASE nx.kind = "LEASE_BOUNDARY"
        BY <1>1, <1>2, <2>4, <4>1, <4>2, <4>4 DEF EventFits
      <4>5. QED
        BY <4>1, <4>3, <4>4 DEF DecodeKinds
    <3>2. CASE Sleeps(a, nx)
      <4>1. nx.kind = "DECODE_START" /\ now' <= nx.at
        BY <3>2 DEF Sleeps
      <4>2. QED
        BY <1>1, <1>2, <2>4, <4>1 DEF EventFits
    <3>3. QED
      BY <1>5, <3>1, <3>2
  <2>5. QED
    BY <1>3, <2>1, <2>2, <2>3, <2>4
<1>8. OneNextEvent'
  <2>1. SUFFICES ASSUME NEW f \in queue', NEW g \in queue', f.attempt = g.attempt,
                        f.kind \in NextKinds, g.kind \in NextKinds
                 PROVE  f = g
    BY DEF OneNextEvent
  <2>2. \A x \in queue' : x.kind \in NextKinds /\ x.attempt = a => x = nx
    BY <1>1, <1>3, <1>4 DEF NextKinds, Kinds
  <2>3. CASE f.attempt = a
    BY <2>1, <2>2, <2>3
  <2>4. CASE f.attempt # a
    <3>1. (f \in queue \/ f \in starts) /\ (g \in queue \/ g \in starts)
      BY <1>2, <1>3, <2>1, <2>4
    <3>2. f \in queue <=> g \in queue
      BY <1>4, <2>1, <3>1
    <3>3. f \in queue /\ g \in queue => f = g
      BY <2>1 DEF KernelInv, LifeInv, OneNextEvent
    <3>4. f \in starts /\ g \in starts => f = g
      BY DEF HandsOver
    <3>5. QED
      BY <3>1, <3>2, <3>3, <3>4
  <2>5. QED
    BY <2>3, <2>4
<1>9. OneAttemptAtATime'
  BY <1>2 DEF KernelInv, LifeInv, OneAttemptAtATime
<1>10. QED
  BY <1>6, <1>7, <1>8, <1>9 DEF LifeInv
\* A turn keeps the rest of what is known, but for the prefill nodes.
LEMMA TurnKeepsRest ==
    ASSUME KernelInv, NEW e \in queue, e.kind \in {"PREFILL_FINISH", "DECODE_START"},
           NEW a, a = e.attempt, attempts[a].decodeStart = None,
           e.at = now', now' \in 0..End, now <= now', \A f \in queue : now' <= f.at,
           NEW starts, HandsOver(starts), NEW nx, TurnOf(a, e, starts, nx),
           UNCHANGED <<workload, cache, queuedWork, done>>,
           busy' \in [PNodes -> BOOLEAN], serial' \in Nat
    PROVE  /\ KernelTypeOK' /\ DecodeInv' /\ SleepInv' /\ CacheInv'
           /\ HitsComeFromPublishedWork' /\ QueueProxyExact'
<1>0. now' \in Nat /\ now \in Nat /\ (e.kind = "PREFILL_FINISH" => e.at <= now')
  BY KernelAssumption DEF KernelInv, KernelTypeOK
<1>1. /\ a \in DOMAIN attempts /\ a \in AttemptKey /\ attempts[a] \in AttemptRecord
      /\ attempts[a].plan.d \in DNodes
      /\ attempts[a].prefillStart # None /\ attempts[a].ready # None /\ a \notin done
  BY <1>0, TurnFacts
<1>2. /\ DOMAIN attempts' = DOMAIN attempts
      /\ \A b \in DOMAIN attempts : b # a => attempts'[b] = attempts[b]
      /\ attempts'[a] \in AttemptRecord
      /\ queue' = (queue \ {e}) \cup starts \cup {nx}
      /\ nx \in [kind: Kinds, at: Nat, seq: Nat, attempt: {a}]
      /\ nx.attempt = a /\ nx.at \in Nat
  BY DEF TurnOf
<1>3. \A b \in DOMAIN attempts :
        /\ attempts'[b].plan = attempts[b].plan
        /\ attempts'[b].ready = attempts[b].ready
        /\ attempts'[b].prefillStart = attempts[b].prefillStart
        /\ attempts'[b].prefillWork = attempts[b].prefillWork
        /\ attempts'[b].terminal = attempts[b].terminal
        /\ b # a => attempts'[b].finish = attempts[b].finish
  BY <1>2 DEF TurnOf
<1>4. dAvailable \in [DNodes -> Nat] /\ attempts[a].emitted \in Nat
  BY <1>1 DEF KernelInv, KernelTypeOK, AttemptRecord
<1>5. KernelTypeOK'
  <2>1. queue' \subseteq [kind: Kinds, at: Nat, seq: Nat, attempt: AttemptKey]
    <3>1. \A f \in starts : f \in [kind: Kinds, at: Nat, seq: Nat, attempt: AttemptKey]
      BY <1>0 DEF HandsOver, Kinds
    <3>2. nx \in [kind: Kinds, at: Nat, seq: Nat, attempt: AttemptKey]
      BY <1>1, <1>2
    <3>3. QED
      BY <1>2, <3>1, <3>2 DEF KernelInv, KernelTypeOK
  <2>2. \A b \in DOMAIN attempts' : attempts'[b] \in AttemptRecord
    BY <1>2 DEF KernelInv, KernelTypeOK
  <2>3. dAvailable' \in [DNodes -> Nat]
    <3>1. \/ dAvailable' = dAvailable
          \/ dAvailable' = [dAvailable EXCEPT ![attempts[a].plan.d] = now' + attempts[a].emitted]
      BY DEF TurnOf, Runs, Sleeps
    <3>2. now' + attempts[a].emitted \in Nat
      BY <1>0, <1>4
    <3>3. QED
      BY <1>4, <3>1, <3>2
  <2>4. waiting' \in [PNodes -> SUBSET [at: Nat, seq: Nat, attempt: AttemptKey]]
    BY DEF HandsOver
  <2>5. AttemptKey' = AttemptKey
    BY DEF AttemptKey
  <2>6. QED
    BY <1>2, <2>1, <2>2, <2>3, <2>4, <2>5 DEF KernelInv, KernelTypeOK
<1>6. ASSUME NEW b \in DOMAIN attempts, b # a, Started(b), attempts[b].plan.d = attempts[a].plan.d
      PROVE  attempts[b].finish <= dAvailable[attempts[a].plan.d]
  BY <1>6 DEF KernelInv, DecodeInv
<1>7. \A b \in DOMAIN attempts : /\ attempts[b].plan.d \in DNodes
                                /\ attempts[b].finish \in Int /\ attempts[b].decodeStart \in Int
  BY DEF KernelInv, KernelTypeOK, AttemptRecord, Plan, None
<1>8. \A b \in DOMAIN attempts : b # a => (Started(b)' <=> Started(b))
  BY <1>2 DEF Started
<1>9. ASSUME Runs(a, nx) PROVE DecodeInv' /\ SleepInv'
  <2>0. PICK d, finish : d = attempts[a].plan.d /\ finish = now' + attempts[a].emitted
    OBVIOUS
  <2>1. /\ dAvailable[d] <= now' /\ attempts'[a].decodeStart = now' /\ attempts'[a].finish = finish
        /\ dAvailable' = [dAvailable EXCEPT ![d] = finish]
        /\ nx.kind \in DecodeKinds
    BY <1>9, <2>0 DEF Runs
  <2>2. /\ d \in DNodes /\ finish \in Nat /\ now' <= finish /\ dAvailable[d] \in Nat
        /\ dAvailable'[d] = finish /\ \A c \in DNodes : c # d => dAvailable'[c] = dAvailable[c]
    BY <1>0, <1>1, <1>4, <2>0, <2>1
  <2>3. ASSUME NEW b \in DOMAIN attempts', Started(b)'
        PROVE  attempts'[b].finish <= dAvailable'[attempts'[b].plan.d]
    <3>1. CASE b = a
      BY <1>1, <1>3, <2>0, <2>1, <2>2, <3>1
    <3>2. CASE b # a
      <4>1. attempts[b].finish <= dAvailable[attempts[b].plan.d] /\ attempts[b].finish \in Int
        BY <1>2, <1>7, <1>8, <2>3, <3>2 DEF KernelInv, DecodeInv
      <4>2. dAvailable[attempts[b].plan.d] <= dAvailable'[attempts[b].plan.d]
        BY <1>0, <1>2, <1>4, <1>7, <2>1, <2>2
      <4>3. dAvailable[attempts[b].plan.d] \in Int /\ dAvailable'[attempts[b].plan.d] \in Int
        BY <1>2, <1>4, <1>7, <2>2
      <4>4. QED
        BY <1>2, <1>3, <3>2, <4>1, <4>2, <4>3
    <3>3. QED
      BY <3>1, <3>2
  <2>4. ASSUME NEW b \in DOMAIN attempts, b # a, Started(b), attempts[b].plan.d = d
        PROVE  attempts'[b].finish <= attempts'[a].decodeStart
    <3>1. attempts[b].finish <= dAvailable[d]
      BY <1>6, <2>0, <2>4
    <3>2. QED
      BY <1>0, <1>3, <1>7, <2>1, <2>2, <2>4, <3>1
  <2>5. DecodesNeverOverlap'
    <3>1. SUFFICES ASSUME NEW b \in DOMAIN attempts', NEW c \in DOMAIN attempts', b # c,
                          Started(b)', Started(c)', attempts'[b].plan.d = attempts'[c].plan.d
                   PROVE  \/ attempts'[b].finish <= attempts'[c].decodeStart
                          \/ attempts'[c].finish <= attempts'[b].decodeStart
      BY DEF DecodesNeverOverlap
    <3>2. b \in DOMAIN attempts /\ c \in DOMAIN attempts /\ attempts[b].plan.d = attempts[c].plan.d
      BY <1>2, <1>3, <3>1
    <3>3. CASE b # a /\ c # a
      <4>1. Started(b) /\ Started(c)
        BY <1>8, <3>1, <3>2, <3>3
      <4>2. \/ attempts[b].finish <= attempts[c].decodeStart
            \/ attempts[c].finish <= attempts[b].decodeStart
        BY <3>1, <3>2, <4>1 DEF KernelInv, DecodeInv, DecodesNeverOverlap
      <4>3. QED
        BY <1>2, <3>2, <3>3, <4>2
    <3>4. CASE b = a
      BY <1>8, <2>0, <2>4, <3>1, <3>2, <3>4
    <3>5. CASE c = a
      BY <1>8, <2>0, <2>4, <3>1, <3>2, <3>5
    <3>6. QED
      BY <3>3, <3>4, <3>5
  <2>6. SleepInv'
    <3>1. SUFFICES ASSUME NEW b \in DOMAIN attempts, ~Started(b)', Has(b, {"DECODE_START"})'
                   PROVE  \E f \in queue' :
                            /\ f.attempt = b /\ f.kind = "DECODE_START"
                            /\ \/ f.at <= now'
                               \/ f.at <= dAvailable'[attempts'[b].plan.d]
                               \/ f.at <= attempts'[b].fence
      BY <1>2 DEF SleepInv
    <3>2. b # a /\ ~Started(b)
      BY <1>0, <1>8, <2>1, <3>1 DEF Started, None
    <3>3. Has(b, {"DECODE_START"})
      BY <1>2, <3>1, <3>2 DEF Has, HandsOver
    <3>4. PICK f \in queue :
                 /\ f.attempt = b /\ f.kind = "DECODE_START"
                 /\ \/ f.at <= now
                    \/ f.at <= dAvailable[attempts[b].plan.d]
                    \/ f.at <= attempts[b].fence
      BY <3>2, <3>3 DEF KernelInv, SleepInv
    <3>5. f \in queue' /\ f.at \in Nat
      BY <1>2, <3>2, <3>4 DEF KernelInv, KernelTypeOK
    <3>6. dAvailable[attempts[b].plan.d] <= dAvailable'[attempts[b].plan.d]
      BY <1>0, <1>4, <1>7, <2>1, <2>2
    <3>7. dAvailable[attempts[b].plan.d] \in Int /\ dAvailable'[attempts[b].plan.d] \in Int
      BY <1>4, <1>7, <2>2
    <3>8. attempts'[b] = attempts[b]
      BY <1>2, <3>2
    <3>9. QED
      BY <1>0, <3>4, <3>5, <3>6, <3>7, <3>8
  <2>7. QED
    BY <2>3, <2>5, <2>6 DEF DecodeInv
<1>10. ASSUME Sleeps(a, nx) PROVE DecodeInv' /\ SleepInv'
  <2>1. /\ attempts'[a].decodeStart = None /\ attempts'[a].finish = attempts[a].finish
        /\ dAvailable' = dAvailable /\ nx.kind = "DECODE_START" /\ now' <= nx.at
        /\ nx.at <= now' \/ nx.at <= dAvailable[attempts[a].plan.d] \/ nx.at <= attempts'[a].fence
    BY <1>10 DEF Sleeps
  <2>2. NoDecodeMoves
    BY <1>2, <1>3, <2>1 DEF NoDecodeMoves, Kept
  <2>3. DecodeInv'
    BY <2>1, <2>2, KeepsDecodeInv DEF KernelInv
  <2>4. SleepInv'
    <3>1. SUFFICES ASSUME NEW b \in DOMAIN attempts, ~Started(b)', Has(b, {"DECODE_START"})'
                   PROVE  \E f \in queue' :
                            /\ f.attempt = b /\ f.kind = "DECODE_START"
                            /\ \/ f.at <= now'
                               \/ f.at <= dAvailable'[attempts'[b].plan.d]
                               \/ f.at <= attempts'[b].fence
      BY <1>2 DEF SleepInv
    <3>2. CASE b = a
      BY <1>1, <1>2, <1>3, <2>1, <3>2
    <3>3. CASE b # a
      <4>1. Has(b, {"DECODE_START"}) /\ ~Started(b)
        BY <1>2, <1>8, <3>1, <3>3 DEF Has, HandsOver
      <4>2. PICK f \in queue :
                   /\ f.attempt = b /\ f.kind = "DECODE_START"
                   /\ \/ f.at <= now
                      \/ f.at <= dAvailable[attempts[b].plan.d]
                      \/ f.at <= attempts[b].fence
        BY <4>1 DEF KernelInv, SleepInv
      <4>3. f \in queue' /\ f.at \in Nat
        BY <1>2, <3>3, <4>2 DEF KernelInv, KernelTypeOK
      <4>4. QED
        BY <1>0, <1>2, <2>1, <3>3, <4>2, <4>3
    <3>4. QED
      BY <3>2, <3>3
  <2>5. QED
    BY <2>3, <2>4
<1>11. DoneKept
  BY <1>1, <1>2, <1>3 DEF DoneKept, KernelInv, KernelTypeOK
<1>12. CacheInv' /\ HitsComeFromPublishedWork'
  BY <1>2, <1>3, <1>11, KeepsCacheInv, KeepsHits DEF KernelInv
<1>13. QueueProxyExact'
  <2>1. \A p \in PNodes : Queued(p)' = Queued(p)
    BY <1>2, <1>3 DEF Queued, Pending
  <2>2. QED
    BY <2>1, KeepsProxy DEF KernelInv
<1>14. Runs(a, nx) \/ Sleeps(a, nx)
  BY DEF TurnOf
<1>15. QED
  BY <1>5, <1>9, <1>10, <1>12, <1>13, <1>14
LEMMA DecodeStartKeepsInv ==
    ASSUME KernelInv, NEW e \in queue, NEW fence \in Nat, NEW lease \in Nat \cup {None},
           DecodeStart(e, fence, lease)
    PROVE  KernelInv'
<1>0. PICK a : a = e.attempt
  OBVIOUS
<1>1. /\ now' = e.at /\ now' \in 0..End /\ now <= now' /\ e.kind = "DECODE_START"
      /\ \A f \in queue : now' <= f.at
      /\ now \in Nat /\ now' \in Nat /\ serial \in Nat /\ KernelTypeOK
  BY PopsForward DEF KernelInv, DecodeStart, KernelTypeOK
<1>2. a \in DOMAIN attempts /\ attempts[a].decodeStart = None
  BY <1>0, <1>1 DEF KernelInv, LifeInv, EventFits, DecodeStart, Stale
<1>3. /\ UNCHANGED <<workload, cache, busy, waiting, queuedWork, done>>
      /\ serial' = serial + 1
  BY DEF DecodeStart
<1>4. Turn(a, fence, lease, (queue \ {e}) \cup {}, serial)
  BY <1>0 DEF DecodeStart, Turn
<1>5. PICK nx : TurnOf(a, e, {}, nx)
  BY <1>1, <1>2, <1>4, TurnsOnce
<1>6. HandsOver({})
  BY <1>3 DEF HandsOver, KernelInv, KernelTypeOK
<1>7. LifeInv'
  BY <1>0, <1>1, <1>2, <1>3, <1>5, <1>6, TurnKeepsLife
<1>8. /\ KernelTypeOK' /\ DecodeInv' /\ SleepInv' /\ CacheInv'
      /\ HitsComeFromPublishedWork' /\ QueueProxyExact'
  <2>1. busy' \in [PNodes -> BOOLEAN] /\ serial' \in Nat
    BY <1>1, <1>3 DEF KernelTypeOK
  <2>2. QED
    BY <1>0, <1>1, <1>2, <1>3, <1>5, <1>6, <2>1, TurnKeepsRest
<1>9. NoPrefillMoves
  <2>1. nx.kind \notin PrefillKinds
    BY <1>5 DEF TurnOf, Runs, Sleeps, DecodeKinds, PrefillKinds
  <2>2. \A f : f.kind \in PrefillKinds => (f \in queue' <=> f \in queue)
    BY <1>1, <1>5, <2>1 DEF TurnOf, PrefillKinds
  <2>3. QED
    BY <1>1, <1>3, <1>5, <2>2 DEF TurnOf, NoPrefillMoves
<1>10. NodeInv' /\ OrderInv'
  BY <1>9, KeepsNodeInv, KeepsOrderInv DEF KernelInv
<1>11. QED
  BY <1>7, <1>8, <1>10 DEF KernelInv
\* The attempt a prefill node takes next: the one that was ready first.
LEMMA NextIsFirst ==
    ASSUME KernelTypeOK, NodeInv, NEW p \in PNodes
    PROVE  /\ NextInLine(p) \subseteq waiting[p]
           /\ NextInLine(p) = {} => waiting[p] = {}
           /\ \A v, w \in NextInLine(p) : v = w
           /\ \A w \in NextInLine(p), v \in waiting[p] : w.at <= v.at
<1>1. CASE waiting[p] = {}
  BY <1>1 DEF NextInLine
<1>2. CASE waiting[p] # {}
  <2>1. /\ IsFiniteSet(waiting[p])
        /\ \A w \in waiting[p] : w.at \in Nat /\ w.seq \in Nat
        /\ \A v, w \in waiting[p] : v.seq = w.seq => v = w
    BY DEF KernelTypeOK, NodeInv, NodeFits
  <2>2. /\ First(waiting[p]) \in waiting[p]
        /\ \A v \in waiting[p] : First(waiting[p]).at <= v.at
    BY <1>2, <2>1, FirstIsFirst
  <2>3. QED
    BY <1>2, <2>2 DEF NextInLine
<1>3. QED
  BY <1>1, <1>2

\* A prefill ends: its node takes the next attempt, its decode has its turn.
LEMMA PrefillFinishKeepsInv ==
    ASSUME KernelInv, NEW e \in queue, NEW fence \in Nat, NEW lease \in Nat \cup {None},
           PrefillFinish(e, fence, lease)
    PROVE  KernelInv'
<1>0. PICK a, p, next : /\ a = e.attempt /\ p = attempts[a].plan.p /\ next = NextInLine(p)
  OBVIOUS
<1>1. /\ now' = e.at /\ now' \in 0..End /\ now <= now' /\ e.kind = "PREFILL_FINISH"
      /\ \A f \in queue : now' <= f.at
      /\ now \in Nat /\ now' \in Nat /\ serial \in Nat /\ KernelTypeOK
  BY PopsForward DEF KernelInv, PrefillFinish, KernelTypeOK
<1>2. a \in DOMAIN attempts /\ attempts[a].decodeStart = None /\ p \in PNodes
  BY <1>0, <1>1 DEF KernelInv, LifeInv, EventFits, KernelTypeOK, AttemptRecord, Plan
<1>3. /\ next \subseteq waiting[p]
      /\ next = {} => waiting[p] = {}
      /\ \A v, w \in next : v = w
      /\ \A w \in next, v \in waiting[p] : w.at <= v.at
  BY <1>0, <1>1, <1>2, NextIsFirst DEF KernelInv
<1>4. \A q \in PNodes : \A w \in waiting[q] :
        /\ w.at \in Nat /\ w.at <= now' /\ w.attempt \in AttemptKey
        /\ w.attempt \in DOMAIN attempts /\ attempts[w.attempt].plan.p = q
        /\ attempts[w.attempt].ready = w.at
  <2>1. SUFFICES ASSUME NEW q \in PNodes, NEW w \in waiting[q]
                 PROVE  /\ w.at \in Nat /\ w.at <= now' /\ w.attempt \in AttemptKey
                        /\ w.attempt \in DOMAIN attempts /\ attempts[w.attempt].plan.p = q
                        /\ attempts[w.attempt].ready = w.at
    OBVIOUS
  <2>2. w.at \in Nat /\ w.attempt \in AttemptKey
    BY DEF KernelInv, KernelTypeOK
  <2>3. /\ w.attempt \in DOMAIN attempts /\ attempts[w.attempt].plan.p = q
        /\ attempts[w.attempt].ready = w.at
    BY DEF KernelInv, NodeInv, NodeFits
  <2>4. w.at <= now
    BY <2>3 DEF KernelInv, LifeInv, AttemptShape
  <2>5. QED
    BY <1>1, <2>2, <2>3, <2>4
<1>5. PICK starts :
        starts = {Event("PREFILL_START", Max({e.at, w.at}), serial, w.attempt) : w \in next}
  OBVIOUS
<1>6. starts = {Event("PREFILL_START", now', serial, w.attempt) : w \in next}
  <2>1. \A w \in next : Max({e.at, w.at}) = now'
    <3>1. SUFFICES ASSUME NEW w \in next PROVE Max({e.at, w.at}) = now'
      OBVIOUS
    <3>2. e.at \in Int /\ w.at \in Int /\ w.at <= e.at
      BY <1>1, <1>2, <1>3, <1>4
    <3>3. /\ Max({e.at, w.at}) \in {e.at, w.at}
          /\ e.at <= Max({e.at, w.at}) /\ w.at <= Max({e.at, w.at})
      BY <3>2, MaxOfTwo
    <3>4. QED
      BY <1>1, <3>2, <3>3
  <2>2. QED
    BY <1>5, <2>1
<1>7. PICK seq : seq = serial + Cardinality(starts)
  OBVIOUS
<1>8. seq \in Nat /\ serial <= seq
  <2>1. CASE starts = {}
    BY <1>1, <1>7, <2>1, FS_EmptySet
  <2>2. CASE starts # {}
    <3>1. PICK s : starts = {s}
      BY <1>3, <1>6, <2>2, ZenonT(40)
    <3>2. Cardinality(starts) = 1
      BY <3>1, FS_Singleton
    <3>3. QED
      BY <1>1, <1>7, <3>2
  <2>3. QED
    BY <2>1, <2>2
<1>9. /\ Turn(a, fence, lease, (queue \ {e}) \cup starts, seq)
      /\ busy' = [busy EXCEPT ![p] = next # {}]
      /\ waiting' = [waiting EXCEPT ![p] = @ \ next]
      /\ serial' = seq + 1
      /\ UNCHANGED <<workload, cache, queuedWork, done>>
  BY <1>0, <1>5, <1>7 DEF PrefillFinish, Turn
<1>10. PICK nx : TurnOf(a, e, starts, nx)
  BY <1>1, <1>2, <1>8, <1>9, TurnsOnce
<1>11. /\ waiting'[p] = waiting[p] \ next
       /\ \A q \in PNodes : q # p => waiting'[q] = waiting[q]
       /\ waiting' \in [PNodes -> SUBSET [at: Nat, seq: Nat, attempt: AttemptKey]]
  BY <1>1, <1>2, <1>9 DEF KernelTypeOK
<1>12. HandsOver(starts)
  <2>1. \A q \in PNodes :
          /\ waiting'[q] \subseteq waiting[q]
          /\ \A w \in waiting[q] : w \in waiting'[q] \/ \E f \in starts : f.attempt = w.attempt
    <3>1. ASSUME NEW w \in next PROVE \E f \in starts : f.attempt = w.attempt
      <4>1. PICK f : f = Event("PREFILL_START", now', serial, w.attempt)
        OBVIOUS
      <4>2. f \in starts
        BY <1>6, <4>1
      <4>3. f.attempt = w.attempt
        BY <4>1 DEF Event
      <4>4. QED
        BY <4>2, <4>3
    <3>2. ASSUME NEW q \in PNodes, NEW w \in waiting[q]
          PROVE  w \in waiting'[q] \/ \E f \in starts : f.attempt = w.attempt
      <4>1. w \in waiting'[q] \/ w \in next
        BY <1>11
      <4>2. QED
        BY <3>1, <4>1
    <3>3. \A q \in PNodes : waiting'[q] \subseteq waiting[q]
      BY <1>11
    <3>4. QED
      BY <3>2, <3>3
  <2>2. ASSUME NEW f \in starts
        PROVE  /\ f \in [kind: {"PREFILL_START"}, at: {now'}, seq: Nat, attempt: AttemptKey]
               /\ \E q \in PNodes : \E w \in waiting[q] : w.attempt = f.attempt
               /\ \A q \in PNodes : \A w \in waiting'[q] : w.attempt # f.attempt
    <3>1. PICK w \in next : f = Event("PREFILL_START", now', serial, w.attempt)
      BY <1>6
    <3>2. w \in waiting[p] /\ f.attempt = w.attempt /\ w.attempt \in AttemptKey
      BY <1>2, <1>3, <1>4, <3>1 DEF Event
    <3>3. ASSUME NEW q \in PNodes, NEW v \in waiting'[q] PROVE v.attempt # f.attempt
      <4>1. CASE q = p
        BY <1>2, <1>11, <3>1, <3>2, <3>3, <4>1 DEF KernelInv, NodeInv, NodeFits
      <4>2. CASE q # p
        BY <1>2, <1>4, <1>11, <3>2, <3>3, <4>2
      <4>3. QED
        BY <4>1, <4>2
    <3>4. QED
      BY <1>1, <1>2, <3>1, <3>2, <3>3 DEF Event
  <2>3. \A f, g \in starts : f = g
    BY <1>3, <1>6
  <2>4. QED
    BY <1>11, <2>1, <2>2, <2>3 DEF HandsOver
<1>13. LifeInv'
  BY <1>0, <1>1, <1>2, <1>9, <1>10, <1>12, TurnKeepsLife
<1>14. /\ KernelTypeOK' /\ DecodeInv' /\ SleepInv' /\ CacheInv'
       /\ HitsComeFromPublishedWork' /\ QueueProxyExact'
  <2>1. busy' \in [PNodes -> BOOLEAN] /\ serial' \in Nat
    <3>1. PICK goesOn \in BOOLEAN : goesOn = (next # {})
      OBVIOUS
    <3>2. busy' = [busy EXCEPT ![p] = goesOn]
      BY <1>9, <3>1
    <3>3. busy \in [PNodes -> BOOLEAN]
      BY <1>1 DEF KernelTypeOK
    <3>4. busy' \in [PNodes -> BOOLEAN]
      BY <3>2, <3>3
    <3>5. QED
      BY <1>1, <1>8, <1>9, <3>4
  <2>2. QED
    BY <1>0, <1>1, <1>2, <1>9, <1>10, <1>12, <2>1, TurnKeepsRest
<1>15. /\ DOMAIN attempts' = DOMAIN attempts
       /\ \A b \in DOMAIN attempts :
            /\ attempts'[b].plan = attempts[b].plan
            /\ attempts'[b].ready = attempts[b].ready
            /\ attempts'[b].prefillStart = attempts[b].prefillStart
            /\ attempts'[b].prefillFinish = attempts[b].prefillFinish
       /\ queue' = (queue \ {e}) \cup starts \cup {nx}
       /\ nx.kind \notin PrefillKinds
  BY <1>10 DEF TurnOf, Runs, Sleeps, DecodeKinds, PrefillKinds
<1>16. NodeInv'
  <2>1. \A f \in queue, q \in PNodes : InPrefill(f, q)' <=> InPrefill(f, q)
    <3>1. \A f \in queue : f.kind \in PrefillKinds => f.attempt \in DOMAIN attempts
      BY DEF KernelInv, LifeInv, EventFits, PrefillKinds
    <3>2. QED
      BY <1>15, <3>1 DEF InPrefill
  <2>2. InPrefill(e, p)
    BY <1>0, <1>1 DEF InPrefill, PrefillKinds
  <2>3. \A f \in starts, q \in PNodes : InPrefill(f, q)' <=> q = p
    <3>1. SUFFICES ASSUME NEW f \in starts, NEW q \in PNodes PROVE InPrefill(f, q)' <=> q = p
      OBVIOUS
    <3>2. PICK w \in next : f = Event("PREFILL_START", now', serial, w.attempt)
      BY <1>6
    <3>3. /\ f.kind = "PREFILL_START" /\ f.attempt \in DOMAIN attempts
          /\ attempts[f.attempt].plan.p = p
      BY <1>2, <1>3, <1>4, <3>2 DEF Event
    <3>4. QED
      BY <1>15, <3>3 DEF InPrefill, PrefillKinds
  <2>4. \A q \in PNodes : ~InPrefill(nx, q)'
    BY <1>15 DEF InPrefill
  <2>5. ASSUME NEW q \in PNodes PROVE NodeFits(q)'
    <3>1. NodeFits(q)
      BY DEF KernelInv, NodeInv
    <3>2. /\ IsFiniteSet(waiting'[q])
          /\ \A w \in waiting'[q] :
                /\ w.attempt \in DOMAIN attempts'
                /\ attempts'[w.attempt].plan.p = q
                /\ attempts'[w.attempt].ready = w.at
                /\ attempts'[w.attempt].prefillStart = None
                /\ w.seq < serial'
          /\ \A v, w \in waiting'[q] : v.attempt = w.attempt \/ v.seq = w.seq => v = w
      <4>1. waiting'[q] \subseteq waiting[q]
        BY <1>11
      <4>2. \A w \in waiting[q] : w.seq \in Nat
        BY <1>1 DEF KernelTypeOK
      <4>3. IsFiniteSet(waiting'[q])
        BY <3>1, <4>1, FS_Subset DEF NodeFits
      <4>4. QED
        BY <1>1, <1>8, <1>9, <1>15, <3>1, <4>1, <4>2, <4>3 DEF NodeFits
    <3>3. CASE q = p
      <4>1. \A f \in queue' : InPrefill(f, q)' <=> f \in starts
        BY <1>15, <2>1, <2>2, <2>3, <2>4, <3>1, <3>3 DEF NodeFits
      <4>2. \A f, g \in starts : f = g
        BY <1>3, <1>6
      <4>3. busy'[q] <=> next # {}
        BY <1>1, <1>9, <3>3 DEF KernelTypeOK
      <4>4. next # {} <=> starts # {}
        BY <1>6
      <4>5. next = {} => waiting'[q] = {}
        BY <1>3, <1>11, <3>3
      <4>6. \A f \in starts : f \in queue'
        BY <1>15
      <4>7. QED
        BY <3>2, <4>1, <4>2, <4>3, <4>4, <4>5, <4>6 DEF NodeFits
    <3>4. CASE q # p
      <4>1. \A f \in queue' : InPrefill(f, q)' <=> f \in queue /\ InPrefill(f, q)
        BY <1>15, <2>1, <2>3, <2>4, <3>4
      <4>2. \A f \in queue : InPrefill(f, q) => f \in queue'
        BY <1>15, <2>2, <3>4 DEF InPrefill
      <4>3. (busy'[q] <=> busy[q]) /\ waiting'[q] = waiting[q]
        BY <1>1, <1>9, <1>11, <3>4 DEF KernelTypeOK
      <4>4. QED
        BY <3>1, <3>2, <4>1, <4>2, <4>3 DEF NodeFits
    <3>5. QED
      BY <3>3, <3>4
  <2>6. QED
    BY <2>5 DEF NodeInv
<1>17. OrderInv'
  <2>1. Pending' = Pending
    BY <1>15 DEF Pending
  <2>2. ASSUME NEW x \in Pending', NEW y \in Pending', x # y,
               (attempts[x].plan.p = attempts[y].plan.p)'
        PROVE  InOrder(x, y)'
    <3>0. PICK q : q = attempts[x].plan.p
      OBVIOUS
    <3>1. /\ x \in DOMAIN attempts /\ y \in DOMAIN attempts /\ x \in Pending /\ y \in Pending
          /\ q \in PNodes /\ attempts[y].plan.p = q
      BY <1>1, <1>15, <2>1, <2>2, <3>0 DEF Pending, KernelTypeOK, AttemptRecord, Plan
    <3>2. InOrder(x, y)
      BY <2>2, <3>0, <3>1 DEF KernelInv, OrderInv
    <3>3. \A z : (z \in WaitingFor(q))' => z \in WaitingFor(q)
      BY <1>11, <3>1 DEF WaitingFor
    <3>4. ASSUME attempts[y].ready < attempts[x].ready, (x \notin WaitingFor(q))'
          PROVE  (y \notin WaitingFor(q))'
      <4>1. CASE x \notin WaitingFor(q)
        BY <3>0, <3>2, <3>3, <3>4, <4>1 DEF InOrder
      <4>2. CASE x \in WaitingFor(q)
        <5>1. PICK w \in waiting[q] : w.attempt = x
          BY <4>2 DEF WaitingFor
        <5>2. w \in next /\ q = p
          BY <1>11, <3>1, <3>4, <5>1 DEF WaitingFor
        <5>3. SUFFICES ASSUME NEW v \in waiting'[q], v.attempt = y PROVE FALSE
          BY DEF WaitingFor
        <5>4. v \in waiting[q] /\ w.at <= v.at
          BY <1>3, <1>11, <3>1, <5>2, <5>3
        <5>5. attempts[x].ready = w.at /\ attempts[y].ready = v.at /\ w.at \in Nat /\ v.at \in Nat
          BY <1>4, <3>1, <5>1, <5>3, <5>4
        <5>6. QED
          BY <3>4, <5>4, <5>5
      <4>3. QED
        BY <4>1, <4>2
    <3>5. attempts'[x].plan.p = q
      BY <1>15, <3>0, <3>1
    <3>6. WaitingFor(attempts[x].plan.p)' = WaitingFor(q)'
      BY <3>5 DEF WaitingFor
    <3>7. QED
      BY <1>15, <3>0, <3>1, <3>2, <3>4, <3>6 DEF InOrder
  <2>3. QED
    BY <2>2 DEF OrderInv
<1>18. QED
  BY <1>13, <1>14, <1>16, <1>17 DEF KernelInv
-----------------------------------------------------------------------------
\* A prefill is priced by what its node and its claims hold, and starts.
LEMMA PrefillStartKeepsInv ==
    ASSUME KernelInv, NEW e \in queue, PrefillStart(e)
    PROVE  KernelInv'
<1>0. PICK a, t, p, work, kvs :
           /\ a = e.attempt /\ t = attempts[a] /\ p = t.plan.p
           /\ work = PrefillCost * Tokens(ToSet(PrefixOf(a)) \ Covered(a))
           /\ kvs = KvsCost * Tokens(Covered(a) \ cache[p])
  OBVIOUS
<1>1. /\ now' = e.at /\ now' \in 0..End /\ now <= now' /\ e.kind = "PREFILL_START"
      /\ \A f \in queue : now' <= f.at
      /\ now \in Nat /\ now' \in Nat /\ serial \in Nat
  BY PopsForward DEF KernelInv, PrefillStart, KernelTypeOK
<1>2. /\ a \in DOMAIN attempts /\ a \in AttemptKey /\ t \in AttemptRecord /\ p \in PNodes
      /\ t.ready # None /\ t.prefillStart = None /\ t.prefillFinish = None
      /\ t.decodeStart = None /\ a \notin done
  <2>1. a \in DOMAIN attempts /\ t.ready # None /\ t.prefillStart = None
    BY <1>0, <1>1 DEF KernelInv, LifeInv, EventFits
  <2>2. AttemptShape(a) /\ a \in AttemptKey /\ t \in AttemptRecord
    BY <1>0, <2>1 DEF KernelInv, LifeInv, KernelTypeOK
  <2>3. QED
    BY <1>0, <2>1, <2>2 DEF AttemptShape, AttemptRecord, Plan
<1>3. /\ \A q \in PNodes : \A w \in waiting[q] : w.attempt # a
      /\ \A f \in queue : f.attempt = a => f = e
  <2>1. EventFits(e)
    BY DEF KernelInv, LifeInv
  <2>2. ASSUME NEW q \in PNodes, NEW w \in waiting[q] PROVE w.attempt # a
    <3>1. w.attempt = a => q = p
      BY <1>0, <2>2 DEF KernelInv, NodeInv, NodeFits
    <3>2. QED
      BY <1>0, <1>1, <2>1, <2>2, <3>1 DEF EventFits, WaitingFor
  <2>3. ASSUME NEW f \in queue, f.attempt = a PROVE f = e
    <3>1. EventFits(f) /\ f.kind \in Kinds
      BY DEF KernelInv, LifeInv, KernelTypeOK
    <3>2. f.kind # "DECODE_START"
      BY <1>0, <1>2, <2>3, <3>1 DEF EventFits
    <3>3. QED
      BY <1>0, <1>1, <2>3, <3>1, <3>2 DEF KernelInv, LifeInv, OneNextEvent, NextKinds, Kinds
  <2>4. QED
    BY <2>2, <2>3
<1>4. /\ work \in Nat /\ kvs \in Nat
      /\ work < MaximumPrefillWork(a) => \E n \in PNodes : PrefixOf(a)[1] \in cache[n]
  <2>0. PICK held : held = cache[p] \cup (t.plan.claims \cap UNION {cache[n] : n \in PNodes \ {p}})
    OBVIOUS
  <2>1. /\ PrefixOf(a) \in Seq(Key) /\ IsFiniteSet(ToSet(PrefixOf(a)))
        /\ ToSet(PrefixOf(a)) \subseteq Key /\ MaximumPrefillWork(a) \in Nat
    BY <1>2, RequestOf DEF KernelInv, KernelTypeOK
  <2>2. Covered(a) = Leading(PrefixOf(a), held)
    BY <1>0, <2>0 DEF Covered
  <2>3. Covered(a) \subseteq ToSet(PrefixOf(a)) /\ (Covered(a) # {} => PrefixOf(a)[1] \in held)
    BY <2>1, <2>2, LeadingKeys
  <2>4. Tokens(ToSet(PrefixOf(a)) \ Covered(a)) \in Nat /\ Tokens(Covered(a) \ cache[p]) \in Nat
    <3>1. IsFiniteSet(ToSet(PrefixOf(a)) \ Covered(a)) /\ IsFiniteSet(Covered(a) \ cache[p])
      <4>1. ToSet(PrefixOf(a)) \ Covered(a) \subseteq ToSet(PrefixOf(a))
        OBVIOUS
      <4>2. Covered(a) \ cache[p] \subseteq ToSet(PrefixOf(a))
        BY <2>3
      <4>3. QED
        BY <2>1, <4>1, <4>2, FS_Subset
    <3>2. ToSet(PrefixOf(a)) \ Covered(a) \subseteq Key /\ Covered(a) \ cache[p] \subseteq Key
      BY <2>1, <2>3
    <3>3. QED
      BY <3>1, <3>2, TokensAreCounted
  <2>5. work \in Nat /\ kvs \in Nat
    BY <1>0, <2>4, KernelAssumption
  <2>6. work < MaximumPrefillWork(a) => Covered(a) # {}
    <3>1. SUFFICES ASSUME Covered(a) = {} PROVE work = MaximumPrefillWork(a)
      BY <2>1, <2>5
    <3>2. ToSet(PrefixOf(a)) \ Covered(a) = ToSet(PrefixOf(a))
      BY <3>1
    <3>3. QED
      BY <1>0, <3>2 DEF MaximumPrefillWork
  <2>7. PrefixOf(a)[1] \in held => \E n \in PNodes : PrefixOf(a)[1] \in cache[n]
    BY <1>2, <2>0
  <2>8. QED
    BY <2>3, <2>5, <2>6, <2>7
<1>5. PICK finish, ends : finish = now' + work + kvs /\ ends = Event("PREFILL_FINISH", finish, serial, a)
  OBVIOUS
<1>6. /\ finish \in Nat /\ now' <= finish /\ ends.kind = "PREFILL_FINISH" /\ ends.at = finish
      /\ ends.attempt = a
      /\ ends \in [kind: Kinds, at: Nat, seq: Nat, attempt: AttemptKey]
  BY <1>1, <1>2, <1>4, <1>5 DEF Event, Kinds
<1>7. /\ attempts' = [attempts EXCEPT ![a] =
              [@ EXCEPT !.prefillStart = now', !.prefillWork = work, !.kvsWork = kvs,
                        !.prefillFinish = finish]]
      /\ queue' = (queue \ {e}) \cup {ends}
      /\ queuedWork' = [queuedWork EXCEPT ![p] = StillQueued(p, a)]
      /\ serial' = serial + 1
      /\ UNCHANGED <<workload, cache, busy, waiting, dAvailable, done>>
  BY <1>0, <1>1, <1>5 DEF PrefillStart
<1>8. /\ DOMAIN attempts' = DOMAIN attempts
      /\ \A b \in DOMAIN attempts : b # a => attempts'[b] = attempts[b]
      /\ attempts'[a] = [t EXCEPT !.prefillStart = now', !.prefillWork = work, !.kvsWork = kvs,
                                  !.prefillFinish = finish]
  BY <1>0, <1>2, <1>7
<1>9. /\ attempts'[a] \in AttemptRecord
      /\ attempts'[a].prefillStart = now' /\ attempts'[a].prefillFinish = finish
      /\ attempts'[a].prefillWork = work /\ attempts'[a].decodeStart = None
      /\ attempts'[a].ready = t.ready
      /\ \A b \in DOMAIN attempts :
           /\ attempts'[b].plan = attempts[b].plan
           /\ attempts'[b].terminal = attempts[b].terminal
           /\ attempts'[b].ready = attempts[b].ready
           /\ attempts'[b].decodeStart = attempts[b].decodeStart
           /\ attempts'[b].finish = attempts[b].finish
           /\ attempts'[b].fence = attempts[b].fence
  <2>1. attempts'[a] \in AttemptRecord
    BY <1>1, <1>2, <1>4, <1>6, <1>8, ZenonT(40) DEF AttemptRecord
  <2>2. /\ attempts'[a].prefillStart = now' /\ attempts'[a].prefillFinish = finish
        /\ attempts'[a].prefillWork = work /\ attempts'[a].decodeStart = t.decodeStart
        /\ attempts'[a].ready = t.ready /\ attempts'[a].plan = t.plan
        /\ attempts'[a].terminal = t.terminal /\ attempts'[a].finish = t.finish
        /\ attempts'[a].fence = t.fence
    BY <1>2, <1>8 DEF AttemptRecord
  <2>3. QED
    BY <1>0, <1>2, <1>8, <2>1, <2>2, ZenonT(40)
<1>10. /\ \A f \in queue' : (f \in queue /\ f # e) \/ f = ends
       /\ \A f \in queue : f \in queue' \/ f = e
       /\ ends \in queue'
  BY <1>7
<1>11. LifeInv'
  <2>1. ASSUME NEW b \in DOMAIN attempts' PROVE AttemptShape(b)' /\ AttemptGoesOn(b)'
    <3>1. b \in DOMAIN attempts /\ AttemptShape(b) /\ AttemptGoesOn(b)
      BY <1>8, <2>1 DEF KernelInv, LifeInv
    <3>2. CASE b # a
      <4>1. attempts[b].plan.p \in PNodes
        BY <3>1 DEF KernelInv, KernelTypeOK, AttemptRecord, Plan
      <4>2. \A f \in queue : f.attempt = b => f \in queue'
        BY <1>0, <1>10, <3>2
      <4>3. QED
        BY <1>1, <1>7, <1>8, <3>1, <3>2, <4>1, <4>2, KeepsAttempt DEF KernelInv
    <3>3. CASE b = a
      <4>1. Has(a, {"PREFILL_FINISH"})'
        BY <1>6, <1>10 DEF Has
      <4>2. attempts'[a].ready <= now'
        BY <1>0, <1>1, <1>2, <1>9, <3>1, <3>3 DEF AttemptShape, AttemptRecord, None
      <4>3. AttemptShape(b)'
        BY <1>1, <1>2, <1>6, <1>7, <1>9, <3>3, <4>1, <4>2 DEF AttemptShape, None
      <4>4. Has(a, {"PREFILL_FINISH", "DECODE_START"})'
        BY <4>1 DEF Has
      <4>5. AttemptGoesOn(b)'
        BY <1>1, <1>2, <1>9, <3>3, <4>4 DEF AttemptGoesOn, None
      <4>6. QED
        BY <4>3, <4>5
    <3>4. QED
      BY <3>2, <3>3
  <2>2. ASSUME NEW f \in queue' PROVE EventFits(f)'
    <3>1. CASE f \in queue /\ f # e
      <4>1. EventFits(f) /\ now' <= f.at /\ f.attempt # a
        BY <1>1, <1>3, <3>1 DEF KernelInv, LifeInv
      <4>2. CASE f.kind = "ARRIVAL"
        BY <1>8, <3>1, <4>1, <4>2, KeepsArrival
      <4>3. CASE f.kind # "ARRIVAL"
        <5>1. f.attempt \in DOMAIN attempts
          BY <4>1, <4>3 DEF EventFits
        <5>2. Has(f.attempt, {"DECODE_START"})' => Has(f.attempt, {"DECODE_START"})
          BY <1>6, <1>10 DEF Has
        <5>3. f.kind = "PREFILL_START" =>
                  \A w \in waiting'[attempts[f.attempt].plan.p] : w.attempt # f.attempt
          BY <1>7, <4>1 DEF EventFits, WaitingFor
        <5>4. QED
          BY <1>1, <1>7, <1>8, <3>1, <4>1, <4>3, <5>1, <5>2, <5>3, KeepsEvent DEF KernelInv
      <4>4. QED
        BY <4>2, <4>3
    <3>2. CASE f = ends
      <4>1. ~Has(a, {"DECODE_START"})'
        BY <1>3, <1>6, <1>10 DEF Has
      <4>2. attempts'[a].prefillStart # None
        BY <1>1, <1>9 DEF None
      <4>3. QED
        BY <1>2, <1>6, <1>8, <1>9, <3>2, <4>1, <4>2 DEF EventFits
    <3>3. QED
      BY <1>10, <3>1, <3>2
  <2>3. OneNextEvent'
    BY <1>3, <1>6, <1>10 DEF KernelInv, LifeInv, OneNextEvent
  <2>4. OneAttemptAtATime'
    BY <1>7, <1>8, <1>9 DEF KernelInv, LifeInv, OneAttemptAtATime
  <2>5. QED
    BY <2>1, <2>2, <2>3, <2>4 DEF LifeInv
<1>12. NodeInv'
  <2>1. \A f \in queue, q \in PNodes : InPrefill(f, q)' <=> InPrefill(f, q)
    <3>1. \A f \in queue : f.kind \in PrefillKinds => f.attempt \in DOMAIN attempts
      BY DEF KernelInv, LifeInv, EventFits, PrefillKinds
    <3>2. QED
      BY <1>9, <3>1 DEF InPrefill
  <2>2. ASSUME NEW q \in PNodes
        PROVE  (InPrefill(ends, q)' <=> q = p) /\ (InPrefill(e, q) <=> q = p)
    BY <1>0, <1>1, <1>2, <1>6, <1>9 DEF InPrefill, PrefillKinds
  <2>3. ASSUME NEW q \in PNodes PROVE NodeFits(q)'
    <3>1. NodeFits(q)
      BY DEF KernelInv, NodeInv
    <3>2. \A f \in queue' : InPrefill(f, q)' <=> (f \in queue /\ f # e /\ InPrefill(f, q)) \/ (f = ends /\ q = p)
      BY <1>10, <2>1, <2>2
    <3>3. \A f \in queue : InPrefill(f, q) /\ f # e => f \in queue'
      BY <1>10
    <3>4. \A f, g \in queue' : InPrefill(f, q)' /\ InPrefill(g, q)' => f = g
      BY <2>2, <3>1, <3>2 DEF NodeFits
    <3>5. busy'[q] <=> \E f \in queue' : InPrefill(f, q)'
      BY <1>7, <1>10, <2>2, <3>1, <3>2, <3>3 DEF NodeFits
    <3>6. \A w \in waiting[q] : w.seq \in Nat /\ w.attempt # a
      BY <1>3 DEF KernelInv, KernelTypeOK
    <3>7. QED
      BY <1>1, <1>7, <1>8, <3>1, <3>4, <3>5, <3>6 DEF NodeFits
  <2>4. QED
    BY <2>3 DEF NodeInv
<1>13. OrderInv'
  <2>1. Pending' = Pending /\ a \in Pending
    BY <1>0, <1>2, <1>8, <1>9 DEF Pending
  <2>2. \A q : WaitingFor(q)' = WaitingFor(q)
    BY <1>7 DEF WaitingFor
  <2>3. ASSUME NEW b \in Pending, b # a, attempts[b].plan.p = p
        PROVE  /\ attempts[b].prefillStart # None => attempts[b].prefillFinish <= now'
               /\ b \notin WaitingFor(p) => attempts[b].prefillStart # None
               /\ attempts[b].prefillStart <= now'
    <3>1. /\ b \in DOMAIN attempts /\ AttemptShape(b) /\ AttemptGoesOn(b) /\ attempts[b].ready # None
          /\ attempts[b] \in AttemptRecord
      BY DEF Pending, KernelInv, LifeInv, KernelTypeOK
    <3>2. ~Has(b, {"PREFILL_FINISH"}) /\ ~Has(b, {"PREFILL_START"})
      <4>1. \A f \in queue : InPrefill(f, p) => f = e
        BY <1>0, <1>1, <1>2 DEF KernelInv, NodeInv, NodeFits, InPrefill, PrefillKinds
      <4>2. QED
        BY <1>0, <2>3, <4>1 DEF Has, InPrefill, PrefillKinds
    <3>3. attempts[b].prefillFinish \in Int /\ attempts[b].prefillStart \in Int
      BY <3>1 DEF AttemptRecord, None
    <3>4. QED
      BY <1>1, <2>3, <3>1, <3>2, <3>3 DEF AttemptShape, AttemptGoesOn
  <2>4. a \notin WaitingFor(p)
    BY <1>2, <1>3 DEF WaitingFor
  <2>5. ASSUME NEW x \in Pending', NEW y \in Pending', x # y,
               (attempts[x].plan.p = attempts[y].plan.p)'
        PROVE  InOrder(x, y)'
    <3>0. PICK q : q = attempts[x].plan.p
      OBVIOUS
    <3>1. /\ x \in DOMAIN attempts /\ y \in DOMAIN attempts /\ x \in Pending /\ y \in Pending
          /\ attempts[y].plan.p = q /\ attempts'[x].plan.p = q
      BY <1>9, <2>1, <2>5, <3>0 DEF Pending
    <3>2. InOrder(x, y)
      BY <2>5, <3>0, <3>1 DEF KernelInv, OrderInv
    <3>3. (x \in WaitingFor(q))' <=> x \in WaitingFor(q)
      BY <2>2
    <3>4. (y \in WaitingFor(q))' <=> y \in WaitingFor(q)
      BY <2>2
    <3>5. WaitingFor(attempts[x].plan.p)' = WaitingFor(q)'
      BY <3>1 DEF WaitingFor
    <3>6. CASE x # a /\ y # a
      <4>1. attempts'[x] = attempts[x] /\ attempts'[y] = attempts[y]
        BY <1>8, <3>1, <3>6
      <4>2. QED
        BY <3>0, <3>2, <3>3, <3>4, <3>5, <4>1 DEF InOrder
    <3>7. CASE x = a
      <4>1. q = p /\ attempts'[y] = attempts[y] /\ y # a
        BY <1>0, <1>8, <2>5, <3>0, <3>1, <3>7
      <4>2. attempts[y].ready < t.ready => y \notin WaitingFor(p)
        BY <1>0, <2>4, <3>0, <3>2, <3>7, <4>1 DEF InOrder
      <4>3. QED
        BY <1>9, <2>2, <2>3, <3>1, <3>5, <3>7, <4>1, <4>2 DEF InOrder
    <3>8. CASE y = a
      <4>1. q = p /\ attempts'[x] = attempts[x] /\ x # a
        BY <1>0, <1>8, <2>5, <3>1, <3>8
      <4>2. ~(t.ready < attempts[x].ready /\ attempts[x].prefillStart # None)
        BY <1>0, <1>2, <3>0, <3>2, <3>8 DEF InOrder
      <4>3. (x \notin WaitingFor(p) /\ t.ready < attempts[x].ready) => a \notin WaitingFor(p)
        BY <2>4
      <4>4. attempts[x].prefillStart # None => attempts[x].prefillFinish <= now'
        BY <2>3, <3>0, <3>1, <4>1
      <4>5. QED
        BY <1>9, <2>2, <2>4, <3>1, <3>5, <3>8, <4>1, <4>2, <4>4 DEF InOrder
    <3>9. QED
      BY <3>6, <3>7, <3>8
  <2>6. QED
    BY <2>5 DEF OrderInv
<1>14. NoDecodeMoves /\ DoneKept
  BY <1>7, <1>8, <1>9 DEF NoDecodeMoves, Kept, DoneKept, KernelInv, KernelTypeOK
<1>15. SleepInv'
  <2>1. \A f : f.kind = "DECODE_START" => (f \in queue' <=> f \in queue)
    BY <1>1, <1>6, <1>7
  <2>2. \A f \in queue : f.kind = "DECODE_START" => f.attempt \in DOMAIN attempts
    BY DEF KernelInv, LifeInv, EventFits
  <2>3. QED
    BY <1>1, <1>7, <1>9, <1>14, <2>1, <2>2, KeepsSleepInv DEF KernelInv
<1>16. DecodeInv' /\ CacheInv'
  BY <1>7, <1>14, KeepsDecodeInv, KeepsCacheInv DEF KernelInv
<1>17. HitsComeFromPublishedWork'
  <2>1. ASSUME NEW b \in DOMAIN attempts' PROVE HitFits(b)'
    <3>1. CASE b # a
      <4>1. HitFits(b) /\ attempts'[b] = attempts[b]
        BY <1>8, <2>1, <3>1 DEF KernelInv, HitsComeFromPublishedWork, HitFits
      <4>2. QED
        BY <1>14, <4>1, KeepsHit
    <3>2. CASE b = a
      <4>1. SUFFICES ASSUME work < MaximumPrefillWork(a)
                     PROVE  \E c \in done \ {a} :
                              /\ attempts'[c].finish <= now'
                              /\ attempts'[c].terminal = "COMPLETED" \/ attempts'[c].plan.reusable
                              /\ PrefixOf(a)[1] \in ToSet(PrefixOf(c))
        BY <1>7, <1>9, <3>2 DEF HitFits, MaximumPrefillWork, PrefixOf, Tokens
      <4>2. PICK n \in PNodes : PrefixOf(a)[1] \in cache[n]
        BY <1>4, <4>1
      <4>3. PICK c \in DOMAIN attempts : Published(c, PrefixOf(a)[1])
        BY <4>2 DEF KernelInv, CacheInv
      <4>4. c \in done /\ c # a /\ attempts[c].finish <= now
        BY <1>2, <4>3 DEF Published, KernelInv, LifeInv, AttemptShape
      <4>5. attempts[c].finish \in Int /\ attempts'[c] = attempts[c]
        BY <1>8, <4>4 DEF KernelInv, KernelTypeOK, AttemptRecord, None
      <4>6. QED
        BY <1>1, <4>3, <4>4, <4>5 DEF Published
    <3>3. QED
      BY <3>1, <3>2
  <2>2. QED
    BY <2>1 DEF HitsComeFromPublishedWork, HitFits
<1>18. QueueProxyExact'
  <2>1. WaitingFor(p) = Queued(p) \ {a}
    <3>1. ASSUME NEW b \in Queued(p), b # a PROVE b \in WaitingFor(p)
      <4>1. /\ b \in DOMAIN attempts /\ AttemptGoesOn(b) /\ attempts[b].ready # None
            /\ attempts[b].plan.p = p /\ attempts[b].prefillStart = None
        BY DEF Queued, Pending, KernelInv, LifeInv
      <4>2. \A f \in queue : InPrefill(f, p) => f = e
        BY <1>0, <1>1, <1>2 DEF KernelInv, NodeInv, NodeFits, InPrefill, PrefillKinds
      <4>3. ~Has(b, {"PREFILL_START"})
        BY <1>0, <3>1, <4>1, <4>2 DEF Has, InPrefill, PrefillKinds
      <4>4. QED
        BY <4>1, <4>3 DEF AttemptGoesOn
    <3>2. ASSUME NEW w \in waiting[p] PROVE w.attempt \in Queued(p) \ {a}
      <4>1. /\ w.attempt \in DOMAIN attempts /\ attempts[w.attempt].plan.p = p
            /\ attempts[w.attempt].ready = w.at /\ attempts[w.attempt].prefillStart = None
        BY <1>2 DEF KernelInv, NodeInv, NodeFits
      <4>2. w.at \in Nat /\ w.attempt # a
        BY <1>2, <1>3 DEF KernelInv, KernelTypeOK
      <4>3. QED
        BY <4>1, <4>2 DEF Queued, Pending, None
    <3>3. QED
      BY <3>1, <3>2 DEF WaitingFor
  <2>2. StillQueued(p, a) = WorkOf(WaitingFor(p))
    <3> DEFINE f == [w \in waiting[p] |-> MaximumPrefillWork(w.attempt)]
               h == [b \in WaitingFor(p) |-> MaximumPrefillWork(b)]
               m == [w \in waiting[p] |-> w.attempt]
    <3>1. IsFiniteSet(waiting[p]) /\ \A v, w \in waiting[p] : v.attempt = w.attempt => v = w
      BY <1>2 DEF KernelInv, NodeInv, NodeFits
    <3>2. \A w \in waiting[p] : w.attempt \in AttemptKey
      BY <1>2 DEF KernelInv, KernelTypeOK
    <3>3. \A w \in waiting[p] : MaximumPrefillWork(w.attempt) \in Nat
      BY <3>2, RequestOf DEF KernelInv, KernelTypeOK
    <3>4. \A w \in waiting[p] : w.attempt \in WaitingFor(p)
      BY DEF WaitingFor
    <3>5. \A w \in waiting[p] : f[w] \in Int /\ h[m[w]] = f[w]
      BY <3>3, <3>4
    <3>6. \A v, w \in waiting[p] : m[v] = m[w] => v = w
      BY <3>1
    <3>7. {m[w] : w \in waiting[p]} = WaitingFor(p)
      BY DEF WaitingFor
    <3>8. StillQueued(p, a) = SumFunctionOnSet(f, waiting[p])
      BY DEF StillQueued, SumFunction
    <3>9. WorkOf(WaitingFor(p)) = SumFunctionOnSet(h, WaitingFor(p))
      BY DEF WorkOf
    <3> HIDE DEF f, h, m
    <3>10. SumFunctionOnSet(h, {m[w] : w \in waiting[p]}) = SumFunctionOnSet(f, waiting[p])
      BY <3>1, <3>5, <3>6, SumOverImage
    <3>11. QED
      BY <3>7, <3>8, <3>9, <3>10
  <2>3. ASSUME NEW q \in PNodes PROVE Queued(q)' = IF q = p THEN WaitingFor(p) ELSE Queued(q)
    <3>1. \A b \in DOMAIN attempts : b # a =>
            /\ attempts'[b].ready = attempts[b].ready /\ attempts'[b].plan = attempts[b].plan
            /\ attempts'[b].prefillStart = attempts[b].prefillStart
      BY <1>8
    <3>2. attempts'[a].prefillStart # None
      BY <1>1, <1>9 DEF None
    <3>3. \A b : b \in Queued(q)' <=> b \in Queued(q) /\ b # a
      BY <1>8, <3>1, <3>2 DEF Queued, Pending
    <3>4. q # p => a \notin Queued(q)
      BY <1>0 DEF Queued
    <3>5. QED
      BY <2>1, <3>3, <3>4
  <2>4. \A s : WorkOf(s)' = WorkOf(s)
    BY <1>7 DEF WorkOf, MaximumPrefillWork, Tokens, PrefixOf
  <2>5. \A q \in PNodes : queuedWork[q] = WorkOf(Queued(q))
    BY ProxyIsWork DEF KernelInv
  <2>6. ASSUME NEW q \in PNodes PROVE (queuedWork[q] = WorkOf(Queued(q)))'
    <3>1. queuedWork'[q] = IF q = p THEN StillQueued(p, a) ELSE queuedWork[q]
      BY <1>7 DEF KernelInv, KernelTypeOK
    <3>2. WorkOf(Queued(q))' = IF q = p THEN WorkOf(WaitingFor(p)) ELSE WorkOf(Queued(q))
      BY <2>3, <2>4
    <3>3. QED
      BY <2>2, <2>5, <3>1, <3>2
  <2>7. QED
    BY <2>6 DEF QueueProxyExact, Queued, WorkOf, SumFunction
<1>19. KernelTypeOK'
  <2>1. queue' \subseteq [kind: Kinds, at: Nat, seq: Nat, attempt: AttemptKey]
    BY <1>6, <1>7 DEF KernelInv, KernelTypeOK
  <2>2. \A b \in DOMAIN attempts' : attempts'[b] \in AttemptRecord
    BY <1>8, <1>9 DEF KernelInv, KernelTypeOK
  <2>3. queuedWork' \in [PNodes -> Nat]
    <3>1. StillQueued(p, a) \in Nat
      <4> DEFINE f == [w \in waiting[p] |-> MaximumPrefillWork(w.attempt)]
      <4>1. IsFiniteSet(waiting[p]) /\ \A w \in waiting[p] : w.attempt \in AttemptKey
        BY <1>2 DEF KernelInv, NodeInv, NodeFits, KernelTypeOK
      <4>2. \A w \in waiting[p] : f[w] \in Nat
        BY <4>1, RequestOf DEF KernelInv, KernelTypeOK
      <4>3. StillQueued(p, a) = SumFunctionOnSet(f, waiting[p])
        BY DEF StillQueued, SumFunction
      <4> HIDE DEF f
      <4>4. QED
        BY <4>1, <4>2, <4>3, SumOfNaturals
    <3>2. QED
      BY <1>7, <3>1 DEF KernelInv, KernelTypeOK
  <2>4. serial' \in Nat /\ AttemptKey' = AttemptKey
    BY <1>1, <1>7 DEF AttemptKey
  <2>5. QED
    BY <1>1, <1>7, <1>8, <2>1, <2>2, <2>3, <2>4 DEF KernelInv, KernelTypeOK
<1>20. QED
  BY <1>11, <1>12, <1>13, <1>15, <1>16, <1>17, <1>18, <1>19 DEF KernelInv
-----------------------------------------------------------------------------
\* What becomes of a decode at the end of its lease: it ends at finish, and
\* the attempts that slept on its node are woken if it was cut short.
Repriced(a, e, aborts, finish, woken, wakes, ends) ==
    /\ DOMAIN attempts' = DOMAIN attempts
    /\ \A b \in DOMAIN attempts : b # a => attempts'[b] = attempts[b]
    /\ attempts'[a] \in AttemptRecord
    /\ attempts'[a].plan = attempts[a].plan
    /\ attempts'[a].ready = attempts[a].ready
    /\ attempts'[a].prefillStart = attempts[a].prefillStart
    /\ attempts'[a].prefillFinish = attempts[a].prefillFinish
    /\ attempts'[a].prefillWork = attempts[a].prefillWork
    /\ attempts'[a].decodeStart = attempts[a].decodeStart
    /\ attempts'[a].fence = attempts[a].fence
    /\ attempts'[a].finish = finish
    /\ finish = attempts'[a].decodeStart + attempts'[a].emitted
    /\ now' <= finish /\ finish <= attempts[a].finish
    /\ queue' = (queue \ {e}) \cup wakes \cup {ends}
    /\ ends \in [kind: {"COMPLETION"}, at: {finish}, seq: Nat, attempt: {a}]
    /\ wakes \subseteq [kind: {"DECODE_START"}, at: {now'}, seq: Nat, attempt: woken]
    /\ \A b \in woken : \E f \in wakes : f.attempt = b
    /\ woken = IF aborts THEN GatedOn(attempts[a].plan.d, now') ELSE {}
    /\ IF aborts
       THEN finish = now' /\ dAvailable' = [dAvailable EXCEPT ![attempts[a].plan.d] = now']
       ELSE attempts' = attempts /\ dAvailable' = dAvailable
    /\ serial' \in Nat /\ serial <= serial'

LEMMA RepricedOnce ==
    ASSUME KernelTypeOK, LifeInv, NEW e \in queue, NEW aborts \in BOOLEAN, LeaseBoundary(e, aborts),
           now' \in Nat, now' = e.at, NEW a, a = e.attempt
    PROVE  \E finish, woken, wakes, ends : Repriced(a, e, aborts, finish, woken, wakes, ends)
<1>0. PICK t, d : t = attempts[a] /\ d = t.plan.d
  OBVIOUS
<1>1. /\ a \in DOMAIN attempts /\ t \in AttemptRecord /\ t.decodeStart # None
      /\ t.decodeStart < now' /\ now' < t.finish /\ t.finish = t.decodeStart + t.emitted
  <2>1. e.kind = "LEASE_BOUNDARY" /\ EventFits(e)
    BY DEF LeaseBoundary, Pops, LifeInv
  <2>2. /\ a \in DOMAIN attempts /\ t.decodeStart # None /\ t.decodeStart < now' /\ now' < t.finish
    BY <1>0, <2>1 DEF EventFits
  <2>3. t \in AttemptRecord /\ t.finish = t.decodeStart + t.emitted
    BY <1>0, <2>2 DEF KernelTypeOK, LifeInv, AttemptShape
  <2>4. QED
    BY <2>2, <2>3
<1>2. t.decodeStart \in Nat /\ t.emitted \in Nat /\ t.finish \in Nat /\ serial \in Nat
  BY <1>1 DEF AttemptRecord, KernelTypeOK, None
<1>3. CASE aborts
  <2>1. PICK woken : woken = GatedOn(d, now')
    OBVIOUS
  <2>2. IsFiniteSet(woken) /\ Cardinality(woken) \in Nat
    <3>1. woken \subseteq DOMAIN attempts
      BY <2>1 DEF GatedOn
    <3>2. QED
      BY <3>1, AttemptsAreFinite, FS_Subset, FS_CardinalityType
  <2>3. PICK wakes, ends :
          /\ wakes = {Event("DECODE_START", now',
                            serial + Cardinality({c \in woken : LexBefore(c, b)}), b) : b \in woken}
          /\ ends = Event("COMPLETION", now', serial + Cardinality(woken), a)
    OBVIOUS
  <2>4. PICK early : early = now' - t.decodeStart
    OBVIOUS
  <2>5. early \in Nat /\ now' = t.decodeStart + early
    BY <1>1, <1>2, <2>4
  <2>6. /\ attempts' = [attempts EXCEPT ![a] =
              [@ EXCEPT !.emitted = early, !.terminal = "ABORTED", !.finish = now']]
        /\ dAvailable' = [dAvailable EXCEPT ![d] = now']
        /\ queue' = (queue \ {e}) \cup wakes \cup {ends}
        /\ serial' = serial + Cardinality(woken) + 1
    <3>1. /\ attempts' = [attempts EXCEPT ![e.attempt] =
                [@ EXCEPT !.emitted = e.at - attempts[e.attempt].decodeStart,
                          !.terminal = "ABORTED", !.finish = e.at]]
          /\ dAvailable' = [dAvailable EXCEPT ![attempts[e.attempt].plan.d] = e.at]
      BY <1>3 DEF LeaseBoundary
    <3>2. woken = GatedOn(attempts[e.attempt].plan.d, e.at)
      BY <1>0, <2>1
    <3>3. /\ queue' = (queue \ {e}) \cup wakes \cup {ends}
          /\ serial' = serial + Cardinality(woken) + 1
      BY <1>0, <1>3, <2>3, <3>2 DEF LeaseBoundary
    <3>4. QED
      BY <1>0, <2>4, <3>1, <3>3
  <2>7. attempts'[a] = [t EXCEPT !.emitted = early, !.terminal = "ABORTED", !.finish = now']
    BY <1>0, <1>1, <2>6
  <2>8. /\ attempts'[a] \in AttemptRecord
        /\ attempts'[a].plan = t.plan /\ attempts'[a].ready = t.ready
        /\ attempts'[a].prefillStart = t.prefillStart
        /\ attempts'[a].prefillFinish = t.prefillFinish
        /\ attempts'[a].prefillWork = t.prefillWork
        /\ attempts'[a].decodeStart = t.decodeStart
        /\ attempts'[a].fence = t.fence
        /\ attempts'[a].finish = now' /\ attempts'[a].emitted = early
    BY <1>1, <2>5, <2>7, ZenonT(40) DEF AttemptRecord
  <2>9. ends \in [kind: {"COMPLETION"}, at: {now'}, seq: Nat, attempt: {a}]
    BY <1>2, <2>2, <2>3 DEF Event
  <2>10. ASSUME NEW b \in woken
         PROVE  \E f \in wakes : /\ f.attempt = b
                                 /\ f \in [kind: {"DECODE_START"}, at: {now'}, seq: Nat, attempt: woken]
    <3>1. PICK k : k = serial + Cardinality({c \in woken : LexBefore(c, b)})
      OBVIOUS
    <3>2. k \in Nat
      <4>1. {c \in woken : LexBefore(c, b)} \subseteq woken
        OBVIOUS
      <4>2. Cardinality({c \in woken : LexBefore(c, b)}) \in Nat
        BY <2>2, <4>1, FS_Subset, FS_CardinalityType
      <4>3. QED
        BY <1>2, <3>1, <4>2
    <3>3. Event("DECODE_START", now', k, b) \in wakes
      BY <2>3, <3>1
    <3>4. QED
      BY <3>2, <3>3 DEF Event
  <2>11. wakes \subseteq [kind: {"DECODE_START"}, at: {now'}, seq: Nat, attempt: woken]
    <3>1. SUFFICES ASSUME NEW f \in wakes
                   PROVE  f \in [kind: {"DECODE_START"}, at: {now'}, seq: Nat, attempt: woken]
      OBVIOUS
    <3>2. PICK b \in woken :
            f = Event("DECODE_START", now', serial + Cardinality({c \in woken : LexBefore(c, b)}), b)
      BY <2>3
    <3>3. Cardinality({c \in woken : LexBefore(c, b)}) \in Nat
      <4>1. {c \in woken : LexBefore(c, b)} \subseteq woken
        OBVIOUS
      <4>2. QED
        BY <2>2, <4>1, FS_Subset, FS_CardinalityType
    <3>4. QED
      BY <1>2, <3>2, <3>3 DEF Event
  <2>12. /\ DOMAIN attempts' = DOMAIN attempts
         /\ \A b \in DOMAIN attempts : b # a => attempts'[b] = attempts[b]
    BY <2>6
  <2>13. now' <= now' /\ now' <= t.finish
    BY <1>1, <1>2
  <2>14. serial' \in Nat /\ serial <= serial'
    BY <1>2, <2>2, <2>6
  <2>15. now' = attempts'[a].decodeStart + attempts'[a].emitted
    BY <2>5, <2>8
  <2>16. \A b \in woken : \E f \in wakes : f.attempt = b
    BY <2>10, SMTT(30)
  <2>17. Repriced(a, e, aborts, now', woken, wakes, ends)
    BY <1>0, <1>3, <2>1, <2>6, <2>8, <2>9, <2>11, <2>12, <2>13, <2>14, <2>15, <2>16, Zenon DEF Repriced
  <2>18. QED
    BY <2>17
<1>4. CASE ~aborts
  <2>1. PICK ends : ends = Event("COMPLETION", t.finish, serial, a)
    OBVIOUS
  <2>2. /\ queue' = (queue \ {e}) \cup {} \cup {ends}
        /\ serial' = serial + 1
        /\ attempts' = attempts /\ dAvailable' = dAvailable
    BY <1>0, <1>4, <2>1 DEF LeaseBoundary
  <2>3. ends \in [kind: {"COMPLETION"}, at: {t.finish}, seq: Nat, attempt: {a}]
    BY <1>2, <2>1 DEF Event
  <2>4. serial' \in Nat /\ serial <= serial' /\ now' <= t.finish /\ t.finish <= t.finish
    BY <1>1, <1>2, <2>2
  <2>5. Repriced(a, e, aborts, t.finish, {}, {}, ends)
    BY <1>0, <1>1, <1>4, <2>2, <2>3, <2>4 DEF Repriced
  <2>6. QED
    BY <2>5
<1>5. QED
  BY <1>3, <1>4
\* A lease ends: its decode is repriced.
LEMMA LeaseBoundaryKeepsInv ==
    ASSUME KernelInv, NEW e \in queue, NEW aborts \in BOOLEAN, LeaseBoundary(e, aborts)
    PROVE  KernelInv'
<1>0. PICK a, t, d : a = e.attempt /\ t = attempts[a] /\ d = t.plan.d
  OBVIOUS
<1>1. /\ now' = e.at /\ now' \in 0..End /\ now <= now' /\ e.kind = "LEASE_BOUNDARY"
      /\ \A f \in queue : now' <= f.at
      /\ now \in Nat /\ now' \in Nat /\ serial \in Nat /\ KernelTypeOK /\ LifeInv
  BY PopsForward DEF KernelInv, LeaseBoundary, KernelTypeOK
<1>2. PICK finish, woken, wakes, ends : Repriced(a, e, aborts, finish, woken, wakes, ends)
  BY <1>0, <1>1, RepricedOnce
<1>3. UNCHANGED <<workload, cache, busy, waiting, queuedWork, done>>
  BY DEF LeaseBoundary
<1>4. /\ a \in DOMAIN attempts /\ a \in AttemptKey /\ t \in AttemptRecord /\ d \in DNodes
      /\ t.decodeStart # None /\ t.decodeStart < now' /\ now' < t.finish /\ a \notin done
      /\ t.prefillStart # None /\ t.ready # None /\ t.prefillFinish # None
      /\ t.prefillFinish <= now' /\ t.ready <= now' /\ t.prefillStart <= now'
      /\ \A f \in queue : f.attempt = a => f = e \/ f.kind = "DECODE_START"
  <2>1. EventFits(e)
    BY <1>1 DEF LifeInv
  <2>2. /\ a \in DOMAIN attempts /\ t.decodeStart # None /\ t.decodeStart < now' /\ now' < t.finish
        /\ a \notin done
    BY <1>0, <1>1, <2>1 DEF EventFits
  <2>3. AttemptShape(a) /\ t \in AttemptRecord /\ a \in AttemptKey
    BY <1>0, <1>1, <2>2 DEF LifeInv, KernelTypeOK
  <2>4. /\ t.prefillStart # None /\ t.ready # None /\ t.prefillFinish # None /\ d \in DNodes
        /\ t.ready <= now /\ t.prefillStart <= now
        /\ t.ready \in Int /\ t.prefillStart \in Int /\ t.prefillFinish \in Int
    BY <1>0, <2>2, <2>3 DEF AttemptShape, AttemptRecord, Plan, None
  <2>5. ASSUME NEW f \in queue, f.attempt = a, f # e PROVE f.kind = "DECODE_START"
    BY <1>0, <1>1, <2>5 DEF LifeInv, OneNextEvent, NextKinds, Kinds, KernelTypeOK
  <2>6. ~Has(a, {"PREFILL_FINISH"})
    BY <1>1, <2>5 DEF Has
  <2>7. t.prefillFinish <= now
    BY <1>0, <2>3, <2>4, <2>6 DEF AttemptShape
  <2>8. QED
    BY <1>1, <2>2, <2>3, <2>4, <2>5, <2>7
<1>5. /\ DOMAIN attempts' = DOMAIN attempts
      /\ \A b \in DOMAIN attempts : b # a => attempts'[b] = attempts[b]
      /\ attempts'[a] \in AttemptRecord
      /\ attempts'[a].decodeStart = t.decodeStart /\ attempts'[a].finish = finish
      /\ finish = t.decodeStart + attempts'[a].emitted
      /\ now' <= finish /\ finish <= t.finish
      /\ queue' = (queue \ {e}) \cup wakes \cup {ends}
      /\ ends.kind = "COMPLETION" /\ ends.at = finish /\ ends.attempt = a /\ ends.seq \in Nat
      /\ \A f \in wakes : f.kind = "DECODE_START" /\ f.at = now' /\ f.attempt \in woken /\ f.seq \in Nat
      /\ \A b \in woken : \E f \in wakes : f.attempt = b
      /\ serial' \in Nat /\ serial <= serial'
  BY <1>0, <1>2 DEF Repriced
<1>6. \A b \in DOMAIN attempts :
        /\ attempts'[b].plan = attempts[b].plan
        /\ attempts'[b].ready = attempts[b].ready
        /\ attempts'[b].prefillStart = attempts[b].prefillStart
        /\ attempts'[b].prefillFinish = attempts[b].prefillFinish
        /\ attempts'[b].prefillWork = attempts[b].prefillWork
        /\ attempts'[b].decodeStart = attempts[b].decodeStart
        /\ attempts'[b].fence = attempts[b].fence
        /\ b # a => attempts'[b].finish = attempts[b].finish
  BY <1>2, <1>5 DEF Repriced
<1>7. \A b \in woken : /\ b \in DOMAIN attempts /\ b # a /\ b \in AttemptKey
                      /\ attempts[b].decodeStart = None
                      /\ attempts[b].prefillStart # None
                      /\ attempts[b].prefillFinish <= now'
                      /\ Has(b, {"DECODE_START"})
  <2>1. SUFFICES ASSUME NEW b \in woken
                 PROVE  /\ b \in DOMAIN attempts /\ b # a /\ b \in AttemptKey
                        /\ attempts[b].decodeStart = None
                        /\ attempts[b].prefillStart # None
                        /\ attempts[b].prefillFinish <= now'
                        /\ Has(b, {"DECODE_START"})
    OBVIOUS
  <2>2. b \in GatedOn(d, now')
    BY <1>0, <1>2 DEF Repriced
  <2>3. PICK g \in queue : g.kind = "DECODE_START" /\ g.attempt = b
    BY <2>2 DEF GatedOn
  <2>4. b \in DOMAIN attempts /\ attempts[b].decodeStart = None
    BY <2>2 DEF GatedOn
  <2>5. attempts[b].prefillStart # None /\ attempts[b].prefillFinish <= now
    BY <1>1, <2>3 DEF LifeInv, EventFits
  <2>6. attempts[b].prefillFinish \in Int /\ b \in AttemptKey
    BY <1>1, <2>4 DEF KernelTypeOK, AttemptRecord, None
  <2>7. QED
    BY <1>0, <1>1, <1>4, <2>3, <2>4, <2>5, <2>6 DEF Has
<1>8. /\ \A f \in queue' : (f \in queue /\ f # e) \/ f \in wakes \/ f = ends
      /\ \A f \in queue : f \in queue' \/ f = e
      /\ ends \in queue' /\ \A f \in wakes : f \in queue'
  BY <1>5
<1>9. LifeInv'
  <2>1. ASSUME NEW b \in DOMAIN attempts' PROVE AttemptShape(b)' /\ AttemptGoesOn(b)'
    <3>1. b \in DOMAIN attempts /\ AttemptShape(b) /\ AttemptGoesOn(b)
      BY <1>1, <1>5, <2>1 DEF LifeInv
    <3>2. CASE b # a
      <4>1. attempts[b].plan.p \in PNodes
        BY <1>1, <3>1 DEF KernelTypeOK, AttemptRecord, Plan
      <4>2. \A f \in queue : f.attempt = b => f \in queue'
        BY <1>0, <1>8, <3>2
      <4>3. QED
        BY <1>1, <1>3, <1>5, <3>1, <3>2, <4>1, <4>2, KeepsAttempt
    <3>3. CASE b = a
      <4>1. Has(a, DecodeKinds)'
        BY <1>5, <1>8 DEF Has, DecodeKinds
      <4>2. attempts'[a].decodeStart <= now' /\ attempts'[a].decodeStart # None
        BY <1>1, <1>4, <1>5 DEF AttemptRecord, None
      <4>3. AttemptShape(b)'
        BY <1>0, <1>1, <1>3, <1>4, <1>5, <1>6, <3>3, <4>2 DEF AttemptShape
      <4>4. AttemptGoesOn(b)'
        BY <1>0, <1>4, <1>5, <1>6, <3>3, <4>1 DEF AttemptGoesOn
      <4>5. QED
        BY <4>3, <4>4
    <3>4. QED
      BY <3>2, <3>3
  <2>2. ASSUME NEW f \in queue' PROVE EventFits(f)'
    <3>1. CASE f \in queue /\ f # e /\ f.attempt # a
      <4>1. EventFits(f) /\ now' <= f.at
        BY <1>1, <3>1 DEF LifeInv
      <4>2. CASE f.kind = "ARRIVAL"
        BY <1>5, <3>1, <4>1, <4>2, KeepsArrival
      <4>3. CASE f.kind # "ARRIVAL"
        <5>1. f.attempt \in DOMAIN attempts
          BY <4>1, <4>3 DEF EventFits
        <5>2. Has(f.attempt, {"DECODE_START"})' => Has(f.attempt, {"DECODE_START"})
          BY <1>5, <1>7, <1>8 DEF Has
        <5>3. f.kind = "PREFILL_START" =>
                  \A w \in waiting'[attempts[f.attempt].plan.p] : w.attempt # f.attempt
          BY <1>3, <4>1 DEF EventFits, WaitingFor
        <5>4. QED
          BY <1>1, <1>3, <1>5, <3>1, <4>1, <4>3, <5>1, <5>2, <5>3, KeepsEvent
      <4>4. QED
        BY <4>2, <4>3
    <3>2. CASE f \in queue /\ f # e /\ f.attempt = a
      <4>1. f.kind = "DECODE_START" /\ now' <= f.at
        BY <1>1, <1>4, <3>2
      <4>2. QED
        BY <1>0, <1>4, <1>5, <1>6, <3>2, <4>1 DEF EventFits
    <3>3. CASE f \in wakes
      <4>1. f.kind = "DECODE_START" /\ f.at = now' /\ f.attempt \in woken
        BY <1>5, <3>3
      <4>2. QED
        BY <1>1, <1>5, <1>6, <1>7, <4>1 DEF EventFits
    <3>4. CASE f = ends
      BY <1>0, <1>3, <1>4, <1>5, <3>4 DEF EventFits
    <3>5. QED
      BY <1>8, <3>1, <3>2, <3>3, <3>4
  <2>3. OneNextEvent'
    <3>1. SUFFICES ASSUME NEW f \in queue', NEW g \in queue', f.attempt = g.attempt,
                          f.kind \in NextKinds, g.kind \in NextKinds
                   PROVE  f = g
      BY DEF OneNextEvent
    <3>2. \A x \in queue' : x.kind \in NextKinds => (x \in queue /\ x.attempt # a) \/ x = ends
      BY <1>4, <1>5, <1>8 DEF NextKinds
    <3>3. QED
      BY <1>1, <1>5, <3>1, <3>2 DEF LifeInv, OneNextEvent
  <2>4. OneAttemptAtATime'
    <3>1. SUFFICES ASSUME NEW b \in DOMAIN attempts, NEW c \in DOMAIN attempts,
                          b[1] = c[1], b[2] < c[2]
                   PROVE  b \in done /\ attempts'[b].terminal # "COMPLETED"
      BY <1>3, <1>5 DEF OneAttemptAtATime
    <3>2. b \in done /\ attempts[b].terminal # "COMPLETED"
      BY <1>1, <3>1 DEF LifeInv, OneAttemptAtATime
    <3>3. QED
      BY <1>4, <1>5, <3>2
  <2>5. QED
    BY <2>1, <2>2, <2>3, <2>4 DEF LifeInv
<1>10. NoPrefillMoves
  <2>1. \A f : f.kind \in PrefillKinds => (f \in queue' <=> f \in queue)
    BY <1>1, <1>5 DEF PrefillKinds
  <2>2. QED
    BY <1>1, <1>3, <1>5, <1>6, <2>1 DEF NoPrefillMoves
<1>11. NodeInv' /\ OrderInv' /\ QueueProxyExact'
  BY <1>3, <1>10, KeepsNodeInv, KeepsOrderInv, KeepsQueued, KeepsProxy DEF KernelInv
<1>12. DoneKept
  BY <1>3, <1>4, <1>5 DEF DoneKept, KernelInv, KernelTypeOK
<1>13. CacheInv' /\ HitsComeFromPublishedWork'
  BY <1>3, <1>5, <1>6, <1>12, KeepsCacheInv, KeepsHits DEF KernelInv
<1>14. \A b \in DOMAIN attempts : /\ attempts[b].plan.d \in DNodes
                                 /\ attempts[b].finish \in Int /\ attempts[b].decodeStart \in Int
                                 /\ attempts[b].decodeStart <= now
                                 /\ (Started(b)' <=> Started(b))
  BY <1>1, <1>6 DEF KernelTypeOK, LifeInv, AttemptShape, AttemptRecord, Plan, None, Started
<1>15. dAvailable \in [DNodes -> Nat] /\ t.decodeStart \in Int /\ t.finish \in Int /\ finish \in Int
  BY <1>1, <1>4, <1>5 DEF KernelTypeOK, AttemptRecord, None
<1>16. ASSUME NEW b \in DOMAIN attempts, b # a, Started(b), attempts[b].plan.d = d
       PROVE  \/ attempts[b].finish <= t.decodeStart
              \/ ~aborts /\ t.finish <= attempts[b].decodeStart
  <2>1. Started(a) /\ attempts[a].plan.d = d
    BY <1>0, <1>4 DEF Started
  <2>2. attempts[b].finish <= t.decodeStart \/ t.finish <= attempts[b].decodeStart
    BY <1>0, <1>4, <1>16, <2>1 DEF KernelInv, DecodeInv, DecodesNeverOverlap
  <2>3. attempts[b].decodeStart < t.finish
    BY <1>1, <1>4, <1>14, <1>15
  <2>4. QED
    BY <1>14, <1>15, <2>2, <2>3
<1>17. DecodeInv'
  <2>1. DecodesNeverOverlap'
    <3>1. SUFFICES ASSUME NEW b \in DOMAIN attempts, NEW c \in DOMAIN attempts, b # c,
                          Started(b), Started(c), attempts[b].plan.d = attempts[c].plan.d
                   PROVE  \/ attempts'[b].finish <= attempts[c].decodeStart
                          \/ attempts'[c].finish <= attempts[b].decodeStart
      BY <1>5, <1>6, <1>14 DEF DecodesNeverOverlap
    <3>2. \/ attempts[b].finish <= attempts[c].decodeStart
          \/ attempts[c].finish <= attempts[b].decodeStart
      BY <3>1 DEF KernelInv, DecodeInv, DecodesNeverOverlap
    <3>3. attempts'[b].finish <= attempts[b].finish /\ attempts'[c].finish <= attempts[c].finish
      BY <1>0, <1>5, <1>6, <1>14
    <3>4. attempts'[b].finish \in Int /\ attempts'[c].finish \in Int
      BY <1>5, <1>6, <1>14, <1>15
    <3>5. QED
      BY <1>14, <3>2, <3>3, <3>4
  <2>2. ASSUME NEW b \in DOMAIN attempts, Started(b)
        PROVE  attempts'[b].finish <= dAvailable'[attempts[b].plan.d]
    <3>1. attempts[b].finish <= dAvailable[attempts[b].plan.d]
      BY <2>2 DEF KernelInv, DecodeInv
    <3>2. CASE aborts
      <4>1. finish = now' /\ dAvailable' = [dAvailable EXCEPT ![d] = now']
        BY <1>0, <1>2, <3>2 DEF Repriced
      <4>2. CASE attempts[b].plan.d # d
        BY <1>0, <1>6, <1>14, <1>15, <3>1, <4>1, <4>2
      <4>3. CASE b = a
        BY <1>0, <1>1, <1>4, <1>5, <1>15, <4>1, <4>3
      <4>4. CASE b # a /\ attempts[b].plan.d = d
        BY <1>1, <1>4, <1>6, <1>14, <1>15, <1>16, <2>2, <3>2, <4>1, <4>4
      <4>5. QED
        BY <4>2, <4>3, <4>4
    <3>3. CASE ~aborts
      BY <1>2, <3>1, <3>3 DEF Repriced
    <3>4. QED
      BY <3>2, <3>3
  <2>3. QED
    BY <1>5, <1>6, <1>14, <2>1, <2>2 DEF DecodeInv
<1>18. SleepInv'
  <2>1. SUFFICES ASSUME NEW b \in DOMAIN attempts, ~Started(b), Has(b, {"DECODE_START"})'
                 PROVE  \E f \in queue' :
                          /\ f.attempt = b /\ f.kind = "DECODE_START"
                          /\ \/ f.at <= now'
                             \/ f.at <= dAvailable'[attempts[b].plan.d]
                             \/ f.at <= attempts[b].fence
    BY <1>5, <1>6, <1>14 DEF SleepInv
  <2>2. Has(b, {"DECODE_START"}) /\ b # a
    BY <1>0, <1>4, <1>5, <1>7, <1>8, <2>1 DEF Has, Started
  <2>3. PICK f \in queue :
               /\ f.attempt = b /\ f.kind = "DECODE_START"
               /\ \/ f.at <= now
                  \/ f.at <= dAvailable[attempts[b].plan.d]
                  \/ f.at <= attempts[b].fence
    BY <2>1, <2>2 DEF KernelInv, SleepInv
  <2>4. f \in queue' /\ f.at \in Nat
    BY <1>0, <1>1, <1>8, <2>2, <2>3 DEF KernelTypeOK
  <2>5. CASE b \in woken
    <3>1. PICK g \in wakes : g.attempt = b
      BY <1>5, <2>5
    <3>2. QED
      BY <1>1, <1>5, <1>8, <3>1
  <2>6. CASE b \notin woken
    <3>1. CASE aborts /\ attempts[b].plan.d = d
      <4>1. ~(f.at > now')
        BY <1>0, <1>2, <2>1, <2>3, <2>6, <3>1 DEF Repriced, GatedOn, Started
      <4>2. QED
        BY <1>1, <2>3, <2>4, <4>1
    <3>2. CASE ~(aborts /\ attempts[b].plan.d = d)
      <4>1. dAvailable'[attempts[b].plan.d] = dAvailable[attempts[b].plan.d]
        BY <1>0, <1>2, <1>14, <1>15, <3>2 DEF Repriced
      <4>2. f.at <= now => f.at <= now'
        BY <1>1, <2>4
      <4>3. QED
        BY <2>3, <2>4, <4>1, <4>2
    <3>3. QED
      BY <3>1, <3>2
  <2>7. QED
    BY <2>5, <2>6
<1>19. KernelTypeOK'
  <2>1. queue' \subseteq [kind: Kinds, at: Nat, seq: Nat, attempt: AttemptKey]
    <3>1. finish \in Nat
      BY <1>1, <1>5, <1>15
    <3>2. ends \in [kind: Kinds, at: Nat, seq: Nat, attempt: AttemptKey]
      BY <1>2, <1>4, <3>1 DEF Repriced, Kinds
    <3>3. \A f \in wakes : f \in [kind: Kinds, at: Nat, seq: Nat, attempt: AttemptKey]
      BY <1>1, <1>2, <1>7 DEF Repriced, Kinds
    <3>4. QED
      BY <1>1, <1>8, <3>2, <3>3 DEF KernelTypeOK
  <2>2. \A b \in DOMAIN attempts' : attempts'[b] \in AttemptRecord
    BY <1>1, <1>5 DEF KernelTypeOK
  <2>3. dAvailable' \in [DNodes -> Nat]
    BY <1>1, <1>2, <1>15 DEF Repriced
  <2>4. AttemptKey' = AttemptKey
    BY <1>3 DEF AttemptKey
  <2>5. QED
    BY <1>1, <1>3, <1>5, <2>1, <2>2, <2>3, <2>4 DEF KernelTypeOK
<1>20. QED
  BY <1>9, <1>11, <1>13, <1>17, <1>18, <1>19 DEF KernelInv
-----------------------------------------------------------------------------
(* An event that may issue an attempt: an arrival, or a completion whose    *)
(* policy retries.                                                          *)

Proposals == {<<>>} \cup {<<plan>> : plan \in Plan}

Issues(e, a, plans) ==
    IF plans = <<>> THEN queue' = queue \ {e} /\ UNCHANGED <<attempts, serial>>
                    ELSE Issue(a, plans[1], queue \ {e})

\* What is new: attempts that have not run, and the events that make them ready.
Issued(a, e, plans, fresh, readies) ==
    /\ DOMAIN attempts' = DOMAIN attempts \cup fresh
    /\ \A b \in DOMAIN attempts : attempts'[b] = attempts[b]
    /\ fresh # {} => a \notin DOMAIN attempts /\ plans # <<>>
    /\ \A b \in fresh :
          /\ attempts'[b] \in AttemptRecord
          /\ attempts'[b].ready = None /\ attempts'[b].prefillStart = None
          /\ attempts'[b].prefillFinish = None /\ attempts'[b].decodeStart = None
    /\ queue' = (queue \ {e}) \cup readies
    /\ readies \subseteq [kind: {"ATTEMPT_READY"}, at: Nat, seq: Nat, attempt: fresh]
    /\ \A f \in readies : now' <= f.at
    /\ \A b \in fresh : \E f \in readies : f.attempt = b
    /\ \A f, g \in readies : f = g
    /\ serial' \in Nat /\ serial <= serial'

LEMMA IssuesOnce ==
    ASSUME KernelTypeOK, NEW e, NEW a \in AttemptKey, NEW plans \in Proposals, now' \in Nat,
           \A i \in DOMAIN plans : plans[i].missing <= workload[a[1]].output,
           Issues(e, a, plans)
    PROVE  \E fresh, readies : fresh \subseteq {a} /\ Issued(a, e, plans, fresh, readies)
<1>1. serial \in Nat
  BY DEF KernelTypeOK
<1>2. CASE plans = <<>>
  <2>1. queue' = (queue \ {e}) \cup {} /\ UNCHANGED <<attempts, serial>>
    BY <1>2 DEF Issues
  <2>2. Issued(a, e, plans, {}, {})
    BY <1>1, <2>1 DEF Issued
  <2>3. QED
    BY <1>2, <2>2
<1>3. CASE plans # <<>>
  <2>1. PICK plan \in Plan : plans = <<plan>>
    BY <1>3 DEF Proposals
  <2>2. plans[1] = plan /\ plan.missing <= workload[a[1]].output
    BY <2>1
  <2>3. PICK nx, new : /\ nx = Event("ATTEMPT_READY", now' + plan.delay, serial, a)
                       /\ new = Attempt(a, plan)
    OBVIOUS
  <2>4. /\ a \notin DOMAIN attempts
        /\ attempts' = [b \in DOMAIN attempts \cup {a} |-> IF b = a THEN new ELSE attempts[b]]
        /\ queue' = (queue \ {e}) \cup {nx}
        /\ serial' = serial + 1
    BY <1>3, <2>2, <2>3 DEF Issues, Issue
  <2>5. nx \in [kind: {"ATTEMPT_READY"}, at: Nat, seq: Nat, attempt: {a}] /\ now' <= nx.at
    BY <1>1, <2>3 DEF Event, Plan
  <2>6. /\ new \in AttemptRecord
        /\ new.ready = None /\ new.prefillStart = None
        /\ new.prefillFinish = None /\ new.decodeStart = None
    <3>1. workload[a[1]].output \in Nat
      BY RequestOf DEF KernelTypeOK, Request
    <3>2. PICK out : out = workload[a[1]].output - plan.missing
      OBVIOUS
    <3>3. out \in Nat
      BY <2>2, <3>1, <3>2 DEF Plan
    <3>4. new = [plan |-> plan, emitted |-> out,
                 terminal |-> IF plan.fails THEN "FAILED" ELSE "COMPLETED",
                 ready |-> None, prefillStart |-> None, prefillFinish |-> None,
                 prefillWork |-> 0, kvsWork |-> 0, decodeStart |-> None, finish |-> None,
                 fence |-> None]
      BY <2>3, <3>2 DEF Attempt
    <3>5. QED
      BY <3>3, <3>4 DEF AttemptRecord
  <2>7. Issued(a, e, plans, {a}, {nx})
    BY <1>1, <1>3, <2>4, <2>5, <2>6 DEF Issued
  <2>8. QED
    BY <1>3, <2>7
<1>4. QED
  BY <1>2, <1>3

\* All but the caches is kept by an event that issues at most one attempt, as
\* long as that one comes after all others of its request.
LEMMA IssueKeepsRest ==
    ASSUME KernelInv, NEW e \in queue, e.kind \in {"ARRIVAL", "COMPLETION"},
           e.at = now', now' \in 0..End, now <= now', \A f \in queue : now' <= f.at,
           NEW a \in AttemptKey, NEW plans, NEW fresh, NEW readies, fresh \subseteq {a},
           Issued(a, e, plans, fresh, readies),
           fresh # {} => \A b \in DOMAIN attempts : b[1] = a[1] =>
               b[2] < a[2] /\ b \in done' /\ attempts[b].terminal # "COMPLETED",
           fresh # {} => \A f \in queue : f.kind = "ARRIVAL" /\ f # e => f.attempt[1] # a[1],
           done' = IF e.kind = "COMPLETION" THEN done \cup {e.attempt} ELSE done,
           UNCHANGED <<workload, busy, waiting, queuedWork, dAvailable>>,
           cache' \in [PNodes -> SUBSET Key],
           \A p \in PNodes : Cardinality(cache'[p]) <= CacheEntries
    PROVE  /\ KernelTypeOK' /\ LifeInv' /\ NodeInv' /\ OrderInv' /\ DecodeInv' /\ SleepInv'
           /\ HitsComeFromPublishedWork' /\ QueueProxyExact'
           /\ DoneKept
<1>0. /\ now \in Nat /\ now' \in Nat /\ serial \in Nat /\ KernelTypeOK /\ LifeInv
  BY KernelAssumption DEF KernelInv, KernelTypeOK
<1>1. /\ DOMAIN attempts' = DOMAIN attempts \cup fresh
      /\ \A b \in DOMAIN attempts : attempts'[b] = attempts[b]
      /\ \A b \in fresh : /\ b = a /\ b \notin DOMAIN attempts
                          /\ attempts'[b] \in AttemptRecord
                          /\ attempts'[b].ready = None /\ attempts'[b].prefillStart = None
                          /\ attempts'[b].prefillFinish = None /\ attempts'[b].decodeStart = None
      /\ \A f \in readies : /\ f.kind = "ATTEMPT_READY" /\ f.attempt \in fresh /\ now' <= f.at
                            /\ f \in [kind: Kinds, at: Nat, seq: Nat, attempt: AttemptKey]
      /\ \A b \in fresh : \E f \in readies : f.attempt = b
      /\ \A f, g \in readies : f = g
      /\ serial' \in Nat /\ serial <= serial'
  BY DEF Issued, Kinds
<1>2. /\ \A f \in queue' : (f \in queue /\ f # e) \/ f \in readies
      /\ \A f \in queue : f \in queue' \/ f = e
      /\ \A f \in readies : f \in queue'
      /\ e \notin queue'
  BY <1>1 DEF Issued
<1>3. /\ e.kind = "COMPLETION" =>
            /\ e.attempt \in DOMAIN attempts /\ attempts[e.attempt].decodeStart # None
            /\ attempts[e.attempt].finish = now' /\ e.attempt \notin done
      /\ e.kind = "ARRIVAL" => e.attempt \notin DOMAIN attempts
  BY <1>0 DEF LifeInv, EventFits
<1>4. \A f \in queue : f # e /\ f.attempt = e.attempt => f.kind = "DECODE_START"
  <2>1. SUFFICES ASSUME NEW f \in queue, f # e, f.attempt = e.attempt, f.kind # "DECODE_START"
                 PROVE  FALSE
    OBVIOUS
  <2>2. f.kind \in NextKinds /\ e.kind \in NextKinds
    BY <1>0, <2>1 DEF KernelTypeOK, NextKinds, Kinds
  <2>3. QED
    BY <1>0, <2>1, <2>2 DEF LifeInv, OneNextEvent
<1>5. KernelTypeOK'
  <2>1. queue' \subseteq [kind: Kinds, at: Nat, seq: Nat, attempt: AttemptKey]
    BY <1>0, <1>1, <1>2 DEF KernelTypeOK
  <2>2. \A b \in DOMAIN attempts' : attempts'[b] \in AttemptRecord
    BY <1>0, <1>1 DEF KernelTypeOK
  <2>3. DOMAIN attempts' \subseteq AttemptKey /\ done' \subseteq DOMAIN attempts'
    BY <1>0, <1>1, <1>3 DEF KernelTypeOK
  <2>4. AttemptKey' = AttemptKey
    BY DEF AttemptKey
  <2>5. QED
    BY <1>0, <1>1, <2>1, <2>2, <2>3, <2>4 DEF KernelTypeOK
<1>6. LifeInv'
  <2>1. ASSUME NEW b \in DOMAIN attempts' PROVE AttemptShape(b)' /\ AttemptGoesOn(b)'
    <3>1. CASE b \in DOMAIN attempts /\ b # e.attempt
      <4>1. AttemptShape(b) /\ AttemptGoesOn(b) /\ attempts[b].plan.p \in PNodes
        BY <1>0, <3>1 DEF LifeInv, KernelTypeOK, AttemptRecord, Plan
      <4>2. \A f \in queue : f.attempt = b => f \in queue'
        BY <1>2, <3>1
      <4>3. b \in done' <=> b \in done
        BY <3>1
      <4>4. QED
        BY <1>0, <1>1, <3>1, <4>1, <4>2, <4>3, KeepsAttempt
    <3>2. CASE b \in DOMAIN attempts /\ b = e.attempt
      <4>1. /\ e.kind = "COMPLETION" /\ attempts[b].decodeStart # None
            /\ attempts[b].finish = now' /\ AttemptShape(b) /\ attempts[b] \in AttemptRecord
            /\ attempts'[b] = attempts[b] /\ b \in done'
        BY <1>0, <1>1, <1>3, <3>2 DEF LifeInv, KernelTypeOK
      <4>2. attempts[b].prefillStart # None /\ attempts[b].ready # None
        BY <4>1 DEF AttemptShape
      <4>3. \A f \in queue : f.attempt = b /\ f # e => f \in queue'
        BY <1>2
      <4>4. Has(b, {"PREFILL_FINISH"}) => Has(b, {"PREFILL_FINISH"})'
        BY <4>1, <4>3 DEF Has
      <4>5. AttemptShape(b)'
        BY <1>0, <4>1, <4>2, <4>4 DEF AttemptShape, AttemptRecord, None
      <4>6. AttemptGoesOn(b)'
        BY <4>1, <4>2 DEF AttemptGoesOn
      <4>7. QED
        BY <4>5, <4>6
    <3>3. CASE b \in fresh
      <4>1. Has(b, {"ATTEMPT_READY"})'
        <5>1. PICK f \in readies : f.attempt = b
          BY <1>1, <3>3
        <5>2. QED
          BY <1>1, <1>2, <5>1 DEF Has
      <4>2. b \notin done'
        BY <1>0, <1>1, <1>3, <3>3 DEF KernelTypeOK
      <4>3. AttemptShape(b)'
        BY <1>0, <1>1, <3>3, <4>2 DEF AttemptShape, None
      <4>4. AttemptGoesOn(b)'
        BY <1>1, <3>3, <4>1 DEF AttemptGoesOn
      <4>5. QED
        BY <4>3, <4>4
    <3>4. QED
      BY <1>1, <3>1, <3>2, <3>3
  <2>2. ASSUME NEW f \in queue' PROVE EventFits(f)'
    <3>1. CASE f \in queue /\ f # e /\ f.kind = "ARRIVAL"
      <4>1. EventFits(f) /\ now' <= f.at
        BY <1>0, <3>1 DEF LifeInv
      <4>2. \A b \in DOMAIN attempts' : b \in DOMAIN attempts \/ b[1] # f.attempt[1]
        BY <1>1, <3>1
      <4>3. QED
        BY <3>1, <4>1, <4>2, KeepsArrival
    <3>2. CASE f \in queue /\ f # e /\ f.kind # "ARRIVAL"
      <4>1. EventFits(f) /\ now' <= f.at /\ f.attempt \in DOMAIN attempts
        BY <1>0, <3>2 DEF LifeInv, EventFits
      <4>2. Has(f.attempt, {"DECODE_START"})' => Has(f.attempt, {"DECODE_START"})
        BY <1>1, <1>2 DEF Has
      <4>3. f.kind = "PREFILL_START" =>
                \A w \in waiting'[attempts[f.attempt].plan.p] : w.attempt # f.attempt
        BY <4>1 DEF EventFits, WaitingFor
      <4>4. CASE f.attempt # e.attempt
        <5>1. f.attempt \in done' => f.attempt \in done
          BY <4>4
        <5>2. f.attempt \in DOMAIN attempts' /\ attempts'[f.attempt] = attempts[f.attempt]
          BY <1>1, <4>1
        <5>3. QED
          BY <1>0, <3>2, <4>1, <4>2, <4>3, <5>1, <5>2, KeepsEvent
      <4>5. CASE f.attempt = e.attempt
        <5>1. f.kind = "DECODE_START"
          BY <1>4, <3>2, <4>5
        <5>2. /\ attempts[f.attempt].prefillStart # None /\ attempts[f.attempt].prefillFinish <= now
              /\ attempts[f.attempt].prefillFinish \in Int
          BY <1>0, <4>1, <5>1 DEF EventFits, KernelTypeOK, AttemptRecord, None
        <5>3. QED
          BY <1>0, <1>1, <4>1, <5>1, <5>2 DEF EventFits
      <4>6. QED
        BY <4>4, <4>5
    <3>3. CASE f \in readies
      BY <1>1, <3>3 DEF EventFits
    <3>4. QED
      BY <1>2, <3>1, <3>2, <3>3
  <2>3. OneNextEvent'
    <3>1. SUFFICES ASSUME NEW f \in queue', NEW g \in queue', f.attempt = g.attempt,
                          f.kind \in NextKinds, g.kind \in NextKinds
                   PROVE  f = g
      BY DEF OneNextEvent
    <3>2. \A x \in queue, y \in readies : x # e => x.attempt # y.attempt
      <4>1. SUFFICES ASSUME NEW x \in queue, NEW y \in readies, x # e PROVE x.attempt # y.attempt
        OBVIOUS
      <4>2. y.attempt = a /\ a \notin DOMAIN attempts /\ fresh # {}
        BY <1>1
      <4>3. x.kind # "ARRIVAL" => x.attempt \in DOMAIN attempts
        BY <1>0 DEF LifeInv, EventFits
      <4>4. QED
        BY <4>1, <4>2, <4>3
    <3>3. QED
      BY <1>0, <1>1, <1>2, <3>1, <3>2 DEF LifeInv, OneNextEvent
  <2>4. OneAttemptAtATime'
    <3>1. SUFFICES ASSUME NEW b \in DOMAIN attempts', NEW c \in DOMAIN attempts',
                          b[1] = c[1], b[2] < c[2]
                   PROVE  b \in done' /\ attempts'[b].terminal # "COMPLETED"
      BY DEF OneAttemptAtATime
    <3>2. CASE b \in DOMAIN attempts /\ c \in DOMAIN attempts
      BY <1>0, <1>1, <3>1, <3>2 DEF LifeInv, OneAttemptAtATime
    <3>3. CASE b \in DOMAIN attempts /\ c \in fresh
      BY <1>1, <3>1, <3>3
    <3>4. CASE b \in fresh
      <4>1. b = a /\ c \in AttemptKey /\ b[2] \in Int /\ c[2] \in Int
        BY <1>0, <1>1, <3>4, SMTT(30) DEF AttemptKey, KernelTypeOK
      <4>2. c \in DOMAIN attempts \/ c = a
        BY <1>1
      <4>3. c # a
        BY <3>1, <4>1
      <4>4. c[2] < a[2]
        BY <3>1, <3>4, <4>1, <4>2, <4>3
      <4>5. QED
        BY <3>1, <4>1, <4>4
    <3>5. QED
      BY <1>1, <3>2, <3>3, <3>4
  <2>5. QED
    BY <2>1, <2>2, <2>3, <2>4 DEF LifeInv
<1>7. NoPrefillMoves
  <2>1. \A f : f.kind \in PrefillKinds => (f \in queue' <=> f \in queue)
    BY <1>1, <1>2 DEF PrefillKinds
  <2>2. QED
    BY <1>0, <1>1, <2>1 DEF NoPrefillMoves
<1>8. NoDecodeMoves
  BY <1>1 DEF NoDecodeMoves, Kept
<1>9. DoneKept
  BY <1>0, <1>1 DEF DoneKept, KernelTypeOK
<1>10. NodeInv' /\ OrderInv' /\ QueueProxyExact'
  BY <1>7, KeepsNodeInv, KeepsOrderInv, KeepsQueued, KeepsProxy DEF KernelInv
<1>11. SleepInv'
  <2>1. \A f : f.kind = "DECODE_START" => (f \in queue' <=> f \in queue)
    BY <1>1, <1>2
  <2>2. \A f \in queue : f.kind = "DECODE_START" => f.attempt \in DOMAIN attempts
    BY <1>0 DEF LifeInv, EventFits
  <2>3. QED
    BY <1>0, <1>1, <1>8, <2>1, <2>2, KeepsSleepInv DEF KernelInv
<1>12. DecodeInv'
  BY <1>8, KeepsDecodeInv DEF KernelInv
<1>13. HitsComeFromPublishedWork'
  BY <1>1, <1>9, KeepsHits DEF KernelInv
<1>14. QED
  BY <1>5, <1>6, <1>9, <1>10, <1>11, <1>12, <1>13
\* A request arrives.
LEMMA ArrivalKeepsInv ==
    ASSUME KernelInv, NEW e \in queue, NEW plans \in Proposals,
           \A i \in DOMAIN plans : plans[i].missing <= workload[e.attempt[1]].output,
           Arrival(e, plans)
    PROVE  KernelInv'
<1>0. PICK a : a = e.attempt
  OBVIOUS
<1>1. /\ now' = e.at /\ now' \in 0..End /\ now <= now' /\ e.kind = "ARRIVAL"
      /\ \A f \in queue : now' <= f.at
      /\ now' \in Nat /\ KernelTypeOK /\ LifeInv
  BY PopsForward, KernelAssumption DEF KernelInv, Arrival
<1>2. /\ UNCHANGED <<workload, cache, busy, waiting, queuedWork, dAvailable, done>>
      /\ Issues(e, a, plans)
  BY <1>0 DEF Arrival, Issues
<1>3. a \in AttemptKey /\ a[2] = 0 /\ \A b \in DOMAIN attempts : b[1] # a[1]
  BY <1>0, <1>1 DEF KernelTypeOK, LifeInv, EventFits
<1>4. PICK fresh, readies : fresh \subseteq {a} /\ Issued(a, e, plans, fresh, readies)
  BY <1>0, <1>1, <1>2, <1>3, IssuesOnce
<1>5. ASSUME NEW f \in queue, f.kind = "ARRIVAL", f # e PROVE f.attempt[1] # a[1]
  <2>1. f.attempt # a
    BY <1>0, <1>1, <1>5 DEF LifeInv, OneNextEvent, NextKinds, Kinds
  <2>2. f.attempt \in AttemptKey /\ f.attempt[2] = 0
    BY <1>1, <1>5 DEF KernelTypeOK, LifeInv, EventFits
  <2>3. QED
    BY <1>3, <2>1, <2>2 DEF AttemptKey
<1>6. cache' \in [PNodes -> SUBSET Key] /\ \A p \in PNodes : Cardinality(cache'[p]) <= CacheEntries
  BY <1>1, <1>2 DEF KernelTypeOK
<1>7. /\ fresh # {} => \A b \in DOMAIN attempts : b[1] = a[1] =>
               b[2] < a[2] /\ b \in done' /\ attempts[b].terminal # "COMPLETED"
      /\ fresh # {} => \A f \in queue : f.kind = "ARRIVAL" /\ f # e => f.attempt[1] # a[1]
      /\ done' = IF e.kind = "COMPLETION" THEN done \cup {e.attempt} ELSE done
      /\ e.kind \in {"ARRIVAL", "COMPLETION"}
  BY <1>1, <1>2, <1>3, <1>5
<1>8. /\ KernelTypeOK' /\ LifeInv' /\ NodeInv' /\ OrderInv' /\ DecodeInv' /\ SleepInv'
      /\ HitsComeFromPublishedWork' /\ QueueProxyExact' /\ DoneKept
  BY <1>1, <1>2, <1>3, <1>4, <1>6, <1>7, IssueKeepsRest
<1>9. CacheInv'
  BY <1>2, <1>8, KeepsCacheInv DEF KernelInv
<1>10. QED
  BY <1>8, <1>9 DEF KernelInv

\* An attempt completes: what it leaves in the cache of its node was its own.
LEMMA CompletionKeepsInv ==
    ASSUME KernelInv, NEW e \in queue, NEW admit \in BOOLEAN, NEW evict, NEW plans \in Proposals,
           \A i \in DOMAIN plans : plans[i].missing <= workload[e.attempt[1]].output,
           Completion(e, admit, evict, plans)
    PROVE  KernelInv'
<1>0. PICK a, p : a = e.attempt /\ p = attempts[a].plan.p
  OBVIOUS
<1>1. /\ now' = e.at /\ now' \in 0..End /\ now <= now' /\ e.kind = "COMPLETION"
      /\ \A f \in queue : now' <= f.at
      /\ now' \in Nat /\ KernelTypeOK /\ LifeInv
  BY PopsForward, KernelAssumption DEF KernelInv, Completion
<1>2. a \in DOMAIN attempts /\ a \in AttemptKey /\ a \notin done /\ p \in PNodes
  BY <1>0, <1>1 DEF KernelTypeOK, LifeInv, EventFits, AttemptRecord, Plan
<1>3. PICK new : new = IF plans = <<>> THEN a ELSE <<a[1], a[2] + 1>>
  OBVIOUS
<1>4. /\ UNCHANGED <<workload, busy, waiting, queuedWork, dAvailable>>
      /\ done' = done \cup {a}
      /\ Issues(e, new, plans)
      /\ plans # <<>> => Retries(a) /\ a[2] < RetryBudget
      /\ IF Publishes(a)
         THEN Accepts(a, admit, evict) /\ cache' = [cache EXCEPT ![p] = Mutated(a, admit, evict)]
         ELSE cache' = cache
  BY <1>0, <1>3 DEF Completion, Issues
<1>5. new \in AttemptKey /\ new[1] = a[1] /\ (plans # <<>> => new[2] = a[2] + 1)
  BY <1>2, <1>3, <1>4, KernelAssumption DEF AttemptKey
<1>6. PICK fresh, readies : fresh \subseteq {new} /\ Issued(new, e, plans, fresh, readies)
  <2>1. \A i \in DOMAIN plans : plans[i].missing <= workload[new[1]].output
    BY <1>0, <1>5
  <2>2. KernelTypeOK /\ now' \in Nat /\ new \in AttemptKey /\ Issues(e, new, plans)
    BY <1>1, <1>4, <1>5
  <2>3. QED
    BY <2>1, <2>2, IssuesOnce
<1>7. ASSUME fresh # {}, NEW b \in DOMAIN attempts, b[1] = new[1]
      PROVE  b[2] < new[2] /\ b \in done' /\ attempts[b].terminal # "COMPLETED"
  <2>1. plans # <<>> /\ Retries(a) /\ new[2] = a[2] + 1
    BY <1>4, <1>5, <1>6, <1>7 DEF Issued
  <2>2. b \in AttemptKey /\ b[2] \in Int /\ a[2] \in Int
    BY <1>1, <1>2 DEF KernelTypeOK, AttemptKey
  <2>3. CASE b = a
    BY <1>4, <2>1, <2>2, <2>3 DEF Retries
  <2>4. CASE b # a
    <3>1. b[2] # a[2]
      BY <1>2, <1>5, <1>7, <2>2, <2>4 DEF AttemptKey
    <3>2. ~(a[2] < b[2])
      BY <1>1, <1>2, <1>5, <1>7 DEF LifeInv, OneAttemptAtATime
    <3>3. b[2] < a[2]
      BY <2>2, <3>1, <3>2
    <3>4. b \in done /\ attempts[b].terminal # "COMPLETED"
      BY <1>1, <1>2, <1>5, <1>7, <3>3 DEF LifeInv, OneAttemptAtATime
    <3>5. QED
      BY <1>4, <2>1, <2>2, <3>3, <3>4
  <2>5. QED
    BY <2>3, <2>4
<1>8. \A f \in queue : f.kind = "ARRIVAL" /\ f # e => f.attempt[1] # new[1]
  BY <1>1, <1>2, <1>5 DEF LifeInv, EventFits
<1>9. ToSet(PrefixOf(a)) \subseteq Key /\ IsFiniteSet(ToSet(PrefixOf(a)))
  BY <1>1, <1>2, RequestOf DEF KernelTypeOK
<1>10. /\ \A q \in PNodes : q # p => cache'[q] = cache[q]
       /\ Publishes(a) =>
            /\ cache'[p] = Mutated(a, admit, evict)
            /\ cache'[p] \subseteq cache[p] \cup ToSet(PrefixOf(a))
            /\ ~admit => cache'[p] \subseteq cache[p]
       /\ ~Publishes(a) => cache' = cache
       /\ DOMAIN cache' = PNodes
  <2>1. cache \in [PNodes -> SUBSET Key]
    BY <1>1 DEF KernelTypeOK
  <2>2. /\ Mutated(a, admit, evict) \subseteq cache[p] \cup ToSet(PrefixOf(a))
        /\ ~admit => Mutated(a, admit, evict) \subseteq cache[p]
    BY <1>0 DEF Mutated
  <2>3. QED
    BY <1>2, <1>4, <2>1, <2>2
<1>11. \A q \in PNodes : cache'[q] \subseteq Key /\ IsFiniteSet(cache'[q])
  <2>1. \A q \in PNodes : cache[q] \subseteq Key /\ IsFiniteSet(cache[q])
    BY <1>1 DEF KernelTypeOK, KernelInv, CacheInv
  <2>2. \A q \in PNodes : cache'[q] = cache[q] \/ (q = p /\ cache'[q] \subseteq cache[q] \cup ToSet(PrefixOf(a)))
    BY <1>10
  <2>3. IsFiniteSet(cache[p] \cup ToSet(PrefixOf(a)))
    BY <1>2, <1>9, <2>1, FS_Union
  <2>4. ASSUME NEW q \in PNodes PROVE cache'[q] \subseteq Key /\ IsFiniteSet(cache'[q])
    <3>1. CASE cache'[q] = cache[q]
      BY <2>1, <3>1
    <3>2. CASE q = p /\ cache'[q] \subseteq cache[q] \cup ToSet(PrefixOf(a))
      BY <1>9, <2>1, <2>3, <3>2, FS_Subset
    <3>3. QED
      BY <2>2, <3>1, <3>2
  <2>5. QED
    BY <2>4
<1>12. \A q \in PNodes : Cardinality(cache'[q]) <= CacheEntries
  <2>1. \A q \in PNodes : Cardinality(cache[q]) <= CacheEntries /\ IsFiniteSet(cache[q])
    BY <1>1 DEF KernelTypeOK, KernelInv, CacheInv
  <2>2. ASSUME Publishes(a) PROVE Cardinality(cache'[p]) <= CacheEntries
    <3>1. CASE admit
      BY <1>4, <1>10, <2>2, <3>1 DEF Accepts
    <3>2. CASE ~admit
      <4>1. cache'[p] \subseteq cache[p]
        BY <1>10, <2>2, <3>2
      <4>2. Cardinality(cache'[p]) <= Cardinality(cache[p])
        BY <1>2, <2>1, <4>1, FS_Subset
      <4>3. Cardinality(cache'[p]) \in Nat /\ Cardinality(cache[p]) \in Nat
        BY <1>2, <1>11, <2>1, FS_CardinalityType
      <4>4. QED
        BY <1>2, <2>1, <4>2, <4>3, KernelAssumption
    <3>3. QED
      BY <3>1, <3>2
  <2>3. QED
    BY <1>2, <1>10, <2>1, <2>2
<1>13. cache' \in [PNodes -> SUBSET Key]
  <2>1. cache' = [q \in PNodes |-> cache'[q]]
    BY <1>1, <1>4 DEF KernelTypeOK
  <2>2. QED
    BY <1>11, <2>1
<1>14. /\ KernelTypeOK' /\ LifeInv' /\ NodeInv' /\ OrderInv' /\ DecodeInv' /\ SleepInv'
       /\ HitsComeFromPublishedWork' /\ QueueProxyExact' /\ DoneKept
  <2>1. /\ done' = IF e.kind = "COMPLETION" THEN done \cup {e.attempt} ELSE done
        /\ e.kind \in {"ARRIVAL", "COMPLETION"}
    BY <1>0, <1>1, <1>4
  <2>2. QED
    BY <1>1, <1>4, <1>5, <1>6, <1>7, <1>8, <1>12, <1>13, <2>1, IssueKeepsRest
<1>15. CacheInv'
  <2>1. ASSUME NEW q \in PNodes, NEW k \in cache'[q]
        PROVE  \E b \in DOMAIN attempts' : Published(b, k)'
    <3>1. CASE k \in cache[q]
      <4>1. PICK b \in DOMAIN attempts : Published(b, k)
        BY <3>1 DEF KernelInv, CacheInv
      <4>2. QED
        BY <1>14, <4>1 DEF DoneKept, Published, PrefixOf
    <3>2. CASE k \notin cache[q]
      <4>1. Publishes(a) /\ k \in ToSet(PrefixOf(a))
        BY <1>10, <2>1, <3>2
      <4>2. attempts'[a] = attempts[a] /\ a \in DOMAIN attempts' /\ a \in done'
        BY <1>2, <1>4, <1>6 DEF Issued
      <4>3. QED
        BY <1>4, <4>1, <4>2 DEF Published, Publishes, PrefixOf
    <3>3. QED
      BY <3>1, <3>2
  <2>2. QED
    BY <1>11, <2>1 DEF CacheInv
<1>16. QED
  BY <1>14, <1>15 DEF KernelInv
-----------------------------------------------------------------------------
(* The invariance of what the kernel knows between two events.              *)

LEMMA InitKernelInv == ASSUME Init PROVE KernelInv
<1>1. /\ workload \in Workloads /\ now = 0 /\ attempts = <<>> /\ done = {}
      /\ queue = {Event("ARRIVAL", workload[r].arrival, r - 1, <<r, 0>>) : r \in DOMAIN workload}
      /\ serial = Len(workload)
      /\ cache = [n \in PNodes |-> {}] /\ busy = [n \in PNodes |-> FALSE]
      /\ waiting = [n \in PNodes |-> {}] /\ queuedWork = [n \in PNodes |-> 0]
      /\ dAvailable = [n \in DNodes |-> 0]
  BY DEF Init
<1>2. workload \in Seq(Request) /\ DOMAIN workload = 1..Len(workload) /\ Len(workload) \in Nat
  BY <1>1, KernelAssumption
<1>3. DOMAIN attempts = {} /\ Pending = {}
  BY <1>1 DEF Pending
<1>4. ASSUME NEW e \in queue
      PROVE  \E r \in 1..Len(workload) :
               /\ e = Event("ARRIVAL", workload[r].arrival, r - 1, <<r, 0>>)
               /\ e.kind = "ARRIVAL" /\ e.attempt = <<r, 0>> /\ now <= e.at
               /\ e \in [kind: Kinds, at: Nat, seq: Nat, attempt: AttemptKey]
  <2>1. PICK r \in 1..Len(workload) : e = Event("ARRIVAL", workload[r].arrival, r - 1, <<r, 0>>)
    BY <1>1, <1>2
  <2>2. workload[r].arrival \in Nat
    <3>1. workload[r] \in Request
      BY <1>2
    <3>2. QED
      BY <3>1 DEF Request
  <2>3. r - 1 \in Nat
    BY <1>2
  <2>4. <<r, 0>> \in AttemptKey
    <3>1. 0 \in 0..RetryBudget
      BY KernelAssumption
    <3>2. QED
      BY <3>1 DEF AttemptKey
  <2>5. PICK t : t = workload[r].arrival
    OBVIOUS
  <2>6. t \in Nat /\ e = [kind |-> "ARRIVAL", at |-> t, seq |-> r - 1, attempt |-> <<r, 0>>]
    BY <2>1, <2>2, <2>5 DEF Event
  <2>7. e \in [kind: Kinds, at: Nat, seq: Nat, attempt: AttemptKey]
    BY <2>3, <2>4, <2>6 DEF Kinds
  <2>8. e.kind = "ARRIVAL" /\ e.attempt = <<r, 0>> /\ now <= e.at
    BY <1>1, <2>6
  <2>9. QED
    BY <2>1, <2>7, <2>8
<1>5. KernelTypeOK
  <2>1. queue \subseteq [kind: Kinds, at: Nat, seq: Nat, attempt: AttemptKey]
    BY <1>4
  <2>2. Cardinality({}) = 0
    BY FS_EmptySet
  <2>3. now \in 0..End
    BY <1>1, KernelAssumption
  <2>4. \A p \in PNodes : Cardinality(cache[p]) <= CacheEntries
    BY <1>1, <2>2, KernelAssumption
  <2>5. serial \in Nat /\ workload \in Workloads
    BY <1>1, <1>2
  <2>6. /\ cache \in [PNodes -> SUBSET Key] /\ busy \in [PNodes -> BOOLEAN]
        /\ waiting \in [PNodes -> SUBSET [at: Nat, seq: Nat, attempt: AttemptKey]]
        /\ queuedWork \in [PNodes -> Nat] /\ dAvailable \in [DNodes -> Nat]
    BY <1>1
  <2>7. QED
    BY <1>1, <1>3, <2>1, <2>3, <2>4, <2>5, <2>6 DEF KernelTypeOK
<1>6. LifeInv
  <2>1. ASSUME NEW e \in queue PROVE EventFits(e)
    <3>1. e.kind = "ARRIVAL" /\ now <= e.at
      BY <1>4
    <3>2. PICK r : e.attempt = <<r, 0>>
      BY <1>4
    <3>3. QED
      BY <1>3, <3>1, <3>2 DEF EventFits
  <2>2. ASSUME NEW e \in queue, NEW f \in queue, e.attempt = f.attempt PROVE e = f
    <3>1. PICK r \in 1..Len(workload) :
             /\ e = Event("ARRIVAL", workload[r].arrival, r - 1, <<r, 0>>)
             /\ e.attempt = <<r, 0>>
      BY <1>4
    <3>2. PICK q \in 1..Len(workload) :
             /\ f = Event("ARRIVAL", workload[q].arrival, q - 1, <<q, 0>>)
             /\ f.attempt = <<q, 0>>
      BY <1>4
    <3>3. r = q
      BY <2>2, <3>1, <3>2
    <3>4. QED
      BY <3>1, <3>2, <3>3
  <2>3. QED
    BY <1>3, <2>1, <2>2 DEF LifeInv, OneAttemptAtATime, OneNextEvent
<1>7. NodeInv
  <2>1. \A e \in queue, p \in PNodes : ~InPrefill(e, p)
    BY <1>4 DEF InPrefill, PrefillKinds
  <2>2. QED
    BY <1>1, <2>1, FS_EmptySet DEF NodeInv, NodeFits
<1>8. OrderInv /\ DecodeInv /\ SleepInv /\ HitsComeFromPublishedWork
  BY <1>3 DEF OrderInv, DecodeInv, DecodesNeverOverlap, SleepInv, HitsComeFromPublishedWork
<1>9. CacheInv
  BY <1>1, FS_EmptySet DEF CacheInv
<1>10. QueueProxyExact
  <2>1. \A p \in PNodes : Queued(p) = {}
    BY <1>3 DEF Queued
  <2>2. \A p \in PNodes : WorkOf(Queued(p)) = 0
    BY <2>1, SumOfNone DEF WorkOf
  <2>3. QED
    BY <1>1, <2>2, ProxyIsWork
<1>11. QED
  BY <1>5, <1>6, <1>7, <1>8, <1>9, <1>10 DEF KernelInv

\* What the plans of a request offer its policy is an attempt or nothing.
LEMMA OffersArePlans ==
    ASSUME KernelTypeOK, NEW e \in queue, NEW plans \in Offers(e.attempt[1])
    PROVE  /\ plans \in Proposals
           /\ \A i \in DOMAIN plans : plans[i].missing <= workload[e.attempt[1]].output
<1>0. PICK r : r = e.attempt[1]
  OBVIOUS
<1>1. r \in DOMAIN workload /\ r \in DOMAIN Plans
  BY <1>0, RequestOf DEF KernelTypeOK
<1>2. CASE plans = <<>>
  BY <1>2 DEF Proposals
<1>3. CASE plans # <<>>
  <2>1. PICK plan \in Plans[r] : plans = <<plan>>
    BY <1>0, <1>3 DEF Offers
  <2>2. Plans[r] \subseteq Plan
    BY <1>1, KernelAssumption
  <2>3. plan.missing <= workload[r].output
    BY <1>1, <2>1, KernelAssumption DEF KernelTypeOK
  <2>4. QED
    BY <1>0, <2>1, <2>2, <2>3 DEF Proposals
<1>4. QED
  BY <1>2, <1>3

\* What the kernel's own policy answers: a lease, and a fence not yet open.
LEMMA AnswersAreTimes ==
    ASSUME KernelInv, NEW e \in queue, e.kind \in {"PREFILL_FINISH", "DECODE_START"}
    PROVE  /\ Max({e.at, attempts[e.attempt].plan.fence}) \in Nat
           /\ Lease(e.attempt) \in Nat \cup {None}
<1>1. attempts[e.attempt].plan.fence \in Nat /\ e.at \in Nat
  <2>1. e.attempt \in DOMAIN attempts
    BY DEF KernelInv, LifeInv, EventFits
  <2>2. QED
    BY <2>1 DEF KernelInv, KernelTypeOK, AttemptRecord, Plan
<1>2. Max({e.at, attempts[e.attempt].plan.fence}) \in Nat
  <2>1. e.at \in Int /\ attempts[e.attempt].plan.fence \in Int
    BY <1>1
  <2>2. Max({e.at, attempts[e.attempt].plan.fence}) \in {e.at, attempts[e.attempt].plan.fence}
    BY <2>1, MaxOfTwo
  <2>3. QED
    BY <1>1, <2>2
<1>3. QED
  BY <1>2, KernelAssumption DEF Lease

LEMMA StepKernelInv == ASSUME KernelInv, [KernelNext]_kernelVars PROVE KernelInv'
<1>1. ASSUME NEW e \in queue, KernelStep(e) PROVE KernelInv'
  <2>1. ASSUME NEW plans \in Offers(e.attempt[1]), Arrival(e, plans) PROVE KernelInv'
    BY <2>1, OffersArePlans, ArrivalKeepsInv DEF KernelInv
  <2>2. CASE AttemptReady(e)
    BY <2>2, ReadyKeepsInv
  <2>3. CASE PrefillStart(e)
    BY <2>3, PrefillStartKeepsInv
  <2>4. ASSUME NEW fence, fence = Max({e.at, attempts[e.attempt].plan.fence}),
               e.kind \in {"PREFILL_FINISH", "DECODE_START"},
               PrefillFinish(e, fence, Lease(e.attempt)) \/ DecodeStart(e, fence, Lease(e.attempt))
        PROVE  KernelInv'
    <3>1. fence \in Nat /\ Lease(e.attempt) \in Nat \cup {None}
      BY <2>4, AnswersAreTimes
    <3>2. CASE PrefillFinish(e, fence, Lease(e.attempt))
      BY <3>1, <3>2, PrefillFinishKeepsInv
    <3>3. CASE DecodeStart(e, fence, Lease(e.attempt))
      BY <3>1, <3>3, DecodeStartKeepsInv
    <3>4. QED
      BY <2>4, <3>2, <3>3
  <2>5. CASE StaleDecodeStart(e)
    BY <2>5, StaleKeepsInv
  <2>6. ASSUME NEW aborts \in BOOLEAN, LeaseBoundary(e, aborts) PROVE KernelInv'
    BY <2>6, LeaseBoundaryKeepsInv
  <2>7. ASSUME NEW admit \in BOOLEAN, NEW evict, NEW plans \in Offers(e.attempt[1]),
               Completion(e, admit, evict, plans)
        PROVE  KernelInv'
    BY <2>7, OffersArePlans, CompletionKeepsInv DEF KernelInv
  <2>8. QED
    BY <1>1, <2>1, <2>2, <2>3, <2>4, <2>5, <2>6, <2>7 DEF KernelStep
<1>2. ASSUME UNCHANGED kernelVars PROVE KernelInv'
  <2>1. UNCHANGED <<workload, now, queue, serial, attempts, cache, busy, waiting,
                    queuedWork, dAvailable, done>>
    BY <1>2 DEF kernelVars
  <2>2. KernelTypeOK'
    BY <2>1 DEF KernelInv, KernelTypeOK, AttemptKey
  <2>3. LifeInv'
    BY <2>1 DEF KernelInv, LifeInv, AttemptShape, AttemptGoesOn, EventFits, OneNextEvent,
                OneAttemptAtATime, Has, WaitingFor
  <2>4. NodeInv'
    BY <2>1 DEF KernelInv, NodeInv, NodeFits, InPrefill
  <2>5. OrderInv'
    BY <2>1 DEF KernelInv, OrderInv, InOrder, Pending, WaitingFor
  <2>6. DecodeInv' /\ SleepInv' /\ CacheInv'
    BY <2>1 DEF KernelInv, DecodeInv, DecodesNeverOverlap, Started, SleepInv, Has, CacheInv,
                Published, PrefixOf
  <2>7. HitsComeFromPublishedWork' /\ QueueProxyExact'
    BY <2>1 DEF KernelInv, HitsComeFromPublishedWork, QueueProxyExact, MaximumPrefillWork, Tokens,
                PrefixOf, Pending
  <2>8. QED
    BY <2>2, <2>3, <2>4, <2>5, <2>6, <2>7 DEF KernelInv
<1>3. QED
  BY <1>1, <1>2 DEF KernelNext

\* Between two events the kernel knows what KernelInv says, whatever the
\* workload, the pools, the plans and the answers of the policy.
THEOREM KernelInvariance == KernelSpec => []KernelInv
<1>1. Init => KernelInv
  BY InitKernelInv
<1>2. KernelInv /\ [KernelNext]_kernelVars => KernelInv'
  BY StepKernelInv
<1>3. QED
  BY <1>1, <1>2, PTL DEF KernelSpec

\* The queue proxy a policy reads is always the work that is ready and has not
\* started (queued_work and _remaining_queue_work).
THEOREM ProxyAlwaysExact == KernelSpec => []QueueProxyExact
<1>1. KernelInv => QueueProxyExact
  BY DEF KernelInv
<1>2. QED
  BY <1>1, KernelInvariance, PTL

\* A prefill is cheap only because of work that had ended and was published
\* when it started (_price_prefill and _apply_cache_mutation).
THEOREM HitsAreEarned == KernelSpec => []HitsComeFromPublishedWork
<1>1. KernelInv => HitsComeFromPublishedWork
  BY DEF KernelInv
<1>2. QED
  BY <1>1, KernelInvariance, PTL

LEMMA WokenInTime == KernelInv => NobodyOversleeps
<1>1. ASSUME KernelInv, NEW a \in DOMAIN attempts, ~Started(a),
             \E e \in EventsOf(a) : e.kind = "DECODE_START"
      PROVE  \E e \in EventsOf(a) :
                e.at <= Max({now, dAvailable[attempts[a].plan.d], attempts[a].fence})
  <2>1. PICK e \in queue :
           /\ e.attempt = a /\ e.kind = "DECODE_START"
           /\ \/ e.at <= now
              \/ e.at <= dAvailable[attempts[a].plan.d]
              \/ e.at <= attempts[a].fence
    BY <1>1 DEF KernelInv, SleepInv, Has, EventsOf
  <2>2. PICK free, fence : free = dAvailable[attempts[a].plan.d] /\ fence = attempts[a].fence
    OBVIOUS
  <2>3. now \in Int /\ e.at \in Int /\ KernelTypeOK
    BY <1>1 DEF KernelInv, KernelTypeOK
  <2>4. free \in Int /\ fence \in Int
    <3>1. attempts[a] \in AttemptRecord /\ dAvailable \in [DNodes -> Nat]
      BY <2>3 DEF KernelTypeOK
    <3>2. attempts[a].plan.d \in DNodes /\ attempts[a].fence \in Nat \cup {None}
      BY <3>1 DEF AttemptRecord, Plan
    <3>3. QED
      BY <2>2, <3>1, <3>2 DEF None
  <2>5. /\ Max({now, free, fence}) \in {now, free, fence}
        /\ now <= Max({now, free, fence}) /\ free <= Max({now, free, fence})
        /\ fence <= Max({now, free, fence})
    BY <2>3, <2>4, MaxOfThree
  <2>6. PICK m : m = Max({now, free, fence})
    OBVIOUS
  <2>7. e.at <= m
    BY <2>1, <2>2, <2>3, <2>4, <2>5, <2>6
  <2>8. e \in EventsOf(a)
    BY <2>1 DEF EventsOf
  <2>9. QED
    BY <2>2, <2>6, <2>7, <2>8
<1>2. KernelInv => NobodyOversleeps
  BY <1>1 DEF NobodyOversleeps
<1>3. QED
  BY <1>2

\* Nobody gated on a decode node sleeps past the time the node is free and the
\* fence is open (the wake-ups of LEASE_BOUNDARY and DECODE_START).
THEOREM GatedAreWoken == KernelSpec => []NobodyOversleeps
  BY WokenInTime, KernelInvariance, PTL

\* The events ahead of an attempt, other than the wake-ups of its decode.
Wakes(a) == {e \in EventsOf(a) : e.kind = "DECODE_START"}

LEMMA FutureOf ==
    ASSUME KernelInv, NEW a \in DOMAIN attempts
    PROVE  LET t     == attempts[a]
               next  == EventsOf(a) \ Wakes(a)
               gated == Wakes(a) # {} /\ ~Started(a)
               lined == a \in WaitingFor(t.plan.p)
           IN  /\ \A e, f \in next : e = f
               /\ a \in done => next = {} /\ ~gated /\ ~lined
               /\ a \notin done => \/ next # {} /\ ~gated /\ ~lined
                                   \/ next = {} /\ gated /\ ~lined
                                   \/ next = {} /\ ~gated /\ lined
<1> DEFINE t     == attempts[a]
           next  == EventsOf(a) \ Wakes(a)
           gated == Wakes(a) # {} /\ ~Started(a)
           lined == a \in WaitingFor(t.plan.p)
<1>1. /\ AttemptShape(a) /\ AttemptGoesOn(a)
      /\ \A e \in queue : EventFits(e)
      /\ OneNextEvent
      /\ KernelTypeOK
  BY DEF KernelInv, LifeInv
<1>2. t \in AttemptRecord /\ t.plan.p \in PNodes
  BY <1>1 DEF KernelTypeOK, AttemptRecord, Plan
<1>3. \A e \in next : /\ e \in queue /\ e.attempt = a /\ e.kind \in NextKinds
                      /\ e.kind # "ARRIVAL"
  <2>1. ASSUME NEW e \in next
        PROVE  e \in queue /\ e.attempt = a /\ e.kind \in NextKinds /\ e.kind # "ARRIVAL"
    <3>1. e \in queue /\ e.attempt = a /\ e.kind # "ARRIVAL" /\ e.kind # "DECODE_START"
      BY <2>1 DEF EventsOf, Wakes
    <3>2. e.kind \in Kinds
      BY <1>1, <3>1 DEF KernelTypeOK
    <3>3. QED
      BY <3>1, <3>2 DEF NextKinds
  <2>2. QED
    BY <2>1
<1>4. \A e \in Wakes(a) : e \in queue /\ e.attempt = a /\ e.kind = "DECODE_START"
  BY DEF EventsOf, Wakes
<1>5. \A e, f \in next : e = f
  BY <1>1, <1>3 DEF OneNextEvent
<1>6. ASSUME NEW kinds, Has(a, kinds), kinds \subseteq NextKinds \ {"ARRIVAL"}
      PROVE  \E e \in next : e.kind \in kinds
  <2>1. PICK e \in queue : e.attempt = a /\ e.kind \in kinds
    BY <1>6 DEF Has
  <2>2. e.kind # "ARRIVAL" /\ e.kind # "DECODE_START"
    BY <1>6, <2>1 DEF NextKinds
  <2>3. QED
    BY <2>1, <2>2 DEF EventsOf, Wakes
<1>7. /\ t.ready = None => t.prefillStart = None
      /\ t.prefillStart = None => t.decodeStart = None
      /\ a \in done => t.decodeStart # None
  BY <1>1 DEF AttemptShape
<1>8. lined => t.ready # None /\ t.prefillStart = None
  <2>1. ASSUME lined PROVE t.ready # None /\ t.prefillStart = None
    <3>1. PICK w \in waiting[t.plan.p] : w.attempt = a
      BY <2>1 DEF WaitingFor
    <3>2. t.ready = w.at /\ t.prefillStart = None
      BY <1>2, <3>1 DEF KernelInv, NodeInv, NodeFits
    <3>3. w.at \in Nat
      BY <1>1, <1>2, <3>1 DEF KernelTypeOK
    <3>4. QED
      BY <3>2, <3>3 DEF None
  <2>2. QED
    BY <2>1
<1>9. ASSUME NEW e \in next
      PROVE  \/ e.kind = "ATTEMPT_READY" /\ t.ready = None
             \/ e.kind = "PREFILL_START" /\ t.ready # None /\ t.prefillStart = None /\ ~lined
             \/ /\ e.kind = "PREFILL_FINISH" /\ t.prefillStart # None /\ t.decodeStart = None
                /\ ~Has(a, {"DECODE_START"})
             \/ e.kind \in DecodeKinds /\ t.decodeStart # None /\ a \notin done
  <2>1. EventFits(e) /\ e.attempt = a
    BY <1>1, <1>3
  <2>2. e.kind \in {"ATTEMPT_READY", "PREFILL_START", "PREFILL_FINISH", "LEASE_BOUNDARY", "COMPLETION"}
    BY <1>3 DEF NextKinds, Kinds
  <2>3. QED
    BY <2>1, <2>2 DEF EventFits, DecodeKinds
<1>10. Wakes(a) # {} => t.prefillStart # None /\ Has(a, {"DECODE_START"})
  BY <1>1, <1>4 DEF EventFits, Has
<1>11. Has(a, {"DECODE_START"}) => Wakes(a) # {}
  BY DEF Has, Wakes, EventsOf
<1>12. a \in done => next = {} /\ ~gated /\ ~lined
  BY <1>7, <1>8, <1>9 DEF Started
<1>13. CASE t.ready = None
  <2>1. Has(a, {"ATTEMPT_READY"})
    BY <1>1, <1>13 DEF AttemptGoesOn
  <2>2. {"ATTEMPT_READY"} \subseteq NextKinds \ {"ARRIVAL"}
    BY DEF NextKinds, Kinds
  <2>3. next # {}
    BY <1>6, <2>1, <2>2
  <2>4. QED
    BY <1>5, <1>7, <1>8, <1>10, <1>12, <1>13, <2>3
<1>14. CASE t.ready # None /\ t.prefillStart = None
  <2>1. Has(a, {"PREFILL_START"}) \/ lined
    BY <1>1, <1>14 DEF AttemptGoesOn
  <2>2. {"PREFILL_START"} \subseteq NextKinds \ {"ARRIVAL"}
    BY DEF NextKinds, Kinds
  <2>3. ~gated /\ a \notin done
    BY <1>7, <1>10, <1>14
  <2>4. CASE lined
    <3>1. next = {}
      BY <1>7, <1>9, <1>14, <2>4
    <3>2. QED
      BY <2>3, <2>4, <3>1
  <2>5. CASE ~lined
    <3>1. next # {}
      BY <1>6, <2>1, <2>2, <2>5
    <3>2. QED
      BY <1>5, <2>3, <2>5, <3>1
  <2>6. QED
    BY <2>4, <2>5
<1>15. CASE t.prefillStart # None /\ t.decodeStart = None
  <2>1. Has(a, {"PREFILL_FINISH", "DECODE_START"})
    BY <1>1, <1>15 DEF AttemptGoesOn
  <2>2. Has(a, {"PREFILL_FINISH"}) \/ Has(a, {"DECODE_START"})
    BY <2>1 DEF Has
  <2>3. {"PREFILL_FINISH"} \subseteq NextKinds \ {"ARRIVAL"}
    BY DEF NextKinds, Kinds
  <2>4. ~lined /\ a \notin done /\ ~Started(a)
    BY <1>7, <1>8, <1>15 DEF Started
  <2>5. CASE Has(a, {"DECODE_START"})
    <3>1. next = {}
      BY <1>7, <1>9, <1>15, <2>5
    <3>2. gated
      BY <1>11, <2>4, <2>5
    <3>3. QED
      BY <2>4, <3>1, <3>2
  <2>6. CASE ~Has(a, {"DECODE_START"})
    <3>1. next # {}
      BY <1>6, <2>2, <2>3, <2>6
    <3>2. ~gated
      BY <1>10, <2>6
    <3>3. QED
      BY <1>5, <2>4, <3>1, <3>2
  <2>7. QED
    BY <2>5, <2>6
<1>16. CASE t.decodeStart # None
  <2>1. ~gated /\ ~lined
    BY <1>7, <1>8, <1>16 DEF Started
  <2>2. CASE a \in done
    BY <1>5, <1>12, <2>2
  <2>3. CASE a \notin done
    <3>1. Has(a, DecodeKinds)
      BY <1>1, <1>16, <2>3 DEF AttemptGoesOn
    <3>2. DecodeKinds \subseteq NextKinds \ {"ARRIVAL"}
      BY DEF NextKinds, Kinds, DecodeKinds
    <3>3. next # {}
      BY <1>6, <3>1, <3>2
    <3>4. QED
      BY <1>5, <2>1, <2>3, <3>3
  <2>4. QED
    BY <2>2, <2>3
<1>17. QED
  BY <1>13, <1>14, <1>15, <1>16

LEMMA EachAdvances == KernelInv => AttemptsAdvance
<1>1. ASSUME KernelInv, NEW a \in DOMAIN attempts
      PROVE  LET wakes == {e \in EventsOf(a) : e.kind = "DECODE_START"}
                 next  == EventsOf(a) \ wakes
                 gated == IF wakes # {} /\ ~Started(a) THEN 1 ELSE 0
                 lined == IF a \in WaitingFor(attempts[a].plan.p) THEN 1 ELSE 0
             IN  Cardinality(next) + gated + lined = (IF a \in done THEN 0 ELSE 1)
  <2> DEFINE next  == EventsOf(a) \ Wakes(a)
             gated == Wakes(a) # {} /\ ~Started(a)
             lined == a \in WaitingFor(attempts[a].plan.p)
  <2>1. /\ \A e, f \in next : e = f
        /\ a \in done => next = {} /\ ~gated /\ ~lined
        /\ a \notin done => \/ next # {} /\ ~gated /\ ~lined
                            \/ next = {} /\ gated /\ ~lined
                            \/ next = {} /\ ~gated /\ lined
    BY <1>1, FutureOf
  <2>2. next = {} => Cardinality(next) = 0
    BY FS_EmptySet
  <2>3. next # {} => Cardinality(next) = 1
    <3>1. ASSUME next # {} PROVE Cardinality(next) = 1
      <4>1. PICK e \in next : TRUE
        BY <3>1
      <4>2. next = {e}
        BY <2>1, <4>1
      <4>3. QED
        BY <4>2, FS_Singleton
    <3>2. QED
      BY <3>1
  <2>4. PICK n : n = Cardinality(next)
    OBVIOUS
  <2>5. /\ a \in done => n = 0 /\ ~gated /\ ~lined
        /\ a \notin done => \/ n = 1 /\ ~gated /\ ~lined
                            \/ n = 0 /\ gated /\ ~lined
                            \/ n = 0 /\ ~gated /\ lined
    <3> HIDE DEF next, gated, lined
    <3> QED
      BY <2>1, <2>2, <2>3, <2>4
  <2>6. n + (IF gated THEN 1 ELSE 0) + (IF lined THEN 1 ELSE 0) = (IF a \in done THEN 0 ELSE 1)
    <3> HIDE DEF next, gated, lined
    <3> QED
      BY <2>5
  <2>7. QED
    BY <2>4, <2>6 DEF Wakes
<1>2. KernelInv => AttemptsAdvance
  BY <1>1 DEF KernelInv, LifeInv, AttemptsAdvance, OneFuturePerAttempt
<1>3. QED
  BY <1>2

\* Every attempt has exactly one thing ahead of it until it completes, and a
\* request one attempt at a time (the event heap and p_waiting).
THEOREM RequestsAdvance == KernelSpec => []AttemptsAdvance
  BY EachAdvances, KernelInvariance, PTL

LEMMA HeldByOne ==
    ASSUME KernelInv, NEW p \in PNodes
    PROVE  LET here == {a \in Pending : attempts[a].plan.p = p}
               held == {a \in here : \E e \in EventsOf(a) :
                                        e.kind \in {"PREFILL_START", "PREFILL_FINISH"}}
           IN  Cardinality(held) = (IF busy[p] THEN 1 ELSE 0)
<1> DEFINE here == {a \in Pending : attempts[a].plan.p = p}
           held == {a \in here : \E e \in EventsOf(a) :
                                    e.kind \in {"PREFILL_START", "PREFILL_FINISH"}}
<1>1. NodeFits(p)
  BY DEF KernelInv, NodeInv
<1>2. ASSUME NEW a \in held
      PROVE  \E e \in queue : InPrefill(e, p) /\ e.attempt = a
  BY <1>2 DEF EventsOf, InPrefill, PrefillKinds
<1>3. ASSUME NEW e \in queue, InPrefill(e, p)
      PROVE  e.attempt \in held
  <2>1. EventFits(e) /\ e.kind \in {"PREFILL_START", "PREFILL_FINISH"}
    BY <1>3 DEF KernelInv, LifeInv, InPrefill, PrefillKinds
  <2>2. e.attempt \in DOMAIN attempts
    BY <2>1 DEF EventFits
  <2>3. attempts[e.attempt].ready # None
    <3>1. AttemptShape(e.attempt)
      BY <2>2 DEF KernelInv, LifeInv
    <3>2. QED
      BY <2>1, <3>1 DEF EventFits, AttemptShape
  <2>4. e.attempt \in Pending /\ attempts[e.attempt].plan.p = p
    BY <1>3, <2>2, <2>3 DEF Pending, InPrefill
  <2>5. e \in EventsOf(e.attempt)
    BY <2>1 DEF EventsOf
  <2>6. QED
    BY <2>1, <2>4, <2>5
<1>4. CASE busy[p]
  <2>1. PICK e \in queue : InPrefill(e, p)
    BY <1>1, <1>4 DEF NodeFits
  <2>2. \A a \in held : a = e.attempt
    BY <1>1, <1>2, <2>1 DEF NodeFits
  <2>3. held = {e.attempt}
    BY <1>3, <2>1, <2>2
  <2>4. Cardinality(held) = 1
    BY <2>3, FS_Singleton
  <2>5. QED
    BY <1>4, <2>4
<1>5. CASE ~busy[p]
  <2>1. held = {}
    BY <1>1, <1>2, <1>5 DEF NodeFits
  <2>2. Cardinality(held) = 0
    BY <2>1, FS_EmptySet
  <2>3. QED
    BY <1>5, <2>2
<1>6. QED
  BY <1>4, <1>5

LEMMA ServedOneAtATime == KernelInv => NodesRunOneAtATime
<1>1. ASSUME KernelInv PROVE PrefillInOrder
  <2>1. ASSUME NEW p \in PNodes
        PROVE  LET here == {a \in Pending : attempts[a].plan.p = p}
                   ran  == {a \in here : attempts[a].prefillStart # None}
                   held == {a \in here : \E e \in EventsOf(a) :
                                            e.kind \in {"PREFILL_START", "PREFILL_FINISH"}}
               IN  /\ Cardinality(held) = (IF busy[p] THEN 1 ELSE 0)
                   /\ ~busy[p] => waiting[p] = {}
                   /\ \A a, b \in ran : a # b =>
                         \/ attempts[a].prefillFinish <= attempts[b].prefillStart
                         \/ attempts[b].prefillFinish <= attempts[a].prefillStart
                   /\ \A a \in ran, b \in here :
                         attempts[b].ready < attempts[a].ready =>
                             b \in ran /\ attempts[b].prefillStart <= attempts[a].prefillStart
    <3> DEFINE here == {a \in Pending : attempts[a].plan.p = p}
               ran  == {a \in here : attempts[a].prefillStart # None}
               held == {a \in here : \E e \in EventsOf(a) :
                                        e.kind \in {"PREFILL_START", "PREFILL_FINISH"}}
    <3>1. Cardinality(held) = (IF busy[p] THEN 1 ELSE 0)
      BY <1>1, HeldByOne
    <3>2. ~busy[p] => waiting[p] = {}
      BY <1>1 DEF KernelInv, NodeInv, NodeFits
    <3>3. \A a, b \in here : a # b => InOrder(a, b)
      BY <1>1 DEF KernelInv, OrderInv
    <3>4. \A a, b \in ran : a # b => \/ attempts[a].prefillFinish <= attempts[b].prefillStart
                                    \/ attempts[b].prefillFinish <= attempts[a].prefillStart
      BY <3>3 DEF InOrder
    <3>5. ASSUME NEW a \in ran, NEW b \in here, attempts[b].ready < attempts[a].ready
          PROVE  b \in ran /\ attempts[b].prefillStart <= attempts[a].prefillStart
      <4>1. a # b
        <5>1. attempts[a].ready \in Int
          BY <1>1 DEF Pending, KernelInv, KernelTypeOK, AttemptRecord, None
        <5>2. QED
          BY <3>5, <5>1
      <4>2. InOrder(a, b)
        BY <3>3, <4>1
      <4>3. QED
        BY <3>5, <4>2 DEF InOrder
    <3>6. QED
      BY <3>1, <3>2, <3>4, <3>5
  <2>2. QED
    BY <2>1 DEF PrefillInOrder
<1>2. KernelInv => NodesRunOneAtATime
  BY <1>1 DEF KernelInv, DecodeInv, NodesRunOneAtATime
<1>3. QED
  BY <1>2

\* A prefill node has one attempt in hand whenever it is busy and serves them
\* in the order they became ready; decodes of one node never overlap, aborted
\* ones and gated ones included (p_busy, p_waiting and d_available).
THEOREM NodesServeOneAtATime == KernelSpec => []NodesRunOneAtATime
  BY ServedOneAtATime, KernelInvariance, PTL

-----------------------------------------------------------------------------
\* The credit policy on the kernel.

Items == [attempt: AttemptKey, credits: 1..Capacity, starts: Nat, releases: Nat]

\* The attempts that wait for a wake-up of their decode.
Sleepers == {e.attempt : e \in {x \in queue : x.kind = "DECODE_START"}}

\* The attempts that are owed credits.
Promised == CASE gate = "DEFER" -> Running
              [] gate = "GATED_DP" -> DOMAIN attempts \ done
              [] gate = "GATED_PD" -> Running \cup (Sleepers \ done)

\* What a ledger holds never exceeds the capacity.
LedgerOK(l) ==
    /\ l \in [active: SUBSET Items, executing: SUBSET Items,
              reserved: UNION {[keys -> Nat] : keys \in SUBSET AttemptKey}]
    /\ IsFiniteSet(l.active) /\ IsFiniteSet(l.executing)
    /\ \A t \in Nat : Held(Temporal(l), t) <= Capacity

\* The ledger and the kernel agree on who runs, who waits and who is owed what.
MatchInv ==
    /\ {x.attempt : x \in ledger.executing} = Running
    /\ \A x \in ledger.executing :
          x.starts = attempts[x.attempt].decodeStart /\ x.starts <= now
    /\ {x.attempt : x \in ledger.active} \subseteq Promised \ Running
    /\ DOMAIN ledger.reserved = Promised
    /\ \A a \in Promised : ledger.reserved[a] = credits[a]

\* The policy plans no failure, aborts first attempts only and retries them once.
AbortInv ==
    \A a \in DOMAIN attempts :
        /\ ~attempts[a].plan.fails /\ attempts[a].plan.missing = 0
        /\ attempts[a].terminal \in {"COMPLETED", "ABORTED"}
        /\ attempts[a].terminal = "ABORTED" => a[2] = 0

PolicyInv ==
    /\ KernelInv
    /\ gate \in Gates
    /\ DOMAIN credits = DOMAIN attempts /\ \A a \in DOMAIN credits : credits[a] \in Predicted
    /\ DOMAIN fences \subseteq DOMAIN attempts /\ \A a \in DOMAIN fences : fences[a] \in Nat
    /\ aborted \subseteq Abortable
    /\ ~raised
    /\ LedgerOK(ledger)
    /\ NoGate => ledger = EmptyLedger
    /\ ~NoGate => MatchInv
    /\ AbortInv /\ AbortsAreRetried
-----------------------------------------------------------------------------
(* What a ledger holds at one moment.                                       *)

At(items, t) == {y \in items : y.starts <= t /\ t < y.releases}
CreditsOf(items) == SumFunctionOnSet([x \in items |-> x.credits], items)

LEMMA HeldIsSum == ASSUME NEW items, NEW t PROVE Held(items, t) = CreditsOf(At(items, t))
BY DEF Held, CreditsOf, At, SumFunction

\* Reservations of anybody: the credits and times of each are naturals.
IsItems(items) ==
    IsFiniteSet(items) /\ \A x \in items : x.credits \in Nat /\ x.starts \in Nat /\ x.releases \in Nat

LEMMA SomeItems == ASSUME NEW items, IsItems(items), NEW part \in SUBSET items PROVE IsItems(part)
BY FS_Subset DEF IsItems

LEMMA MoreItems ==
    ASSUME NEW items, IsItems(items), NEW others, IsItems(others) PROVE IsItems(items \cup others)
BY FS_Union DEF IsItems

LEMMA CreditsAreCounted == ASSUME NEW items, IsItems(items) PROVE CreditsOf(items) \in Nat
<1> DEFINE f == [x \in items |-> x.credits]
<1>1. IsFiniteSet(items) /\ \A x \in items : f[x] \in Nat
  BY DEF IsItems
<1> HIDE DEF f
<1>2. SumFunctionOnSet(f, items) \in Nat
  BY <1>1, SumOfNaturals
<1>3. QED
  BY <1>2 DEF CreditsOf, f

\* Fewer reservations hold no more.
LEMMA FewerHoldLess ==
    ASSUME NEW items, IsItems(items), NEW part \in SUBSET items
    PROVE  CreditsOf(part) <= CreditsOf(items)
<1> DEFINE f == [x \in items |-> x.credits]
           g == [x \in part |-> x.credits]
<1>1. IsFiniteSet(items) /\ IsFiniteSet(part) /\ \A x \in items : f[x] \in Nat
  BY FS_Subset DEF IsItems
<1>2. \A x \in part : g[x] \in Int /\ f[x] = g[x]
  BY <1>1
<1>3. CreditsOf(part) = SumFunctionOnSet(g, part) /\ CreditsOf(items) = SumFunctionOnSet(f, items)
  BY DEF CreditsOf
<1> HIDE DEF f, g
<1>4. SumFunctionOnSet(f, part) = SumFunctionOnSet(g, part)
  BY <1>1, <1>2, SumsAgree
<1>5. SumFunctionOnSet(f, part) <= SumFunctionOnSet(f, items)
  BY <1>1, SumOfPart
<1>6. QED
  BY <1>3, <1>4, <1>5

LEMMA OneMoreHolds ==
    ASSUME NEW items, IsItems(items), NEW x, x \notin items, x.credits \in Nat
    PROVE  CreditsOf(items \cup {x}) = x.credits + CreditsOf(items)
<1> DEFINE f == [y \in items \cup {x} |-> y.credits]
           g == [y \in items |-> y.credits]
<1>1. IsFiniteSet(items) /\ \A y \in items \cup {x} : f[y] \in Int
  BY DEF IsItems
<1>2. f[x] = x.credits
  OBVIOUS
<1>3. \A y \in items : g[y] \in Int /\ f[y] = g[y]
  BY DEF IsItems
<1>4. /\ CreditsOf(items \cup {x}) = SumFunctionOnSet(f, items \cup {x})
      /\ CreditsOf(items) = SumFunctionOnSet(g, items)
  BY DEF CreditsOf
<1> HIDE DEF f, g
<1>5. SumFunctionOnSet(f, items \cup {x}) = f[x] + SumFunctionOnSet(f, items)
  BY <1>1, SumPutsIn
<1>6. SumFunctionOnSet(f, items) = SumFunctionOnSet(g, items)
  BY <1>1, <1>3, SumsAgree
<1>7. QED
  BY <1>2, <1>4, <1>5, <1>6

LEMMA HeldIsCounted ==
    ASSUME NEW items, IsItems(items), NEW t PROVE Held(items, t) \in Nat /\ IsItems(At(items, t))
<1>1. IsItems(At(items, t))
  BY SomeItems DEF At
<1>2. QED
  BY <1>1, CreditsAreCounted, HeldIsSum

\* Whoever holds at t among items holds at s among others.
LEMMA HeldGrows ==
    ASSUME NEW others, IsItems(others), NEW items, NEW s, NEW t, At(items, t) \subseteq At(others, s)
    PROVE  Held(items, t) <= Held(others, s)
<1>1. IsItems(At(others, s))
  BY SomeItems DEF At
<1>2. CreditsOf(At(items, t)) <= CreditsOf(At(others, s))
  BY <1>1, FewerHoldLess
<1>3. QED
  BY <1>2, HeldIsSum

LEMMA HeldWithOne ==
    ASSUME NEW items, IsItems(items), NEW x, x \notin items, x.credits \in Nat, NEW t
    PROVE  Held(items \cup {x}, t)
             = Held(items, t) + (IF x.starts <= t /\ t < x.releases THEN x.credits ELSE 0)
<1>1. IsItems(At(items, t)) /\ x \notin At(items, t) /\ CreditsOf(At(items, t)) \in Nat
  BY SomeItems, HeldIsCounted, HeldIsSum DEF At
<1>2. CASE x.starts <= t /\ t < x.releases
  <2>1. At(items \cup {x}, t) = At(items, t) \cup {x}
    BY <1>2 DEF At
  <2>2. CreditsOf(At(items \cup {x}, t)) = x.credits + CreditsOf(At(items, t))
    BY <1>1, <2>1, OneMoreHolds
  <2>3. QED
    BY <1>1, <1>2, <2>2, HeldIsSum
<1>3. CASE ~(x.starts <= t /\ t < x.releases)
  <2>1. At(items \cup {x}, t) = At(items, t)
    BY <1>3 DEF At
  <2>2. QED
    BY <1>1, <1>3, <2>1, HeldIsSum
<1>4. QED
  BY <1>2, <1>3
-----------------------------------------------------------------------------
(* Where a reservation fits.                                                *)

LEMMA MinIsLeast ==
    ASSUME NEW S, IsFiniteSet(S), S # {}, S \subseteq Int
    PROVE  Min(S) \in S /\ \A n \in S : Min(S) <= n
BY LeastExists DEF Min

LEMMA MaxIsGreatest ==
    ASSUME NEW S, IsFiniteSet(S), S # {}, S \subseteq Int
    PROVE  Max(S) \in S /\ \A n \in S : n <= Max(S)
<1>1. \E m \in S : \A n \in S : m >= n
  BY GreatestExists
<1>2. QED
  BY <1>1 DEF Max

LEMMA PairIsFinite == ASSUME NEW x, NEW y PROVE IsFiniteSet({x, y})
<1>1. IsFiniteSet({x} \cup {y})
  BY FS_Singleton, FS_Union
<1>2. {x} \cup {y} = {x, y}
  OBVIOUS
<1>3. QED
  BY <1>1, <1>2

LEMMA WidthIsPositive ==
    ASSUME NEW amount \in Nat \ {0} PROVE Width(amount) \in 1..Capacity /\ Width(Width(amount)) = Width(amount)
<1>1. IsFiniteSet({amount, Capacity}) /\ {amount, Capacity} \subseteq Int
  BY PairIsFinite, CapacityAssumption
<1>2. Width(amount) \in {amount, Capacity} /\ Width(amount) <= Capacity
  BY <1>1, MinIsLeast DEF Width
<1>3. Width(amount) \in 1..Capacity
  BY <1>2, CapacityAssumption
<1>4. PICK w : w = Width(amount)
  OBVIOUS
<1>5. IsFiniteSet({w, Capacity}) /\ {w, Capacity} \subseteq Int
  <2>1. w \in Int /\ Capacity \in Int
    BY <1>3, <1>4, CapacityAssumption
  <2>2. IsFiniteSet({w, Capacity})
    BY PairIsFinite
  <2>3. QED
    BY <2>1, <2>2
<1>6. Width(w) \in {w, Capacity} /\ Width(w) <= w /\ Width(w) <= Capacity
  BY <1>5, MinIsLeast DEF Width
<1>7. Width(w) = w
  BY <1>3, <1>4, <1>6, CapacityAssumption
<1>8. QED
  BY <1>3, <1>4, <1>7

LEMMA TimesAreFinite ==
    ASSUME NEW items, IsItems(items)
    PROVE  /\ IsFiniteSet({x.starts : x \in items}) /\ {x.starts : x \in items} \subseteq Nat
           /\ IsFiniteSet({x.releases : x \in items}) /\ {x.releases : x \in items} \subseteq Nat
<1> DEFINE s == [x \in items |-> x.starts]
           r == [x \in items |-> x.releases]
<1>1. IsFiniteSet(items)
  BY DEF IsItems
<1>2. {s[x] : x \in items} = {x.starts : x \in items} /\ {r[x] : x \in items} = {x.releases : x \in items}
  OBVIOUS
<1> HIDE DEF s, r
<1>3. IsFiniteSet({s[x] : x \in items}) /\ IsFiniteSet({r[x] : x \in items})
  BY <1>1, ImageIsFinite
<1>4. QED
  BY <1>2, <1>3 DEF IsItems

\* After the last release nothing is held, so there is a place to fit.
LEMMA AvailableIsFree ==
    ASSUME NEW l, IsItems(Temporal(l)), NEW amount \in Nat \ {0}, NEW time \in Nat, NEW excluded
    PROVE  LET items == {x \in Temporal(l) : x.attempt # excluded}
               found == AvailableAt(l, amount, time, excluded)
           IN  found \in Nat /\ time <= found /\ Fits(items, Width(amount), found)
<1> DEFINE items      == {x \in Temporal(l) : x.attempt # excluded}
           later      == {t \in {x.releases : x \in items} : t > time}
           candidates == {time} \cup later
           places     == {t \in candidates : Fits(items, Width(amount), t)}
<1>1. IsItems(items)
  BY SomeItems
<1>2. IsFiniteSet(candidates) /\ candidates \subseteq Nat /\ \A t \in candidates : time <= t
  <2>1. IsFiniteSet(later) /\ later \subseteq Nat
    BY <1>1, TimesAreFinite, FS_Subset
  <2>2. IsFiniteSet({time})
    BY FS_Singleton
  <2>3. IsFiniteSet(candidates)
    BY <2>1, <2>2, FS_Union
  <2>4. QED
    BY <2>1, <2>3
<1>3. PICK last \in candidates : \A t \in candidates : t <= last
  <2>1. candidates # {} /\ candidates \subseteq Int /\ IsFiniteSet(candidates)
    BY <1>2
  <2> HIDE DEF candidates
  <2>2. QED
    BY <2>1, GreatestExists
<1>4. Width(amount) \in 1..Capacity
  BY WidthIsPositive
<1>5. ASSUME NEW t \in Breakpoints(items, last, last + Width(amount))
      PROVE  Held(items, t) + Width(amount) <= Capacity
  <2>1. last \in Nat /\ time <= last
    BY <1>2
  <2>2. t \in Nat /\ last <= t
    BY <1>1, <2>1 DEF Breakpoints, IsItems
  <2>3. ASSUME NEW x \in items PROVE ~(t < x.releases)
    <3>1. x.releases \in Nat
      BY <1>1 DEF IsItems
    <3>2. CASE x.releases > time
      <4>1. x.releases <= last
        BY <1>3, <3>2
      <4>2. QED
        BY <2>1, <2>2, <3>1, <4>1
    <3>3. CASE ~(x.releases > time)
      BY <2>1, <2>2, <3>1, <3>3
    <3>4. QED
      BY <3>2, <3>3
  <2>4. At(items, t) = {}
    BY <2>3 DEF At
  <2>5. Held(items, t) = 0
    BY <2>4, HeldIsSum, SumOfNone DEF CreditsOf
  <2>6. QED
    BY <1>4, <2>5, CapacityAssumption
<1>6. last \in places
  BY <1>5 DEF Fits
<1>7. IsFiniteSet(places) /\ places # {} /\ places \subseteq Int
  <2>1. places \subseteq candidates
    OBVIOUS
  <2>2. candidates \subseteq Int
    BY <1>2
  <2> HIDE DEF candidates, places
  <2>3. QED
    BY <1>2, <1>6, <2>1, <2>2, FS_Subset
<1>8. AvailableAt(l, amount, time, excluded) = Min(places)
  BY DEF AvailableAt
<1>9. Min(places) \in places
  BY <1>7, MinIsLeast
<1>10. QED
  BY <1>2, <1>8, <1>9

\* What fits at the moments others start fits throughout.
LEMMA FitsThroughout ==
    ASSUME NEW items, IsItems(items), NEW width \in Nat, NEW starts \in Nat, Fits(items, width, starts),
           NEW t \in Nat, starts <= t, t < starts + width
    PROVE  Held(items, t) + width <= Capacity
<1> DEFINE since == {s \in {x.starts : x \in items} : starts < s /\ s <= t}
<1>1. IsFiniteSet({starts} \cup since) /\ {starts} \cup since \subseteq Int
  <2>1. IsFiniteSet(since) /\ since \subseteq Nat
    BY TimesAreFinite, FS_Subset
  <2>2. IsFiniteSet({starts})
    BY FS_Singleton
  <2>3. {starts} \cup since \subseteq Int
    BY <2>1
  <2> HIDE DEF since
  <2>4. IsFiniteSet({starts} \cup since)
    BY <2>1, <2>2, FS_Union
  <2>5. QED
    BY <2>3, <2>4
<1>2. PICK b \in {starts} \cup since : \A s \in {starts} \cup since : s <= b
  BY <1>1, GreatestExists
<1>3. b \in Nat /\ starts <= b /\ b <= t
  BY <1>1, <1>2
<1>4. b \in Breakpoints(items, starts, starts + width)
  BY <1>2, <1>3 DEF Breakpoints
<1>5. Held(items, b) + width <= Capacity
  BY <1>4 DEF Fits
<1>6. At(items, t) \subseteq At(items, b)
  <2>1. ASSUME NEW x \in At(items, t) PROVE x.starts <= b /\ b < x.releases
    <3>1. x \in items /\ x.starts <= t /\ t < x.releases /\ x.starts \in Nat /\ x.releases \in Nat
      BY DEF At, IsItems
    <3>2. x.starts <= b
      <4>1. CASE starts < x.starts
        BY <1>2, <3>1, <4>1
      <4>2. CASE ~(starts < x.starts)
        BY <1>3, <3>1, <4>2
      <4>3. QED
        BY <4>1, <4>2
    <3>3. QED
      BY <1>3, <3>1, <3>2
  <2>2. QED
    BY <2>1 DEF At
<1>7. Held(items, t) <= Held(items, b) /\ Held(items, t) \in Nat /\ Held(items, b) \in Nat
  BY <1>6, HeldGrows, HeldIsCounted
<1>8. QED
  BY <1>5, <1>7, CapacityAssumption
-----------------------------------------------------------------------------
(* The chunks of a reservation.                                             *)

Left(amount, i) == amount - (i - 1) * Capacity
Rounds(amount) == {j \in 1..amount : Left(amount, j) > 0}

ChunkAt(l, a, amount, i, cursor) ==
    LET width  == Width(Left(amount, i))
        starts == AvailableAt(l, width, cursor, <<>>)
    IN  Reservation(a, width, starts, starts + width)

ChunkRec(f, n, l, a, amount, time) ==
    f = [i \in 1..n |-> ChunkAt(l, a, amount, i, IF i = 1 THEN time ELSE f[i - 1].releases)]

ChunkOf(l, a, amount, time) == CHOOSE f : ChunkRec(f, amount, l, a, amount, time)

LEMMA ChunksAreThese ==
    ASSUME NEW l, NEW a, NEW amount, NEW time
    PROVE  Chunks(l, a, amount, time) = {ChunkOf(l, a, amount, time)[i] : i \in Rounds(amount)}
BY DEF Chunks, ChunkOf, ChunkRec, ChunkAt, Rounds, Left

\* The recursion that places the chunks goes from the first to the last.
LEMMA ChunksAreDefined ==
    ASSUME NEW l, NEW a, NEW amount \in Nat \ {0}, NEW time
    PROVE  ChunkRec(ChunkOf(l, a, amount, time), amount, l, a, amount, time)
<1> DEFINE C(i, cursor) == ChunkAt(l, a, amount, i, cursor)
           Defined(n) == \E f : f = [i \in 1..n |-> C(i, IF i = 1 THEN time ELSE f[i - 1].releases)]
           T == {n \in 1..amount : Defined(n)}
<1> HIDE DEF C
<1>1. ASSUME NEW n \in 1..amount, \A j \in 1..(n - 1) : j \in T PROVE n \in T
  <2>1. CASE n = 1
    <3> DEFINE f == [i \in 1..1 |-> C(i, time)]
    <3>1. \A i \in 1..1 : f[i] = C(i, IF i = 1 THEN time ELSE f[i - 1].releases)
      OBVIOUS
    <3>2. f = [i \in 1..1 |-> C(i, IF i = 1 THEN time ELSE f[i - 1].releases)]
      BY <3>1
    <3>3. QED
      BY <2>1, <3>2
  <2>2. CASE n # 1
    <3>1. n - 1 \in T
      BY <1>1, <2>2
    <3>2. PICK g : g = [i \in 1..(n - 1) |-> C(i, IF i = 1 THEN time ELSE g[i - 1].releases)]
      BY <3>1
    <3> DEFINE f == [i \in 1..n |-> IF i = n THEN C(n, g[n - 1].releases) ELSE g[i]]
    <3>3. ASSUME NEW i \in 1..n PROVE f[i] = C(i, IF i = 1 THEN time ELSE f[i - 1].releases)
      <4>1. CASE i = n
        <5>1. f[n - 1] = g[n - 1] /\ f[n] = C(n, g[n - 1].releases)
          BY <2>2
        <5> HIDE DEF f
        <5>2. QED
          BY <2>2, <4>1, <5>1
      <4>2. CASE i # n
        <5>1. i \in 1..(n - 1)
          BY <4>2
        <5>2. f[i] = g[i] /\ (i # 1 => f[i - 1] = g[i - 1])
          BY <4>2
        <5>3. g[i] = C(i, IF i = 1 THEN time ELSE g[i - 1].releases)
          BY <3>2, <5>1
        <5> HIDE DEF f
        <5>4. QED
          BY <5>2, <5>3
      <4>3. QED
        BY <4>1, <4>2
    <3>4. f = [i \in 1..n |-> f[i]]
      OBVIOUS
    <3> HIDE DEF f
    <3>5. f = [i \in 1..n |-> C(i, IF i = 1 THEN time ELSE f[i - 1].releases)]
      BY <3>3, <3>4
    <3>6. QED
      BY <3>5
  <2>3. QED
    BY <2>1, <2>2
<1>2. amount \in T
  <2> HIDE DEF T
  <2>1. 1..amount \subseteq T
    BY <1>1, IntervalInduction
  <2>2. QED
    BY <2>1
<1>3. \E f : ChunkRec(f, amount, l, a, amount, time)
  BY <1>2 DEF ChunkRec, C
<1>4. QED
  BY <1>3 DEF ChunkOf

\* Each chunk is as wide as it can be, fits among what was there, and starts
\* when the one before it is over.
LEMMA ChunksInARow ==
    ASSUME NEW l, IsItems(Temporal(l)), \A x \in Temporal(l) : x.attempt # <<>>,
           NEW a, NEW amount \in Nat \ {0}, NEW time \in Nat
    PROVE  LET c == ChunkOf(l, a, amount, time)
           IN  /\ 1 \in Rounds(amount)
               /\ \A i \in Rounds(amount) :
                     /\ c[i].attempt = a /\ c[i].credits \in 1..Capacity
                     /\ c[i].starts \in Nat /\ time <= c[i].starts
                     /\ c[i].releases = c[i].starts + c[i].credits
                     /\ c[i] = Reservation(a, c[i].credits, c[i].starts, c[i].releases)
                     /\ Fits(Temporal(l), c[i].credits, c[i].starts)
               /\ \A i, j \in Rounds(amount) : i < j => c[i].releases <= c[j].starts
<1>0. PICK c : c = ChunkOf(l, a, amount, time)
  OBVIOUS
<1> DEFINE Resumes(i) == IF i = 1 THEN time ELSE c[i - 1].releases
           Good(i) == /\ c[i].attempt = a /\ c[i].credits \in 1..Capacity
                      /\ c[i].starts \in Nat /\ time <= c[i].starts
                      /\ c[i].releases = c[i].starts + c[i].credits
                      /\ c[i] = Reservation(a, c[i].credits, c[i].starts, c[i].releases)
                      /\ Fits(Temporal(l), c[i].credits, c[i].starts)
                      /\ Resumes(i) <= c[i].starts
           Row(i) == i \in Rounds(amount) =>
                        Good(i) /\ \A j \in 1..(i - 1) : Good(j) /\ c[j].releases <= c[i].starts
           T == {i \in 1..amount : Row(i)}
<1>1. \A i \in 1..amount : c[i] = ChunkAt(l, a, amount, i, Resumes(i))
  <2>1. c = [i \in 1..amount |-> ChunkAt(l, a, amount, i, Resumes(i))]
    BY <1>0, ChunksAreDefined DEF ChunkRec
  <2>2. QED
    BY <2>1
<1>2. Capacity \in Nat \ {0} /\ 1 \in Rounds(amount)
  BY CapacityAssumption DEF Rounds, Left
<1>3. ASSUME NEW i \in Rounds(amount), i # 1 PROVE i - 1 \in Rounds(amount)
  <2>1. i \in 1..amount /\ i - 1 \in 1..amount /\ amount - (i - 1) * Capacity > 0
    BY <1>3 DEF Rounds, Left
  <2>2. ((i - 1) - 1) * Capacity = (i - 1) * Capacity - Capacity
    BY <1>2, <2>1
  <2>3. (i - 1) * Capacity \in Int
    BY <1>2, <2>1
  <2>4. amount - ((i - 1) - 1) * Capacity > 0
    BY <1>2, <2>1, <2>2, <2>3
  <2>5. QED
    BY <2>1, <2>4 DEF Rounds, Left
<1>4. ASSUME NEW i \in Rounds(amount), Resumes(i) \in Nat, time <= Resumes(i) PROVE Good(i)
  <2>1. PICK width, start : /\ width = Width(Left(amount, i))
                            /\ start = AvailableAt(l, width, Resumes(i), <<>>)
    OBVIOUS
  <2>2. i \in 1..amount /\ Left(amount, i) \in Nat \ {0}
    <3>1. i \in 1..amount /\ Left(amount, i) > 0
      BY DEF Rounds
    <3>2. Left(amount, i) \in Int
      BY <1>2, <3>1 DEF Left
    <3>3. QED
      BY <3>1, <3>2
  <2>3. width \in 1..Capacity /\ width \in Nat \ {0} /\ Width(width) = width
    <3>1. Width(Left(amount, i)) \in 1..Capacity /\ Width(Width(Left(amount, i))) = Width(Left(amount, i))
      BY <2>2, WidthIsPositive
    <3>2. QED
      BY <1>2, <2>1, <3>1
  <2>4. {x \in Temporal(l) : x.attempt # <<>>} = Temporal(l)
    OBVIOUS
  <2>5. start \in Nat /\ Resumes(i) <= start /\ Fits(Temporal(l), width, start)
    <3> HIDE DEF Resumes
    <3>1. LET items == {x \in Temporal(l) : x.attempt # <<>>}
          IN  /\ start \in Nat /\ Resumes(i) <= start
              /\ Fits(items, Width(width), start)
      BY <1>4, <2>1, <2>3, AvailableIsFree
    <3>2. QED
      BY <2>3, <2>4, <3>1
  <2>6. c[i] = [attempt |-> a, credits |-> width, starts |-> start, releases |-> start + width]
    BY <1>1, <2>1, <2>2 DEF ChunkAt, Reservation
  <2>7. time <= start
    BY <1>4, <2>5
  <2>8. QED
    BY <2>3, <2>5, <2>6, <2>7 DEF Reservation
<1>5. ASSUME NEW i \in 1..amount, \A j \in 1..(i - 1) : j \in T PROVE i \in T
  <2>1. SUFFICES ASSUME i \in Rounds(amount)
                 PROVE  Good(i) /\ \A j \in 1..(i - 1) : Good(j) /\ c[j].releases <= c[i].starts
    OBVIOUS
  <2>2. CASE i = 1
    <3>1. Resumes(i) = time
      BY <2>2
    <3>2. Good(i)
      BY <1>4, <2>1, <3>1
    <3>3. QED
      BY <2>2, <3>2
  <2>3. CASE i # 1
    <3>1. i - 1 \in Rounds(amount) /\ i - 1 \in T
      BY <1>3, <1>5, <2>1, <2>3
    <3>2. Good(i - 1) /\ \A j \in 1..(i - 2) : Good(j) /\ c[j].releases <= c[i - 1].starts
      BY <3>1
    <3>3. /\ c[i - 1].releases \in Nat /\ c[i - 1].starts \in Nat
          /\ time <= c[i - 1].starts /\ c[i - 1].starts <= c[i - 1].releases
      BY <1>2, <3>2, SMTT(30)
    <3>4. Resumes(i) = c[i - 1].releases
      BY <2>3
    <3>5. Good(i)
      BY <1>4, <2>1, <3>3, <3>4
    <3>6. c[i].starts \in Nat /\ c[i - 1].releases <= c[i].starts
      BY <3>4, <3>5
    <3>7. ASSUME NEW j \in 1..(i - 1) PROVE Good(j) /\ c[j].releases <= c[i].starts
      <4>1. CASE j = i - 1
        BY <3>2, <3>6, <4>1
      <4>2. CASE j # i - 1
        <5>1. j \in 1..(i - 2)
          BY <4>2
        <5>2. Good(j) /\ c[j].releases <= c[i - 1].starts
          BY <3>2, <5>1
        <5>3. c[j].releases \in Nat
          BY <1>2, <5>2
        <5>4. c[j].releases <= c[i].starts
          BY <3>3, <3>6, <5>2, <5>3, SMTT(30)
        <5>5. QED
          BY <5>2, <5>4
      <4>3. QED
        BY <4>1, <4>2
    <3>8. QED
      BY <3>5, <3>7
  <2>4. QED
    BY <2>2, <2>3
<1>6. \A i \in 1..amount : Row(i)
  <2>1. 1..amount \subseteq T
    <3> HIDE DEF T
    <3> QED
      BY <1>5, IntervalInduction
  <2>2. QED
    BY <2>1
<1>7. \A i \in Rounds(amount) : Good(i)
  BY <1>6 DEF Rounds
<1>8. ASSUME NEW i \in Rounds(amount), NEW j \in Rounds(amount), i < j
      PROVE  c[i].releases <= c[j].starts
  <2>1. i \in 1..(j - 1) /\ j \in 1..amount
    BY <1>8 DEF Rounds
  <2> HIDE DEF Good
  <2>2. QED
    BY <1>6, <2>1
<1>9. QED
  BY <1>0, <1>2, <1>7, <1>8
-----------------------------------------------------------------------------
(* What reserve, activate and settle leave in a ledger.                     *)

LEMMA LedgerItems ==
    ASSUME NEW l, LedgerOK(l)
    PROVE  /\ Temporal(l) \subseteq Items /\ IsItems(Temporal(l)) /\ IsItems(l.executing)
           /\ \A x \in Temporal(l) : x.attempt # <<>> /\ x.credits \in 1..Capacity
           /\ l = [active |-> l.active, executing |-> l.executing, reserved |-> l.reserved]
           /\ DOMAIN l.reserved \subseteq AttemptKey
           /\ \A b \in DOMAIN l.reserved : l.reserved[b] \in Nat
<1>1. l.active \subseteq Items /\ l.executing \subseteq Items
  BY DEF LedgerOK
<1>2. IsFiniteSet(Temporal(l)) /\ IsFiniteSet(l.executing) /\ Temporal(l) \subseteq Items
  BY <1>1, FS_Union DEF LedgerOK, Temporal
<1>3. \A a \in AttemptKey : a # <<>>
  BY DEF AttemptKey
<1>4. \A x \in Items : x.credits \in Nat /\ x.starts \in Nat /\ x.releases \in Nat
  BY CapacityAssumption DEF Items
<1>5. \A x \in Items : x.attempt # <<>> /\ x.credits \in 1..Capacity
  BY <1>3 DEF Items
<1>6. IsItems(Temporal(l)) /\ IsItems(l.executing)
  BY <1>1, <1>2, <1>4 DEF IsItems
<1>7. l = [active |-> l.active, executing |-> l.executing, reserved |-> l.reserved]
  BY DEF LedgerOK
<1>8. DOMAIN l.reserved \subseteq AttemptKey /\ \A b \in DOMAIN l.reserved : l.reserved[b] \in Nat
  <2>1. PICK keys \in SUBSET AttemptKey : l.reserved \in [keys -> Nat]
    BY DEF LedgerOK
  <2>2. QED
    BY <2>1
<1>9. QED
  BY <1>2, <1>5, <1>6, <1>7, <1>8

LEMMA DebtIsCounted ==
    ASSUME NEW r, DOMAIN r \subseteq AttemptKey, \A b \in DOMAIN r : r[b] \in Nat,
           NEW a \in AttemptKey, NEW amount \in Nat
    PROVE  WithDebt(r, a, amount) \in UNION {[keys -> Nat] : keys \in SUBSET AttemptKey}
<1>1. WithDebt(r, a, amount) \in [DOMAIN r \cup {a} -> Nat]
  BY DEF WithDebt
<1>2. DOMAIN r \cup {a} \in SUBSET AttemptKey
  OBVIOUS
<1>3. QED
  BY <1>1, <1>2

\* The chunks fit, side by side with what is held and one after the other.
LEMMA ChunksFit ==
    ASSUME NEW l, LedgerOK(l), NEW a \in AttemptKey, NEW amount \in Nat \ {0}, NEW time \in Nat,
           MayReserve(l, a)
    PROVE  LET added == Chunks(l, a, amount, time)
           IN  /\ added \subseteq Items /\ IsFiniteSet(added) /\ added # {}
               /\ \A x \in added : x.attempt = a /\ time <= x.starts
               /\ \A t \in Nat : Held(Temporal(l) \cup added, t) <= Capacity
<1>0. PICK c, added : c = ChunkOf(l, a, amount, time) /\ added = Chunks(l, a, amount, time)
  OBVIOUS
<1>1. /\ Temporal(l) \subseteq Items /\ IsItems(Temporal(l))
      /\ \A x \in Temporal(l) : x.attempt # <<>>
  BY LedgerItems
<1>2. /\ 1 \in Rounds(amount)
      /\ \A i \in Rounds(amount) :
            /\ c[i].attempt = a /\ c[i].credits \in 1..Capacity
            /\ c[i].starts \in Nat /\ time <= c[i].starts
            /\ c[i].releases = c[i].starts + c[i].credits
            /\ c[i] = Reservation(a, c[i].credits, c[i].starts, c[i].releases)
            /\ Fits(Temporal(l), c[i].credits, c[i].starts)
      /\ \A i, j \in Rounds(amount) : i < j => c[i].releases <= c[j].starts
  <2>1. LET d == ChunkOf(l, a, amount, time)
        IN  /\ 1 \in Rounds(amount)
            /\ \A i \in Rounds(amount) :
                  /\ d[i].attempt = a /\ d[i].credits \in 1..Capacity
                  /\ d[i].starts \in Nat /\ time <= d[i].starts
                  /\ d[i].releases = d[i].starts + d[i].credits
                  /\ d[i] = Reservation(a, d[i].credits, d[i].starts, d[i].releases)
                  /\ Fits(Temporal(l), d[i].credits, d[i].starts)
            /\ \A i, j \in Rounds(amount) : i < j => d[i].releases <= d[j].starts
    BY <1>1, ChunksInARow
  <2>2. QED
    BY <1>0, <2>1
<1>3. added = {c[i] : i \in Rounds(amount)}
  BY <1>0, ChunksAreThese
<1>4. \A x \in added : \E i \in Rounds(amount) : x = c[i]
  BY <1>3
<1>5. ASSUME NEW x \in added
      PROVE  /\ x \in Items /\ x.attempt = a /\ time <= x.starts
             /\ x.credits \in Nat /\ x.starts \in Nat /\ x.releases \in Nat
             /\ x.releases = x.starts + x.credits
             /\ Fits(Temporal(l), x.credits, x.starts)
  <2>1. PICK i \in Rounds(amount) : x = c[i]
    BY <1>4
  <2>2. PICK w, s : w = x.credits /\ s = x.starts
    OBVIOUS
  <2>3. /\ x = [attempt |-> a, credits |-> w, starts |-> s, releases |-> s + w]
        /\ w \in 1..Capacity /\ s \in Nat /\ time <= s /\ Fits(Temporal(l), w, s)
    BY <1>2, <2>1, <2>2 DEF Reservation
  <2>4. w \in Nat /\ s + w \in Nat
    BY <2>3, CapacityAssumption
  <2>5. QED
    BY <2>2, <2>3, <2>4 DEF Items
<1>6. IsFiniteSet(added) /\ added # {}
  <2>1. IsFiniteSet(Rounds(amount))
    <3>1. IsFiniteSet(1..amount) /\ Rounds(amount) \subseteq 1..amount
      BY FS_Interval DEF Rounds
    <3>2. QED
      BY <3>1, FS_Subset
  <2>2. QED
    BY <1>2, <1>3, <2>1, ImageIsFinite
<1>7. IsItems(added) /\ IsItems(Temporal(l) \cup added)
  BY <1>1, <1>5, <1>6, MoreItems DEF IsItems
<1>8. ASSUME NEW t \in Nat, NEW x \in At(added, t), NEW y \in At(added, t) PROVE x = y
  <2>1. /\ x \in added /\ y \in added
        /\ x.starts <= t /\ t < x.releases /\ y.starts <= t /\ t < y.releases
    BY DEF At
  <2>2. PICK i \in Rounds(amount) : x = c[i]
    BY <1>4, <2>1
  <2>3. PICK j \in Rounds(amount) : y = c[j]
    BY <1>4, <2>1
  <2>4. x.starts \in Nat /\ y.starts \in Nat /\ x.releases \in Nat /\ y.releases \in Nat
    BY <1>5, <2>1
  <2>5. i \in Nat /\ j \in Nat
    BY DEF Rounds
  <2>6. ~(i < j) /\ ~(j < i)
    BY <1>2, <2>1, <2>2, <2>3, <2>4
  <2>7. QED
    BY <2>2, <2>3, <2>5, <2>6
<1>9. ASSUME NEW t \in Nat PROVE Held(Temporal(l) \cup added, t) <= Capacity
  <2>1. Held(Temporal(l), t) <= Capacity /\ Held(Temporal(l), t) \in Nat
    BY <1>1, HeldIsCounted DEF LedgerOK
  <2>2. Held(Temporal(l) \cup added, t) \in Nat
    BY <1>7, HeldIsCounted
  <2>3. CASE At(added, t) = {}
    <3>1. At(Temporal(l) \cup added, t) \subseteq At(Temporal(l), t)
      BY <2>3 DEF At
    <3>2. Held(Temporal(l) \cup added, t) <= Held(Temporal(l), t)
      BY <1>1, <3>1, HeldGrows
    <3>3. QED
      BY <2>1, <2>2, <3>2, CapacityAssumption
  <2>4. CASE At(added, t) # {}
    <3>1. PICK x \in At(added, t) : TRUE
      BY <2>4
    <3>2. x \in added /\ x.starts <= t /\ t < x.releases
      BY DEF At
    <3>3. x \notin Temporal(l)
      BY <1>5, <3>2 DEF MayReserve, Holds
    <3>4. At(Temporal(l) \cup added, t) \subseteq At(Temporal(l) \cup {x}, t)
      BY <1>8, <3>1 DEF At
    <3>5. IsItems({x}) /\ x.credits \in Nat
      BY <1>5, <3>2, FS_Singleton DEF IsItems
    <3>6. Held(Temporal(l) \cup added, t) <= Held(Temporal(l) \cup {x}, t)
      BY <1>1, <3>4, <3>5, MoreItems, HeldGrows
    <3>7. Held(Temporal(l) \cup {x}, t) = Held(Temporal(l), t) + x.credits
      BY <1>1, <3>2, <3>3, <3>5, HeldWithOne
    <3>8. t < x.starts + x.credits /\ x.starts \in Nat
      BY <1>5, <3>2
    <3>9. Held(Temporal(l), t) + x.credits <= Capacity
      BY <1>1, <1>5, <3>2, <3>8, FitsThroughout
    <3>10. QED
      BY <2>1, <2>2, <3>5, <3>6, <3>7, <3>9, CapacityAssumption
  <2>5. QED
    BY <2>3, <2>4
<1>10. QED
  BY <1>0, <1>5, <1>6, <1>9

LEMMA ReserveKeeps ==
    ASSUME NEW l, LedgerOK(l), NEW a \in AttemptKey, NEW amount \in Nat \ {0}, NEW time \in Nat,
           MayReserve(l, a)
    PROVE  LET m == Reserve(l, a, amount, time)
           IN  /\ LedgerOK(m)
               /\ m.executing = l.executing
               /\ m.reserved = WithDebt(l.reserved, a, amount)
               /\ {x.attempt : x \in m.active} = {x.attempt : x \in l.active} \cup {a}
               /\ StartsAt(m, a) \in Nat /\ time <= StartsAt(m, a)
<1>0. PICK m, added : m = Reserve(l, a, amount, time) /\ added = Chunks(l, a, amount, time)
  OBVIOUS
<1>1. /\ l = [active |-> l.active, executing |-> l.executing, reserved |-> l.reserved]
      /\ DOMAIN l.reserved \subseteq AttemptKey
      /\ \A b \in DOMAIN l.reserved : l.reserved[b] \in Nat
  BY LedgerItems
<1>2. /\ added \subseteq Items /\ IsFiniteSet(added) /\ added # {}
      /\ \A x \in added : x.attempt = a /\ time <= x.starts
      /\ \A t \in Nat : Held(Temporal(l) \cup added, t) <= Capacity
  BY <1>0, ChunksFit
<1>3. m = [active |-> l.active \cup added, executing |-> l.executing,
           reserved |-> WithDebt(l.reserved, a, amount)]
  <2>1. m = [l EXCEPT !.active = @ \cup added, !.reserved = WithDebt(@, a, amount)]
    BY <1>0 DEF Reserve
  <2>2. QED
    BY <1>1, <2>1
<1>4. /\ m.active = l.active \cup added /\ m.executing = l.executing
      /\ m.reserved = WithDebt(l.reserved, a, amount)
  BY <1>3
<1>5. Temporal(m) = Temporal(l) \cup added
  BY <1>4 DEF Temporal
<1>6. WithDebt(l.reserved, a, amount) \in UNION {[keys -> Nat] : keys \in SUBSET AttemptKey}
  BY <1>1, DebtIsCounted
<1>7. LedgerOK(m)
  <2>1. l.active \subseteq Items /\ l.executing \subseteq Items
        /\ IsFiniteSet(l.active) /\ IsFiniteSet(l.executing)
    BY DEF LedgerOK
  <2>2. IsFiniteSet(l.active \cup added) /\ l.active \cup added \subseteq Items
    BY <1>2, <2>1, FS_Union
  <2>3. m \in [active: SUBSET Items, executing: SUBSET Items,
               reserved: UNION {[keys -> Nat] : keys \in SUBSET AttemptKey}]
    BY <1>3, <1>6, <2>1, <2>2
  <2>4. QED
    BY <1>2, <1>4, <1>5, <2>1, <2>2, <2>3 DEF LedgerOK
<1>8. {x.attempt : x \in m.active} = {x.attempt : x \in l.active} \cup {a}
  BY <1>2, <1>4
<1>9. StartsAt(m, a) \in Nat /\ time <= StartsAt(m, a)
  <2>1. {y \in m.active : y.attempt = a} = added
    BY <1>2, <1>4 DEF MayReserve, Holds, Temporal
  <2>2. IsItems(added)
    BY <1>2, CapacityAssumption DEF IsItems, Items
  <2>3. /\ IsFiniteSet({x.starts : x \in added}) /\ {x.starts : x \in added} \subseteq Int
        /\ {x.starts : x \in added} # {}
    <3>1. IsFiniteSet({x.starts : x \in added}) /\ {x.starts : x \in added} \subseteq Nat
      BY <2>2, TimesAreFinite
    <3>2. PICK x \in added : TRUE
      BY <1>2
    <3>3. x.starts \in {y.starts : y \in added}
      BY <3>2
    <3>4. QED
      BY <3>1, <3>3
  <2>4. Min({x.starts : x \in added}) \in {x.starts : x \in added}
    BY <2>3, MinIsLeast
  <2>5. StartsAt(m, a) = Min({x.starts : x \in added})
    BY <2>1 DEF StartsAt
  <2>6. QED
    BY <1>2, <2>2, <2>4, <2>5 DEF IsItems
<1>10. QED
  BY <1>0, <1>4, <1>7, <1>8, <1>9

\* While an attempt runs only those hold that run, and they leave it room;
\* before and after that nothing is held that was not.
LEMMA ActivateKeeps ==
    ASSUME NEW l, LedgerOK(l), NEW a \in AttemptKey, NEW amount \in Nat \ {0},
           NEW starts \in Nat, NEW releases \in Nat, MayActivate(l, a, amount, starts, releases),
           \A x \in l.executing : x.starts <= starts
    PROVE  LET m == Activate(l, a, amount, starts, releases)
           IN  /\ LedgerOK(m)
               /\ m.executing = l.executing \cup {Reservation(a, Width(amount), starts, releases)}
               /\ m.active \subseteq l.active /\ \A x \in m.active : x.attempt # a
               /\ m.reserved = IF Holds(l.active, a) THEN l.reserved ELSE WithDebt(l.reserved, a, amount)
<1>0. PICK m, x, w : /\ m = Activate(l, a, amount, starts, releases)
                     /\ w = Width(amount) /\ x = Reservation(a, w, starts, releases)
  OBVIOUS
<1> DEFINE planned == {y \in l.active : y.attempt # a}
           gone    == {y.attempt : y \in {z \in planned : Overlaps(z, starts, releases)}}
           debts   == IF Holds(l.active, a) THEN l.reserved ELSE WithDebt(l.reserved, a, amount)
<1>1. /\ m.active = {y \in planned : y.attempt \notin gone}
      /\ m.executing = l.executing \cup {x}
      /\ m.reserved = debts
      /\ m = [active |-> m.active, executing |-> m.executing, reserved |-> m.reserved]
  BY <1>0 DEF Activate
<1>2. /\ Temporal(l) \subseteq Items /\ IsItems(Temporal(l)) /\ IsItems(l.executing)
      /\ l = [active |-> l.active, executing |-> l.executing, reserved |-> l.reserved]
      /\ DOMAIN l.reserved \subseteq AttemptKey
      /\ \A b \in DOMAIN l.reserved : l.reserved[b] \in Nat
  BY LedgerItems
<1>3. w \in 1..Capacity /\ w \in Nat
  BY <1>0, WidthIsPositive, CapacityAssumption
<1>4. x = [attempt |-> a, credits |-> w, starts |-> starts, releases |-> releases] /\ x \in Items
  BY <1>0, <1>3 DEF Reservation, Items
<1>5. /\ l.active \subseteq Items /\ l.executing \subseteq Items
      /\ IsFiniteSet(l.active) /\ IsFiniteSet(l.executing)
  BY DEF LedgerOK
<1>6. m.active \subseteq l.active /\ \A y \in m.active : y.attempt # a /\ ~Overlaps(y, starts, releases)
  <2>1. ASSUME NEW y \in m.active PROVE y \in l.active /\ y.attempt # a /\ ~Overlaps(y, starts, releases)
    <3>1. y \in planned /\ y.attempt \notin gone
      BY <1>1
    <3>2. QED
      BY <3>1
  <2>2. QED
    BY <2>1
<1>7. m.reserved \in UNION {[keys -> Nat] : keys \in SUBSET AttemptKey}
  <2>1. CASE Holds(l.active, a)
    BY <1>1, <2>1 DEF LedgerOK
  <2>2. CASE ~Holds(l.active, a)
    <3>1. WithDebt(l.reserved, a, amount) \in UNION {[keys -> Nat] : keys \in SUBSET AttemptKey}
      BY <1>2, DebtIsCounted
    <3>2. QED
      BY <1>1, <2>2, <3>1
  <2>3. QED
    BY <2>1, <2>2
<1>8. /\ IsFiniteSet(m.active) /\ IsFiniteSet(m.executing)
      /\ m.active \subseteq Items /\ m.executing \subseteq Items
  <2>1. IsFiniteSet({x})
    BY FS_Singleton
  <2>2. IsFiniteSet(m.active) /\ IsFiniteSet(m.executing)
    BY <1>1, <1>5, <1>6, <2>1, FS_Subset, FS_Union
  <2>3. QED
    BY <1>1, <1>4, <1>5, <1>6, <2>2
<1>9. x \notin l.executing
  BY <1>4 DEF MayActivate, Holds
<1>10. Temporal(m) \subseteq Temporal(l) \cup {x}
  BY <1>1, <1>6 DEF Temporal
<1>11. Held(l.executing, starts) + w <= Capacity
  <2>1. starts \in Breakpoints(l.executing, starts, releases)
    BY DEF Breakpoints
  <2>2. QED
    BY <1>0, <2>1 DEF MayActivate
<1>12. ASSUME NEW t \in Nat PROVE Held(Temporal(m), t) <= Capacity
  <2>1. IsItems(Temporal(m)) /\ Held(Temporal(m), t) \in Nat
    <3>1. IsFiniteSet(Temporal(m)) /\ Temporal(m) \subseteq Items
      BY <1>8, FS_Union DEF Temporal
    <3>2. IsItems(Temporal(m))
      BY <3>1, CapacityAssumption DEF IsItems, Items
    <3>3. QED
      BY <3>2, HeldIsCounted
  <2>2. CASE starts <= t /\ t < releases
    <3>1. At(Temporal(m), t) \subseteq At(l.executing \cup {x}, t)
      <4>1. ASSUME NEW y \in At(Temporal(m), t) PROVE y \notin m.active
        <5>1. y.starts <= t /\ t < y.releases /\ y \in Items
          BY <1>8 DEF At, Temporal
        <5>2. y.starts \in Nat /\ y.releases \in Nat
          BY <5>1 DEF Items
        <5>3. Overlaps(y, starts, releases)
          BY <2>2, <5>1, <5>2 DEF Overlaps
        <5>4. QED
          BY <1>6, <5>3
      <4>2. Temporal(m) \subseteq m.active \cup (l.executing \cup {x})
        BY <1>1 DEF Temporal
      <4>3. ASSUME NEW y \in At(Temporal(m), t) PROVE y \in At(l.executing \cup {x}, t)
        <5>1. y \in Temporal(m) /\ y.starts <= t /\ t < y.releases
          BY DEF At
        <5>2. y \in l.executing \cup {x}
          BY <4>1, <4>2, <5>1
        <5>3. QED
          BY <5>1, <5>2 DEF At
      <4>4. QED
        BY <4>3
    <3>2. IsItems({x})
      <4>1. x.credits \in Nat /\ x.starts \in Nat /\ x.releases \in Nat
        BY <1>3, <1>4
      <4>2. QED
        BY <4>1, FS_Singleton DEF IsItems
    <3>3. Held(Temporal(m), t) <= Held(l.executing \cup {x}, t)
      <4>1. IsItems(l.executing \cup {x})
        BY <1>2, <3>2, MoreItems
      <4>2. QED
        BY <3>1, <4>1, HeldGrows
    <3>4. Held(l.executing \cup {x}, t) = Held(l.executing, t) + w
      <4>1. x.credits = w /\ x.starts = starts /\ x.releases = releases
        BY <1>4
      <4>2. QED
        BY <1>2, <1>3, <1>9, <2>2, <4>1, HeldWithOne
    <3>5. At(l.executing, t) \subseteq At(l.executing, starts)
      <4>1. ASSUME NEW y \in At(l.executing, t) PROVE y.starts <= starts /\ starts < y.releases
        <5>1. y \in l.executing /\ t < y.releases /\ y.releases \in Nat
          BY <1>2 DEF At, IsItems
        <5>2. QED
          BY <2>2, <5>1
      <4>2. QED
        BY <4>1 DEF At
    <3>6. Held(l.executing, t) <= Held(l.executing, starts)
      BY <1>2, <3>5, HeldGrows
    <3>7. Held(l.executing, t) \in Nat /\ Held(l.executing, starts) \in Nat
      BY <1>2, HeldIsCounted
    <3>8. QED
      BY <1>3, <1>11, <2>1, <3>3, <3>4, <3>6, <3>7, CapacityAssumption
  <2>3. CASE ~(starts <= t /\ t < releases)
    <3>1. At(Temporal(m), t) \subseteq At(Temporal(l), t)
      <4>1. ~(x.starts <= t /\ t < x.releases)
        BY <1>4, <2>3
      <4>2. QED
        BY <1>10, <4>1 DEF At
    <3>2. Held(Temporal(m), t) <= Held(Temporal(l), t)
      BY <1>2, <3>1, HeldGrows
    <3>3. Held(Temporal(l), t) <= Capacity /\ Held(Temporal(l), t) \in Nat
      BY <1>2, HeldIsCounted DEF LedgerOK
    <3>4. QED
      BY <2>1, <3>2, <3>3, CapacityAssumption
  <2>4. QED
    BY <2>2, <2>3
<1>13. LedgerOK(m)
  <2>1. m \in [active: SUBSET Items, executing: SUBSET Items,
               reserved: UNION {[keys -> Nat] : keys \in SUBSET AttemptKey}]
    BY <1>1, <1>7, <1>8
  <2>2. QED
    BY <1>8, <1>12, <2>1 DEF LedgerOK
<1>14. QED
  BY <1>0, <1>1, <1>6, <1>13

LEMMA SettleKeeps ==
    ASSUME NEW l, LedgerOK(l), NEW a
    PROVE  LET m == Settle(l, a)
           IN  /\ LedgerOK(m)
               /\ m.executing = {x \in l.executing : x.attempt # a}
               /\ m.active = {x \in l.active : x.attempt # a}
               /\ m.reserved = [b \in DOMAIN l.reserved \ {a} |-> l.reserved[b]]
<1>0. PICK m : m = Settle(l, a)
  OBVIOUS
<1>1. /\ m.active = {x \in l.active : x.attempt # a}
      /\ m.executing = {x \in l.executing : x.attempt # a}
      /\ m.reserved = [b \in DOMAIN l.reserved \ {a} |-> l.reserved[b]]
      /\ m = [active |-> m.active, executing |-> m.executing, reserved |-> m.reserved]
  BY <1>0 DEF Settle
<1>2. /\ IsItems(Temporal(l)) /\ DOMAIN l.reserved \subseteq AttemptKey
      /\ \A b \in DOMAIN l.reserved : l.reserved[b] \in Nat
  BY LedgerItems
<1>3. /\ l.active \subseteq Items /\ l.executing \subseteq Items
      /\ IsFiniteSet(l.active) /\ IsFiniteSet(l.executing)
  BY DEF LedgerOK
<1>4. /\ m.active \subseteq Items /\ m.executing \subseteq Items
      /\ IsFiniteSet(m.active) /\ IsFiniteSet(m.executing)
  BY <1>1, <1>3, FS_Subset
<1>5. m.reserved \in UNION {[keys -> Nat] : keys \in SUBSET AttemptKey}
  <2>1. m.reserved \in [DOMAIN l.reserved \ {a} -> Nat]
    BY <1>1, <1>2
  <2>2. DOMAIN l.reserved \ {a} \in SUBSET AttemptKey
    BY <1>2
  <2>3. QED
    BY <2>1, <2>2
<1>6. ASSUME NEW t \in Nat PROVE Held(Temporal(m), t) <= Capacity
  <2>1. At(Temporal(m), t) \subseteq At(Temporal(l), t) /\ Temporal(m) \subseteq Temporal(l)
    BY <1>1 DEF At, Temporal
  <2>2. Held(Temporal(m), t) <= Held(Temporal(l), t)
    BY <1>2, <2>1, HeldGrows
  <2>3. Held(Temporal(l), t) \in Nat /\ Held(Temporal(l), t) <= Capacity
    BY <1>2, HeldIsCounted DEF LedgerOK
  <2>4. Held(Temporal(m), t) \in Nat
    BY <1>2, <2>1, SomeItems, HeldIsCounted
  <2>5. QED
    BY <2>2, <2>3, <2>4, CapacityAssumption
<1>7. m \in [active: SUBSET Items, executing: SUBSET Items,
             reserved: UNION {[keys -> Nat] : keys \in SUBSET AttemptKey}]
  BY <1>1, <1>4, <1>5
<1>8. QED
  BY <1>0, <1>1, <1>4, <1>6, <1>7 DEF LedgerOK

\* A decode that fits now may start now: those that run have started already.
LEMMA AvailableAdmits ==
    ASSUME NEW l, LedgerOK(l), NEW a, NEW amount \in Nat \ {0}, NEW time \in Nat, NEW releases,
           AvailableAt(l, amount, time, a) <= time, ~Holds(l.executing, a),
           \A x \in l.executing : x.starts <= time
    PROVE  MayActivate(l, a, amount, time, releases)
<1> DEFINE others == {x \in Temporal(l) : x.attempt # a}
<1>1. IsItems(Temporal(l)) /\ IsItems(l.executing) /\ IsItems(others)
  BY LedgerItems, SomeItems
<1>2. PICK found : found = AvailableAt(l, amount, time, a)
  OBVIOUS
<1>3. found \in Nat /\ time <= found /\ Fits(others, Width(amount), found)
  BY <1>1, <1>2, AvailableIsFree
<1>4. found = time
  BY <1>2, <1>3
<1>5. Width(amount) \in Nat
  BY WidthIsPositive, CapacityAssumption
<1>6. Held(others, time) + Width(amount) <= Capacity
  BY <1>3, <1>4 DEF Fits, Breakpoints
<1>7. At(l.executing, time) \subseteq At(others, time)
  BY DEF At, Temporal, Holds
<1>8. Held(l.executing, time) <= Held(others, time)
  BY <1>1, <1>7, HeldGrows
<1>9. Held(l.executing, time) \in Nat /\ Held(others, time) \in Nat
  BY <1>1, HeldIsCounted
<1>10. ASSUME NEW t \in Breakpoints(l.executing, time, releases) PROVE t = time
  BY <1>1 DEF Breakpoints, IsItems
<1>11. Held(l.executing, time) + Width(amount) <= Capacity
  BY <1>5, <1>6, <1>8, <1>9, CapacityAssumption
<1>12. QED
  BY <1>10, <1>11 DEF MayActivate
-----------------------------------------------------------------------------
(* What the kernel's steps do to what the policy looks at.                  *)

Sleepy(q) == {x \in q : x.kind = "DECODE_START"}

LEMMA SleepersAre == /\ Sleepers = {e.attempt : e \in Sleepy(queue)}
                     /\ Sleepers' = {e.attempt : e \in Sleepy(queue')}
BY DEF Sleepers, Sleepy

LEMMA SleepersAreAttempts == ASSUME KernelInv PROVE Sleepers \subseteq DOMAIN attempts
BY DEF KernelInv, LifeInv, EventFits, Sleepers

\* No attempt is planned, started or settled, nobody falls asleep and nobody
\* but those who run is taken off the heap.
Quiet ==
    /\ DOMAIN attempts' = DOMAIN attempts /\ done' = done /\ workload' = workload
    /\ now <= now' /\ now' \in Nat
    /\ \A b \in DOMAIN attempts : /\ attempts'[b].plan = attempts[b].plan
                                  /\ attempts'[b].decodeStart = attempts[b].decodeStart
    /\ Sleepers' \subseteq Sleepers
    /\ \A b \in Sleepers : b \in Sleepers' \/ Started(b)

LEMMA ReadyIsQuiet ==
    ASSUME KernelInv, NEW e \in queue, AttemptReady(e)
    PROVE  Quiet /\ \A b \in DOMAIN attempts : attempts'[b].terminal = attempts[b].terminal
<1>0. PICK a, r : a = e.attempt /\ r = e.at
  OBVIOUS
<1>1. now' = e.at /\ now' \in 0..End /\ now <= now' /\ e.kind = "ATTEMPT_READY"
  BY PopsForward DEF KernelInv, AttemptReady
<1>2. attempts' = [attempts EXCEPT ![a].ready = r] /\ done' = done /\ workload' = workload
  BY <1>0 DEF AttemptReady
<1>3. a \in DOMAIN attempts /\ attempts[a] \in AttemptRecord
  BY <1>0, <1>1 DEF KernelInv, LifeInv, EventFits, KernelTypeOK
<1>4. PICK start : /\ start.kind = "PREFILL_START"
                   /\ \/ queue' = (queue \ {e}) \cup {}
                      \/ queue' = (queue \ {e}) \cup {start}
  <2>1. ASSUME NEW b PROVE Event("PREFILL_START", e.at, serial, b).kind = "PREFILL_START"
    BY DEF Event
  <2>2. QED
    BY <2>1 DEF AttemptReady
<1>5. Sleepy(queue') = Sleepy(queue)
  BY <1>1, <1>4 DEF Sleepy
<1>6. Sleepers' = Sleepers
  BY <1>5, SleepersAre
<1>7. ASSUME NEW b \in DOMAIN attempts
      PROVE  /\ attempts'[b].plan = attempts[b].plan
             /\ attempts'[b].decodeStart = attempts[b].decodeStart
             /\ attempts'[b].terminal = attempts[b].terminal
  BY <1>2, <1>3 DEF AttemptRecord
<1>8. DOMAIN attempts' = DOMAIN attempts
  BY <1>2
<1>9. QED
  BY <1>1, <1>2, <1>6, <1>7, <1>8, KernelAssumption DEF Quiet

LEMMA PrefillStartIsQuiet ==
    ASSUME KernelInv, NEW e \in queue, PrefillStart(e)
    PROVE  Quiet /\ \A b \in DOMAIN attempts : attempts'[b].terminal = attempts[b].terminal
<1>0. PICK a, r, work, kvs :
           /\ a = e.attempt /\ r = e.at
           /\ work = PrefillCost * Tokens(ToSet(PrefixOf(a)) \ Covered(a))
           /\ kvs = KvsCost * Tokens(Covered(a) \ cache[attempts[a].plan.p])
  OBVIOUS
<1>1. now' = e.at /\ now' \in 0..End /\ now <= now' /\ e.kind = "PREFILL_START"
  BY PopsForward DEF KernelInv, PrefillStart
<1>2. /\ attempts' = [attempts EXCEPT ![a] =
            [@ EXCEPT !.prefillStart = r, !.prefillWork = work, !.kvsWork = kvs,
                      !.prefillFinish = r + work + kvs]]
      /\ done' = done /\ workload' = workload
      /\ queue' = (queue \ {e}) \cup {Event("PREFILL_FINISH", r + work + kvs, serial, a)}
  BY <1>0 DEF PrefillStart
<1>3. a \in DOMAIN attempts /\ attempts[a] \in AttemptRecord
  BY <1>0, <1>1 DEF KernelInv, LifeInv, EventFits, KernelTypeOK
<1>4. Sleepy(queue') = Sleepy(queue)
  <2>1. Event("PREFILL_FINISH", r + work + kvs, serial, a).kind = "PREFILL_FINISH"
    BY DEF Event
  <2>2. QED
    BY <1>1, <1>2, <2>1 DEF Sleepy
<1>5. Sleepers' = Sleepers
  BY <1>4, SleepersAre
<1>6. ASSUME NEW b \in DOMAIN attempts
      PROVE  /\ attempts'[b].plan = attempts[b].plan
             /\ attempts'[b].decodeStart = attempts[b].decodeStart
             /\ attempts'[b].terminal = attempts[b].terminal
  BY <1>2, <1>3 DEF AttemptRecord
<1>7. DOMAIN attempts' = DOMAIN attempts
  BY <1>2
<1>8. QED
  BY <1>1, <1>2, <1>5, <1>6, <1>7, KernelAssumption DEF Quiet

LEMMA StaleIsQuiet ==
    ASSUME KernelInv, NEW e \in queue, StaleDecodeStart(e)
    PROVE  Quiet /\ \A b \in DOMAIN attempts : attempts'[b].terminal = attempts[b].terminal
<1>1. now' = e.at /\ now' \in 0..End /\ now <= now' /\ e.kind = "DECODE_START"
  BY PopsForward DEF KernelInv, StaleDecodeStart
<1>2. /\ UNCHANGED <<workload, attempts, done>> /\ queue' = queue \ {e} /\ Started(e.attempt)
  BY DEF StaleDecodeStart, Stale, Started
<1>3. Sleepy(queue') = Sleepy(queue) \ {e}
  BY <1>2 DEF Sleepy
<1>4. Sleepers' \subseteq Sleepers
  BY <1>3, SleepersAre
<1>5. ASSUME NEW b \in Sleepers PROVE b \in Sleepers' \/ Started(b)
  <2>1. PICK f \in Sleepy(queue) : b = f.attempt
    BY SleepersAre
  <2>2. CASE f = e
    BY <1>2, <2>1, <2>2
  <2>3. CASE f # e
    BY <1>3, <2>1, <2>3, SleepersAre
  <2>4. QED
    BY <2>2, <2>3
<1>6. QED
  BY <1>1, <1>2, <1>4, <1>5, KernelAssumption DEF Quiet

LEMMA LeaseBoundaryIsQuiet ==
    ASSUME KernelInv, NEW e \in queue, NEW aborts \in BOOLEAN, LeaseBoundary(e, aborts)
    PROVE  /\ Quiet
           /\ \A b \in DOMAIN attempts :
                 \/ attempts'[b].terminal = attempts[b].terminal
                 \/ aborts /\ b = e.attempt /\ attempts'[b].terminal = "ABORTED"
           /\ e.attempt \in DOMAIN attempts /\ e.attempt \notin done
<1>0. PICK a, r : a = e.attempt /\ r = e.at
  OBVIOUS
<1>1. now' = e.at /\ now' \in 0..End /\ now <= now' /\ e.kind = "LEASE_BOUNDARY"
  BY PopsForward DEF KernelInv, LeaseBoundary
<1>2. a \in DOMAIN attempts /\ attempts[a] \in AttemptRecord /\ a \notin done
  BY <1>0, <1>1 DEF KernelInv, LifeInv, EventFits, KernelTypeOK
<1>3. PICK d, woken : d = attempts[a].plan.d /\ woken = GatedOn(d, r)
  OBVIOUS
<1>4. PICK wakes, last :
         /\ wakes = {Event("DECODE_START", r,
                         serial + Cardinality({c \in woken : LexBefore(c, b)}), b) : b \in woken}
         /\ last = Event("COMPLETION", r, serial + Cardinality(woken), a)
  OBVIOUS
<1>5. /\ done' = done /\ workload' = workload
      /\ \/ /\ aborts
            /\ attempts' = [attempts EXCEPT ![a] =
                  [@ EXCEPT !.emitted = r - attempts[a].decodeStart, !.terminal = "ABORTED",
                            !.finish = r]]
            /\ queue' = (queue \ {e}) \cup wakes \cup {last}
         \/ /\ attempts' = attempts
            /\ queue' = (queue \ {e}) \cup {Event("COMPLETION", attempts[a].finish, serial, a)}
  BY <1>0, <1>3, <1>4 DEF LeaseBoundary
<1>6. ASSUME NEW b \in woken PROVE b \in Sleepers
  <2>1. b \in GatedOn(d, r)
    BY <1>3
  <2>2. PICK f \in queue : f.kind = "DECODE_START" /\ f.attempt = b
    BY <2>1 DEF GatedOn
  <2>3. QED
    BY <2>2 DEF Sleepers
<1>7. ASSUME NEW x \in wakes PROVE x.attempt \in woken
  <2>1. PICK b \in woken :
           x = Event("DECODE_START", r, serial + Cardinality({c \in woken : LexBefore(c, b)}), b)
    BY <1>4
  <2>2. x.attempt = b
    BY <2>1 DEF Event
  <2>3. QED
    BY <2>2
<1>8. Sleepers' = Sleepers
  <2>1. last.kind = "COMPLETION" /\ Event("COMPLETION", attempts[a].finish, serial, a).kind = "COMPLETION"
    BY <1>4 DEF Event
  <2>2. Sleepy(queue) \subseteq Sleepy(queue')
    BY <1>1, <1>5 DEF Sleepy
  <2>3. Sleepy(queue') \subseteq Sleepy(queue) \cup wakes
    BY <1>5, <2>1 DEF Sleepy
  <2>4. QED
    BY <1>6, <1>7, <2>2, <2>3, SleepersAre
<1>9. ASSUME NEW b \in DOMAIN attempts
      PROVE  /\ attempts'[b].plan = attempts[b].plan
             /\ attempts'[b].decodeStart = attempts[b].decodeStart
             /\ \/ attempts'[b].terminal = attempts[b].terminal
                \/ aborts /\ b = a /\ attempts'[b].terminal = "ABORTED"
  <2>1. CASE attempts' = attempts
    BY <2>1
  <2>2. CASE /\ aborts
             /\ attempts' = [attempts EXCEPT ![a] =
                   [@ EXCEPT !.emitted = r - attempts[a].decodeStart, !.terminal = "ABORTED",
                             !.finish = r]]
    <3>1. PICK ran : ran = r - attempts[a].decodeStart
      OBVIOUS
    <3>2. attempts' = [attempts EXCEPT ![a] =
             [@ EXCEPT !.emitted = ran, !.terminal = "ABORTED", !.finish = r]]
      BY <2>2, <3>1
    <3>3. QED
      BY <1>2, <2>2, <3>2 DEF AttemptRecord
  <2>3. QED
    BY <1>5, <2>1, <2>2
<1>10. DOMAIN attempts' = DOMAIN attempts
  BY <1>5
<1>11. QED
  BY <1>0, <1>1, <1>2, <1>5, <1>8, <1>9, <1>10, KernelAssumption DEF Quiet

\* An attempt is planned: nothing else changes.
Plans1(a, plan) ==
    /\ a \notin DOMAIN attempts /\ a \in AttemptKey
    /\ DOMAIN attempts' = DOMAIN attempts \cup {a}
    /\ \A b \in DOMAIN attempts : attempts'[b] = attempts[b]
    /\ attempts'[a].plan = plan /\ attempts'[a].decodeStart = None
    /\ attempts'[a].terminal = IF plan.fails THEN "FAILED" ELSE "COMPLETED"

LEMMA IssueTells ==
    ASSUME NEW a \in AttemptKey, NEW plan, NEW others, Issue(a, plan, others)
    PROVE  Plans1(a, plan) /\ Sleepy(queue') = Sleepy(others)
<1>1. /\ a \notin DOMAIN attempts
      /\ attempts' = [b \in DOMAIN attempts \cup {a} |->
                        IF b = a THEN Attempt(a, plan) ELSE attempts[b]]
      /\ queue' = others \cup {Event("ATTEMPT_READY", now' + plan.delay, serial, a)}
  BY DEF Issue
<1>2. /\ Attempt(a, plan).plan = plan /\ Attempt(a, plan).decodeStart = None
      /\ Attempt(a, plan).terminal = IF plan.fails THEN "FAILED" ELSE "COMPLETED"
  BY DEF Attempt
<1>3. Plans1(a, plan)
  BY <1>1, <1>2 DEF Plans1
<1>4. Event("ATTEMPT_READY", now' + plan.delay, serial, a).kind = "ATTEMPT_READY"
  BY DEF Event
<1>5. QED
  BY <1>1, <1>3, <1>4 DEF Sleepy

LEMMA ArrivalTells ==
    ASSUME KernelInv, NEW e \in queue, NEW plan, Arrival(e, <<plan>>)
    PROVE  /\ Plans1(e.attempt, plan) /\ Sleepers' = Sleepers /\ done' = done
           /\ workload' = workload /\ now <= now' /\ now' \in Nat
<1>1. /\ now' = e.at /\ now' \in 0..End /\ now <= now' /\ e.kind = "ARRIVAL"
      /\ e.attempt \in AttemptKey
  BY PopsForward DEF KernelInv, Arrival, KernelTypeOK
<1>2. Issue(e.attempt, plan, queue \ {e}) /\ UNCHANGED <<workload, done>>
  BY DEF Arrival
<1>3. Plans1(e.attempt, plan) /\ Sleepy(queue') = Sleepy(queue \ {e})
  BY <1>1, <1>2, IssueTells
<1>4. Sleepy(queue \ {e}) = Sleepy(queue)
  BY <1>1 DEF Sleepy
<1>5. QED
  BY <1>1, <1>2, <1>3, <1>4, SleepersAre, KernelAssumption

\* An attempt that ran is settled, and another may be planned after it.
LEMMA CompletionTells ==
    ASSUME KernelInv, NEW e \in queue, NEW admit, NEW evict, NEW plans,
           Completion(e, admit, evict, plans)
    PROVE  LET a     == e.attempt
               retry == <<a[1], a[2] + 1>>
           IN  /\ a \in DOMAIN attempts /\ Started(a) /\ a \notin done /\ a \in AttemptKey
               /\ done' = done \cup {a} /\ Sleepers' = Sleepers
               /\ workload' = workload /\ now <= now' /\ now' \in Nat
               /\ plans = <<>> => attempts' = attempts
               /\ plans # <<>> => Plans1(retry, plans[1])
<1>0. PICK a, retry : a = e.attempt /\ retry = <<a[1], a[2] + 1>>
  OBVIOUS
<1>1. now' = e.at /\ now' \in 0..End /\ now <= now' /\ e.kind = "COMPLETION"
  BY PopsForward DEF KernelInv, Completion
<1>2. a \in DOMAIN attempts /\ Started(a) /\ a \notin done /\ a \in AttemptKey
  BY <1>0, <1>1 DEF KernelInv, LifeInv, EventFits, Started, KernelTypeOK
<1>3. /\ done' = done \cup {a} /\ workload' = workload
      /\ plans = <<>> => queue' = queue \ {e} /\ attempts' = attempts
      /\ plans # <<>> => a[2] < RetryBudget /\ Issue(retry, plans[1], queue \ {e})
  BY <1>0 DEF Completion
<1>4. Sleepy(queue \ {e}) = Sleepy(queue)
  BY <1>1 DEF Sleepy
<1>5. CASE plans = <<>>
  <2>1. queue' = queue \ {e} /\ attempts' = attempts
    BY <1>3, <1>5
  <2>2. Sleepy(queue') = Sleepy(queue)
    BY <1>4, <2>1
  <2>3. Sleepers' = Sleepers
    BY <2>2, SleepersAre
  <2>4. now' \in Nat
    BY <1>1, KernelAssumption
  <2>5. QED
    BY <1>0, <1>1, <1>2, <1>3, <1>5, <2>1, <2>3, <2>4
<1>6. CASE plans # <<>>
  <2>1. retry \in AttemptKey
    <3>1. a[1] \in 1..Len(workload) /\ a[2] \in 0..RetryBudget /\ a[2] < RetryBudget
      BY <1>2, <1>3, <1>6 DEF AttemptKey
    <3>2. a[2] + 1 \in 0..RetryBudget
      BY <3>1, KernelAssumption
    <3>3. QED
      BY <1>0, <3>1, <3>2 DEF AttemptKey
  <2>2. Plans1(retry, plans[1]) /\ Sleepy(queue') = Sleepy(queue \ {e})
    BY <1>3, <1>6, <2>1, IssueTells
  <2>3. QED
    BY <1>0, <1>1, <1>2, <1>3, <1>4, <1>6, <2>2, SleepersAre, KernelAssumption
<1>7. QED
  BY <1>5, <1>6

\* A decode is looked at: it starts, or it sleeps on.
LEMMA LookTells ==
    ASSUME KernelInv, NEW e \in queue, NEW fence, NEW lease,
           PrefillFinish(e, fence, lease) \/ DecodeStart(e, fence, lease)
    PROVE  LET a == e.attempt
           IN  /\ a \in DOMAIN attempts /\ ~Started(a) /\ a \notin done /\ a \in AttemptKey
               /\ now' = e.at
               /\ DOMAIN attempts' = DOMAIN attempts /\ done' = done
               /\ workload' = workload /\ now <= now' /\ now' \in Nat
               /\ \A b \in DOMAIN attempts : /\ attempts'[b].plan = attempts[b].plan
                                             /\ attempts'[b].terminal = attempts[b].terminal
                                             /\ b # a => attempts'[b] = attempts[b]
               /\ Admissible(a, fence) => /\ attempts'[a].decodeStart = now'
                                          /\ Sleepers' \subseteq Sleepers
                                          /\ Sleepers \ {a} \subseteq Sleepers'
               /\ ~Admissible(a, fence) => /\ attempts'[a].decodeStart = None
                                           /\ Sleepers' = Sleepers \cup {a}
<1>0. PICK a : a = e.attempt
  OBVIOUS
<1>1. PICK others, seq :
         /\ UNCHANGED <<workload, done>>
         /\ IF Admissible(a, fence) THEN Decodes(a, fence, lease, others, seq)
                                    ELSE Gated(a, fence, others, seq)
         /\ now' = e.at /\ now' \in 0..End /\ now <= now'
         /\ e.kind \in {"PREFILL_FINISH", "DECODE_START"}
         /\ e.kind = "DECODE_START" => ~Started(a)
         /\ Sleepy(others) = Sleepy(queue) \ {e}
  <2>1. CASE PrefillFinish(e, fence, lease)
    <3>1. PICK next, starts :
             /\ next = NextInLine(attempts[a].plan.p)
             /\ starts = {Event("PREFILL_START", Max({e.at, w.at}), serial, w.attempt) : w \in next}
      OBVIOUS
    <3>2. PICK others, seq : others = (queue \ {e}) \cup starts /\ seq = serial + Cardinality(starts)
      OBVIOUS
    <3>3. /\ UNCHANGED <<workload, done>>
          /\ IF Admissible(a, fence) THEN Decodes(a, fence, lease, others, seq)
                                     ELSE Gated(a, fence, others, seq)
      BY <1>0, <2>1, <3>1, <3>2 DEF PrefillFinish
    <3>4. now' = e.at /\ now' \in 0..End /\ now <= now' /\ e.kind = "PREFILL_FINISH"
      BY <2>1, PopsForward DEF KernelInv, PrefillFinish
    <3>5. ASSUME NEW x \in starts PROVE x.kind = "PREFILL_START"
      <4>1. PICK w \in next : x = Event("PREFILL_START", Max({e.at, w.at}), serial, w.attempt)
        BY <3>1
      <4>2. QED
        BY <4>1 DEF Event
    <3>6. Sleepy(others) = Sleepy(queue) \ {e}
      BY <3>2, <3>5 DEF Sleepy
    <3>7. QED
      BY <3>3, <3>4, <3>6
  <2>2. CASE DecodeStart(e, fence, lease)
    <3>1. /\ UNCHANGED <<workload, done>> /\ ~Started(a)
          /\ IF Admissible(a, fence) THEN Decodes(a, fence, lease, queue \ {e}, serial)
                                     ELSE Gated(a, fence, queue \ {e}, serial)
      BY <1>0, <2>2 DEF DecodeStart, Stale, Started
    <3>2. now' = e.at /\ now' \in 0..End /\ now <= now' /\ e.kind = "DECODE_START"
      BY <2>2, PopsForward DEF KernelInv, DecodeStart
    <3>3. Sleepy(queue \ {e}) = Sleepy(queue) \ {e}
      BY DEF Sleepy
    <3>4. QED
      BY <3>1, <3>2, <3>3
  <2>3. QED
    BY <2>1, <2>2
<1>2. a \in DOMAIN attempts /\ ~Started(a) /\ a \in AttemptKey /\ attempts[a] \in AttemptRecord
  <2>1. a \in DOMAIN attempts
    BY <1>0, <1>1 DEF KernelInv, LifeInv, EventFits
  <2>2. ~Started(a)
    BY <1>0, <1>1 DEF KernelInv, LifeInv, EventFits, Started
  <2>3. QED
    BY <2>1, <2>2 DEF KernelInv, KernelTypeOK
<1>3. a \notin done
  BY <1>2 DEF KernelInv, LifeInv, AttemptShape, Started
<1>4. Sleepers \ {a} \subseteq {x.attempt : x \in Sleepy(others)}
  BY <1>0, <1>1, SleepersAre
<1>5. {x.attempt : x \in Sleepy(others)} \subseteq Sleepers
  BY <1>1, SleepersAre
<1>6. CASE Admissible(a, fence)
  <2>1. PICK finish, next : /\ attempts' = [attempts EXCEPT ![a] =
                                  [@ EXCEPT !.decodeStart = now', !.finish = finish, !.fence = fence]]
                            /\ queue' = others \cup {next} /\ next.kind # "DECODE_START"
    <3>1. PICK finish : finish = now' + attempts[a].emitted
      OBVIOUS
    <3>2. attempts' = [attempts EXCEPT ![a] =
             [@ EXCEPT !.decodeStart = now', !.finish = finish, !.fence = fence]]
      BY <1>1, <1>6, <3>1 DEF Decodes
    <3>3. PICK next : /\ queue' = others \cup {next}
                      /\ next = IF lease = None THEN Event("COMPLETION", finish, seq, a)
                                ELSE Event("LEASE_BOUNDARY", now' + lease, seq, a)
      BY <1>1, <1>6, <3>1 DEF Decodes
    <3>4. next.kind # "DECODE_START"
      BY <3>3 DEF Event
    <3>5. QED
      BY <3>2, <3>3, <3>4, Zenon
  <2>2. Sleepy(queue') = Sleepy(others)
    BY <2>1 DEF Sleepy
  <2>3. ASSUME NEW b \in DOMAIN attempts
        PROVE  /\ attempts'[b].plan = attempts[b].plan
               /\ attempts'[b].terminal = attempts[b].terminal
               /\ b # a => attempts'[b] = attempts[b]
    BY <1>2, <2>1 DEF AttemptRecord
  <2>4. attempts'[a].decodeStart = now' /\ DOMAIN attempts' = DOMAIN attempts
    BY <1>2, <2>1 DEF AttemptRecord
  <2>5. QED
    BY <1>0, <1>1, <1>2, <1>3, <1>4, <1>5, <1>6, <2>2, <2>3, <2>4, SleepersAre, KernelAssumption
<1>7. CASE ~Admissible(a, fence)
  <2>1. PICK wake : /\ attempts' = [attempts EXCEPT ![a].fence = fence]
                    /\ queue' = others \cup {wake} /\ wake.kind = "DECODE_START" /\ wake.attempt = a
    <3>1. PICK wake : wake = Event("DECODE_START",
                                Max({now', dAvailable[attempts[a].plan.d], fence}), seq, a)
      OBVIOUS
    <3>2. wake.kind = "DECODE_START" /\ wake.attempt = a
      BY <3>1 DEF Event
    <3>3. QED
      BY <1>1, <1>7, <3>1, <3>2 DEF Gated
  <2>2. Sleepy(queue') = Sleepy(others) \cup {wake}
    BY <2>1 DEF Sleepy
  <2>3. Sleepers' = Sleepers \cup {a}
    BY <1>4, <1>5, <2>1, <2>2, SleepersAre
  <2>4. ASSUME NEW b \in DOMAIN attempts
        PROVE  /\ attempts'[b].plan = attempts[b].plan
               /\ attempts'[b].terminal = attempts[b].terminal
               /\ attempts'[b].decodeStart = attempts[b].decodeStart
               /\ b # a => attempts'[b] = attempts[b]
    BY <1>2, <2>1 DEF AttemptRecord
  <2>5. attempts'[a].decodeStart = None /\ DOMAIN attempts' = DOMAIN attempts
    BY <1>2, <2>1, <2>4 DEF Started
  <2>6. QED
    BY <1>0, <1>1, <1>2, <1>3, <1>7, <2>3, <2>4, <2>5, KernelAssumption
<1>8. QED
  BY <1>6, <1>7
-----------------------------------------------------------------------------
(* A ledger that knows who runs, and who is owed what.                      *)

Agrees(l, running, owed, debts, known, time) ==
    /\ {x.attempt : x \in l.executing} = running
    /\ \A x \in l.executing : x.starts = known[x.attempt].decodeStart /\ x.starts <= time
    /\ {x.attempt : x \in l.active} \subseteq owed \ running
    /\ DOMAIN l.reserved = owed
    /\ \A a \in owed : l.reserved[a] = debts[a]

LEMMA MatchIsAgreement ==
    /\ MatchInv <=> Agrees(ledger, Running, Promised, credits, attempts, now)
    /\ MatchInv' <=> Agrees(ledger', Running', Promised', credits', attempts', now')
BY DEF MatchInv, Agrees

LEMMA AgreesLater ==
    ASSUME NEW l, LedgerOK(l), NEW running, NEW owed, NEW debts, NEW known, NEW time \in Int,
           Agrees(l, running, owed, debts, known, time),
           NEW debts2, \A a \in owed : debts2[a] = debts[a],
           NEW known2, \A a \in running : known2[a].decodeStart = known[a].decodeStart,
           NEW time2 \in Int, time <= time2
    PROVE  Agrees(l, running, owed, debts2, known2, time2)
<1>1. \A x \in l.executing : x.starts \in Nat
  BY DEF LedgerOK, Items
<1>2. \A x \in l.executing : x.starts = known2[x.attempt].decodeStart /\ x.starts <= time2
  BY <1>1 DEF Agrees
<1>3. QED
  BY <1>2 DEF Agrees

LEMMA NewcomersMayReserve ==
    ASSUME NEW l, NEW running, NEW owed, NEW debts, NEW known, NEW time,
           Agrees(l, running, owed, debts, known, time),
           NEW a, a \notin running, a \notin owed \/ ~Holds(l.active, a)
    PROVE  MayReserve(l, a)
<1>1. \A x \in l.executing : x.attempt \in running
  BY DEF Agrees
<1>2. \A x \in l.active : x.attempt \in owed
  BY DEF Agrees
<1>3. QED
  BY <1>1, <1>2 DEF MayReserve, Holds, Temporal

LEMMA ReserveAgrees ==
    ASSUME NEW l, LedgerOK(l), NEW running, NEW owed, NEW debts, NEW known, NEW time,
           Agrees(l, running, owed, debts, known, time),
           NEW a \in AttemptKey, a \notin running, MayReserve(l, a),
           debts[a] \in Nat \ {0}, NEW clock \in Nat
    PROVE  Agrees(Reserve(l, a, debts[a], clock), running, owed \cup {a}, debts, known, time)
<1>0. PICK amount : amount = debts[a]
  OBVIOUS
<1>1. PICK m : m = Reserve(l, a, amount, clock)
  OBVIOUS
<1>2. /\ m.executing = l.executing
      /\ m.reserved = WithDebt(l.reserved, a, amount)
      /\ {x.attempt : x \in m.active} = {x.attempt : x \in l.active} \cup {a}
  <2>1. amount \in Nat \ {0}
    BY <1>0
  <2>2. LET n == Reserve(l, a, amount, clock)
        IN  /\ LedgerOK(n)
            /\ n.executing = l.executing
            /\ n.reserved = WithDebt(l.reserved, a, amount)
            /\ {x.attempt : x \in n.active} = {x.attempt : x \in l.active} \cup {a}
            /\ StartsAt(n, a) \in Nat /\ clock <= StartsAt(n, a)
    BY <2>1, ReserveKeeps
  <2>3. QED
    BY <1>1, <2>2
<1>3. {x.attempt : x \in m.active} \subseteq (owed \cup {a}) \ running
  BY <1>2 DEF Agrees
<1>4. DOMAIN m.reserved = owed \cup {a} /\ \A b \in owed \cup {a} : m.reserved[b] = debts[b]
  BY <1>0, <1>2 DEF Agrees, WithDebt
<1>5. {x.attempt : x \in m.executing} = running
  BY <1>2 DEF Agrees
<1>6. \A x \in m.executing : x.starts = known[x.attempt].decodeStart /\ x.starts <= time
  BY <1>2 DEF Agrees
<1>7. QED
  BY <1>0, <1>1, <1>3, <1>4, <1>5, <1>6 DEF Agrees

LEMMA SettleAgrees ==
    ASSUME NEW l, LedgerOK(l), NEW running, NEW owed, NEW debts, NEW known, NEW time,
           Agrees(l, running, owed, debts, known, time), NEW a \in running
    PROVE  /\ MaySettle(l, a)
           /\ Agrees(Settle(l, a), running \ {a}, owed \ {a}, debts, known, time)
<1>1. PICK m : m = Settle(l, a)
  OBVIOUS
<1>2. /\ m.executing = {x \in l.executing : x.attempt # a}
      /\ m.active = {x \in l.active : x.attempt # a}
      /\ m.reserved = [b \in DOMAIN l.reserved \ {a} |-> l.reserved[b]]
  BY <1>1, SettleKeeps
<1>3. {x.attempt : x \in m.executing} = running \ {a}
  BY <1>2 DEF Agrees
<1>4. \A x \in m.executing : x.starts = known[x.attempt].decodeStart /\ x.starts <= time
  BY <1>2 DEF Agrees
<1>5. {x.attempt : x \in m.active} \subseteq (owed \ {a}) \ (running \ {a})
  BY <1>2 DEF Agrees
<1>6. DOMAIN m.reserved = owed \ {a} /\ \A b \in owed \ {a} : m.reserved[b] = debts[b]
  BY <1>2 DEF Agrees
<1>7. PICK x \in l.executing : x.attempt = a
  BY DEF Agrees
<1>8. MaySettle(l, a)
  BY <1>7 DEF MaySettle, Holds, Temporal
<1>9. QED
  BY <1>1, <1>3, <1>4, <1>5, <1>6, <1>8 DEF Agrees

LEMMA ActivateAgrees ==
    ASSUME NEW l, LedgerOK(l), NEW running, NEW owed, NEW debts, NEW known, NEW time \in Nat,
           Agrees(l, running, owed, debts, known, time),
           NEW a \in AttemptKey, a \notin running, debts[a] \in Nat \ {0},
           known[a].decodeStart = time, NEW releases \in Nat,
           MayActivate(l, a, debts[a], time, releases)
    PROVE  LET m == Activate(l, a, debts[a], time, releases)
           IN  LedgerOK(m) /\ Agrees(m, running \cup {a}, owed \cup {a}, debts, known, time)
<1>1. PICK m, w : m = Activate(l, a, debts[a], time, releases) /\ w = Width(debts[a])
  OBVIOUS
<1>2. \A x \in l.executing : x.starts <= time
  BY DEF Agrees
<1>3. /\ LedgerOK(m)
      /\ m.executing = l.executing \cup {Reservation(a, w, time, releases)}
      /\ m.active \subseteq l.active /\ \A x \in m.active : x.attempt # a
      /\ m.reserved = IF Holds(l.active, a) THEN l.reserved ELSE WithDebt(l.reserved, a, debts[a])
  BY <1>1, <1>2, ActivateKeeps
<1>4. PICK x : x = Reservation(a, w, time, releases)
  OBVIOUS
<1>5. x.attempt = a /\ x.starts = time /\ m.executing = l.executing \cup {x}
  BY <1>3, <1>4 DEF Reservation
<1>6. {y.attempt : y \in m.executing} = running \cup {a}
  BY <1>5 DEF Agrees
<1>7. \A y \in m.executing : y.starts = known[y.attempt].decodeStart /\ y.starts <= time
  BY <1>2, <1>5 DEF Agrees
<1>8. {y.attempt : y \in m.active} \subseteq (owed \cup {a}) \ (running \cup {a})
  BY <1>3 DEF Agrees
<1>9. DOMAIN m.reserved = owed \cup {a} /\ \A b \in owed \cup {a} : m.reserved[b] = debts[b]
  <2>1. CASE Holds(l.active, a)
    <3>1. a \in owed
      BY <2>1 DEF Agrees, Holds
    <3>2. QED
      BY <1>3, <2>1, <3>1 DEF Agrees
  <2>2. CASE ~Holds(l.active, a)
    BY <1>3, <2>2 DEF Agrees, WithDebt
  <2>3. QED
    BY <2>1, <2>2
<1>10. QED
  BY <1>1, <1>3, <1>6, <1>7, <1>8, <1>9 DEF Agrees
-----------------------------------------------------------------------------
(* Each step of the policy keeps the invariant.                             *)

LEMMA GateIs ==
    ASSUME PolicyInv, ~NoGate
    PROVE  /\ gate \in {"DEFER", "GATED_DP", "GATED_PD"}
           /\ \A a \in DOMAIN credits : credits[a] \in Nat \ {0}
           /\ Predicted \subseteq Nat \ {0}
           /\ Running \subseteq DOMAIN attempts /\ Promised \subseteq DOMAIN attempts
<1>1. gate \in {"DEFER", "GATED_DP", "GATED_PD"}
  BY PolicyAssumption DEF PolicyInv, NoGate
<1>2. Predicted \subseteq Nat \ {0} /\ \A a \in DOMAIN credits : credits[a] \in Predicted
  BY PolicyAssumption DEF PolicyInv, Predicted
<1>3. Running \subseteq DOMAIN attempts /\ Sleepers \subseteq DOMAIN attempts
  BY SleepersAreAttempts DEF PolicyInv, Running
<1>4. Promised \subseteq DOMAIN attempts
  BY <1>1, <1>3 DEF Promised
<1>5. QED
  BY <1>1, <1>2, <1>3, <1>4

LEMMA QuietKeepsMatch ==
    ASSUME PolicyInv, ~NoGate, Quiet, UNCHANGED <<gate, ledger, credits>>
    PROVE  MatchInv'
<1>1. Running' = Running
  BY DEF Running, Started, Quiet
<1>2. \A b \in Sleepers : b \in DOMAIN attempts
  BY SleepersAreAttempts DEF PolicyInv
<1>3. Promised' = Promised
  <2>1. CASE gate = "DEFER"
    BY <1>1, <2>1 DEF Promised
  <2>2. CASE gate = "GATED_DP"
    BY <2>2 DEF Promised, Quiet
  <2>3. CASE gate = "GATED_PD"
    <3>1. Promised = Running \cup (Sleepers \ done) /\ Promised' = Running' \cup (Sleepers' \ done')
      BY <2>3 DEF Promised
    <3>2. \A b \in Sleepers \ done : b \in Sleepers' \/ b \in Running
      BY <1>2 DEF Running, Quiet
    <3>3. Sleepers' \subseteq Sleepers /\ done' = done
      BY DEF Quiet
    <3>4. QED
      BY <1>1, <3>1, <3>2, <3>3
  <2>4. QED
    BY <2>1, <2>2, <2>3, GateIs
<1>4. Agrees(ledger, Running, Promised, credits, attempts, now)
  BY MatchIsAgreement DEF PolicyInv
<1>5. /\ \A b \in Running : attempts'[b].decodeStart = attempts[b].decodeStart
      /\ now \in Int /\ now' \in Int /\ now <= now' /\ LedgerOK(ledger)
  BY DEF PolicyInv, KernelInv, KernelTypeOK, Quiet, Running
<1>6. Agrees(ledger, Running, Promised, credits, attempts', now')
  BY <1>4, <1>5, AgreesLater
<1>7. QED
  BY <1>1, <1>3, <1>6, MatchIsAgreement

LEMMA SameLedger == ASSUME LedgerOK(ledger), workload' = workload, ledger' = ledger PROVE LedgerOK(ledger)'
BY DEF LedgerOK, Items, AttemptKey, Held, Temporal

LEMMA QuietKeepsPolicy ==
    ASSUME PolicyInv, KernelInv', Quiet, UNCHANGED <<gate, ledger, credits, fences, raised>>,
           aborted' \subseteq Abortable,
           \A b \in DOMAIN attempts :
               \/ attempts'[b].terminal = attempts[b].terminal
               \/ attempts'[b].terminal = "ABORTED" /\ b[2] = 0 /\ b \notin done
    PROVE  PolicyInv'
<1>1. LedgerOK(ledger)'
  BY SameLedger DEF PolicyInv, Quiet
<1>2. ~NoGate => MatchInv'
  BY QuietKeepsMatch
<1>3. AbortInv'
  BY DEF PolicyInv, AbortInv, Quiet
<1>4. AbortsAreRetried'
  <2>1. ASSUME NEW a \in done, attempts[a].terminal # "COMPLETED"
        PROVE  /\ <<a[1], a[2] + 1>> \in DOMAIN attempts
               /\ attempts'[<<a[1], a[2] + 1>>].terminal = "COMPLETED"
    <3>1. PICK again : again = <<a[1], a[2] + 1>>
      OBVIOUS
    <3>2. again \in DOMAIN attempts /\ attempts[again].terminal = "COMPLETED"
      BY <2>1, <3>1 DEF PolicyInv, AbortsAreRetried
    <3>3. a[2] \in Nat
      BY KernelAssumption DEF PolicyInv, KernelInv, KernelTypeOK, AttemptKey
    <3>4. again[2] # 0
      BY <3>1, <3>3
    <3>5. QED
      BY <3>1, <3>2, <3>4
  <2>2. \A a \in done : attempts'[a].terminal = attempts[a].terminal
    BY DEF PolicyInv, KernelInv, KernelTypeOK
  <2>3. done' = done /\ DOMAIN attempts' = DOMAIN attempts
    BY DEF Quiet
  <2>4. QED
    BY <2>1, <2>2, <2>3, Zenon DEF AbortsAreRetried
<1>5. /\ (gate \in Gates)' /\ (DOMAIN credits = DOMAIN attempts)'
      /\ (DOMAIN fences \subseteq DOMAIN attempts)' /\ (\A a \in DOMAIN fences : fences[a] \in Nat)'
      /\ (~raised)' /\ (NoGate => ledger = EmptyLedger)' /\ (NoGate <=> NoGate')
  BY DEF PolicyInv, Quiet, NoGate
<1>6. (\A a \in DOMAIN credits : credits[a] \in Predicted)'
  BY DEF PolicyInv, Predicted, NoGate
<1>7. QED
  BY <1>1, <1>2, <1>3, <1>4, <1>5, <1>6 DEF PolicyInv

\* A new attempt runs nothing yet; it is owed what is reserved as it is planned.
LEMMA PlansTell ==
    ASSUME PolicyInv, ~NoGate, NEW a, NEW plan, Plans1(a, plan), Sleepers' = Sleepers, gate' = gate,
           NEW settled \in SUBSET DOMAIN attempts, done' = done \cup settled
    PROVE  /\ Running' = Running \ settled /\ a \notin Running /\ a \notin Promised
           /\ gate = "GATED_DP" => Promised' = (Promised \ settled) \cup {a}
           /\ gate # "GATED_DP" => Promised' = Promised \ settled
<1>1. a \notin DOMAIN attempts /\ done \subseteq DOMAIN attempts
  BY DEF Plans1, PolicyInv, KernelInv, KernelTypeOK
<1>2. Running' = Running \ settled
  BY <1>1 DEF Running, Started, Plans1
<1>3. a \notin Running /\ a \notin Promised
  BY <1>1, GateIs
<1>4. ASSUME gate = "GATED_DP" PROVE Promised' = (Promised \ settled) \cup {a}
  BY <1>1, <1>4 DEF Promised, Plans1
<1>5. ASSUME gate # "GATED_DP" PROVE Promised' = Promised \ settled
  <2>1. CASE gate = "DEFER"
    BY <1>2, <2>1 DEF Promised
  <2>2. CASE gate = "GATED_PD"
    <3>1. Promised = Running \cup (Sleepers \ done) /\ Promised' = Running' \cup (Sleepers' \ done')
      BY <2>2 DEF Promised
    <3>2. QED
      BY <1>2, <3>1
  <2>3. QED
    BY <1>5, <2>1, <2>2, GateIs
<1>6. QED
  BY <1>2, <1>3, <1>4, <1>5

\* What the policy plans neither fails nor emits less than it should.
Sound(plan) == plan \in Plan /\ ~plan.fails /\ plan.missing = 0

LEMMA PlansAbortNobody ==
    ASSUME AbortInv, NEW a, NEW plan, Plans1(a, plan), Sound(plan)
    PROVE  AbortInv'
BY DEF AbortInv, Plans1, Sound

LEMMA SoundProposals ==
    ASSUME KernelTypeOK, NEW a \in AttemptKey, NEW plan, Sound(plan)
    PROVE  /\ <<plan>> \in Proposals
           /\ \A i \in DOMAIN <<plan>> : <<plan>>[i].missing <= workload[a[1]].output
<1>1. workload[a[1]].output \in Nat
  BY RequestOf DEF KernelTypeOK, Request
<1>2. QED
  BY <1>1 DEF Sound, Proposals

LEMMA PlacementsArePlans ==
    ASSUME KernelTypeOK, NEW a \in AttemptKey, NEW plan \in Placements(a), NEW delay \in Nat
    PROVE  plan.d \in DNodes /\ Sound([plan EXCEPT !.delay = delay])
<1>1. PICK p \in PNodes, d \in DNodes, claims \in {{}, ToSet(PrefixOf(a))} :
         plan = [p |-> p, d |-> d, delay |-> 0, claims |-> claims, fails |-> FALSE,
                 missing |-> 0, reusable |-> TRUE, fence |-> 0]
  BY DEF Placements
<1>2. claims \in SUBSET Key
  BY RequestOf DEF KernelTypeOK
<1>3. PICK later : later = [plan EXCEPT !.delay = delay]
  OBVIOUS
<1>4. later = [p |-> p, d |-> d, delay |-> delay, claims |-> claims, fails |-> FALSE,
               missing |-> 0, reusable |-> TRUE, fence |-> 0]
  BY <1>1, <1>3
<1>5. Sound(later)
  BY <1>2, <1>4 DEF Sound, Plan
<1>6. QED
  BY <1>1, <1>3, <1>5

\* Where a reservation starts: never in the past.
LEMMA ReservesAhead ==
    ASSUME PolicyInv, NEW l, LedgerOK(l), now' \in Nat, NEW predicted \in Predicted,
           NEW a \in AttemptKey, gate = "GATED_DP" => MayReserve(l, a)
    PROVE  LET ahead == ReservedAhead(l, a, predicted)
           IN  /\ LedgerOK(ahead)
               /\ ReservationStart(ahead, a, predicted) \in Nat
               /\ now' <= ReservationStart(ahead, a, predicted)
<1>0. PICK ahead, start : /\ ahead = ReservedAhead(l, a, predicted)
                          /\ start = ReservationStart(ahead, a, predicted)
  OBVIOUS
<1>1. PICK time : time = now' /\ time \in Nat
  OBVIOUS
<1>2. CASE NoGate
  <2>1. ahead = l /\ start = now'
    BY <1>0, <1>2 DEF ReservedAhead, ReservationStart, NoGate
  <2>2. QED
    BY <1>0, <2>1
<1>3. CASE ~NoGate /\ gate = "GATED_DP"
  <2>1. predicted \in Nat \ {0}
    BY <1>3, GateIs
  <2>0. time \in Nat /\ MayReserve(l, a)
    BY <1>1, <1>3
  <2>2. ahead = Reserve(l, a, predicted, time) /\ start = StartsAt(ahead, a)
    BY <1>0, <1>1, <1>3 DEF ReservedAhead, ReservationStart
  <2>3. LET n == Reserve(l, a, predicted, time)
        IN  /\ LedgerOK(n)
            /\ n.executing = l.executing
            /\ n.reserved = WithDebt(l.reserved, a, predicted)
            /\ {x.attempt : x \in n.active} = {x.attempt : x \in l.active} \cup {a}
            /\ StartsAt(n, a) \in Nat /\ time <= StartsAt(n, a)
    BY <2>1, <2>0, ReserveKeeps
  <2>4. QED
    BY <1>0, <1>1, <2>2, <2>3
<1>4. CASE ~NoGate /\ gate # "GATED_DP"
  <2>1. predicted \in Nat \ {0}
    BY <1>4, GateIs
  <2>2. ahead = l /\ start = AvailableAt(l, predicted, time, <<>>)
    BY <1>0, <1>1, <1>4 DEF ReservedAhead, ReservationStart
  <2>3. IsItems(Temporal(l))
    BY LedgerItems
  <2>4. AvailableAt(l, predicted, time, <<>>) \in Nat /\ time <= AvailableAt(l, predicted, time, <<>>)
    BY <1>1, <2>1, <2>3, AvailableIsFree
  <2>5. QED
    BY <1>0, <1>1, <2>2, <2>4
<1>5. QED
  BY <1>2, <1>3, <1>4

LEMMA ReserveAheadAgrees ==
    ASSUME PolicyInv, ~NoGate, NEW l, LedgerOK(l), now' \in Nat, NEW predicted \in Predicted,
           NEW running, NEW owed, NEW debts, NEW known, NEW time,
           Agrees(l, running, owed, debts, known, time),
           NEW a \in AttemptKey, a \notin running, a \notin owed, debts[a] = predicted
    PROVE  /\ gate = "GATED_DP" =>
                 Agrees(ReservedAhead(l, a, predicted), running, owed \cup {a}, debts, known, time)
           /\ gate # "GATED_DP" =>
                 Agrees(ReservedAhead(l, a, predicted), running, owed, debts, known, time)
<1>1. predicted \in Nat \ {0} /\ MayReserve(l, a)
  BY GateIs, NewcomersMayReserve
<1>2. PICK clock : clock = now' /\ clock \in Nat
  OBVIOUS
<1>3. Agrees(Reserve(l, a, debts[a], clock), running, owed \cup {a}, debts, known, time)
  BY <1>1, <1>2, ReserveAgrees
<1>4. QED
  BY <1>2, <1>3 DEF ReservedAhead

\* An attempt is planned, and deferred or fenced if it meets congestion.
LEMMA PlanKeepsPolicy ==
    ASSUME PolicyInv, NEW e \in queue, PlanAttempt(e)
    PROVE  PolicyInv'
<1>0. PICK a : a = e.attempt
  OBVIOUS
<1>1. PICK plan, predicted, ahead, start, delay :
         /\ plan \in Placements(a) /\ predicted \in Predicted
         /\ ahead = ReservedAhead(ledger, a, predicted)
         /\ start = ReservationStart(ahead, a, predicted)
         /\ delay = 0 \/ delay = Max({now', dAvailable[plan.d], start}) - now'
         /\ Arrival(e, <<[plan EXCEPT !.delay = delay]>>)
         /\ credits' = With(credits, a, predicted)
         /\ ledger' = ahead
         /\ raised' = RaisedAhead(ledger, a)
         /\ fences' = fences \/ (gate = "GATED_PD" /\ fences' = With(fences, a, start))
         /\ UNCHANGED <<gate, aborted>>
  <2>1. PICK plan \in Placements(e.attempt), predicted \in Predicted :
           \E ahead \in {ReservedAhead(ledger, e.attempt, predicted)} :
           \E start \in {ReservationStart(ahead, e.attempt, predicted)} :
              LET free      == dAvailable[plan.d]
                  congested == ~NoGate /\ (start > now' \/ free > now')
                  until     == Max({now', free, start})
                  deferred  == congested /\ gate \in {"DEFER", "GATED_DP"}
              IN  /\ Arrival(e, <<[plan EXCEPT !.delay = IF deferred THEN until - now' ELSE 0]>>)
                  /\ credits' = With(credits, e.attempt, predicted)
                  /\ ledger' = ahead
                  /\ raised' = RaisedAhead(ledger, e.attempt)
                  /\ fences' = IF congested /\ gate = "GATED_PD" THEN With(fences, e.attempt, start) ELSE fences
                  /\ UNCHANGED <<gate, aborted>>
    BY Zenon DEF PlanAttempt
  <2>2. PICK ahead, start :
           /\ ahead = ReservedAhead(ledger, e.attempt, predicted)
           /\ start = ReservationStart(ahead, e.attempt, predicted)
           /\ LET free      == dAvailable[plan.d]
                  congested == ~NoGate /\ (start > now' \/ free > now')
                  until     == Max({now', free, start})
                  deferred  == congested /\ gate \in {"DEFER", "GATED_DP"}
              IN  /\ Arrival(e, <<[plan EXCEPT !.delay = IF deferred THEN until - now' ELSE 0]>>)
                  /\ credits' = With(credits, e.attempt, predicted)
                  /\ ledger' = ahead
                  /\ raised' = RaisedAhead(ledger, e.attempt)
                  /\ fences' = IF congested /\ gate = "GATED_PD" THEN With(fences, e.attempt, start) ELSE fences
                  /\ UNCHANGED <<gate, aborted>>
    BY <2>1
  <2>3. PICK congested :
           /\ Arrival(e, <<[plan EXCEPT !.delay = IF congested /\ gate \in {"DEFER", "GATED_DP"}
                                THEN Max({now', dAvailable[plan.d], start}) - now' ELSE 0]>>)
           /\ credits' = With(credits, e.attempt, predicted)
           /\ ledger' = ahead
           /\ raised' = RaisedAhead(ledger, e.attempt)
           /\ fences' = IF congested /\ gate = "GATED_PD" THEN With(fences, e.attempt, start) ELSE fences
           /\ UNCHANGED <<gate, aborted>>
    BY <2>2
  <2>4. PICK delay : delay = IF congested /\ gate \in {"DEFER", "GATED_DP"}
                                THEN Max({now', dAvailable[plan.d], start}) - now' ELSE 0
    OBVIOUS
  <2>5. delay = 0 \/ delay = Max({now', dAvailable[plan.d], start}) - now'
    BY <2>4
  <2>6. fences' = fences \/ (gate = "GATED_PD" /\ fences' = With(fences, a, start))
    BY <1>0, <2>3
  <2>7. Arrival(e, <<[plan EXCEPT !.delay = delay]>>)
    BY <2>3, <2>4
  <2>8. QED
    BY <1>0, <2>1, <2>2, <2>3, <2>5, <2>6, <2>7
<1>2. KernelInv /\ KernelTypeOK /\ AbortInv /\ AbortsAreRetried /\ LedgerOK(ledger)
  BY DEF PolicyInv, KernelInv
<1>3. plan \in Placements(a) /\ predicted \in Predicted
  BY <1>1
<1>4. PICK later : later = [plan EXCEPT !.delay = delay]
  OBVIOUS
<1>5. /\ Plans1(a, later) /\ Sleepers' = Sleepers /\ done' = done
      /\ workload' = workload /\ now <= now' /\ now' \in Nat
  BY <1>0, <1>1, <1>2, <1>4, ArrivalTells
<1>6. a \in AttemptKey /\ a \notin DOMAIN attempts /\ done \subseteq DOMAIN attempts
  BY <1>2, <1>5 DEF Plans1, KernelTypeOK
<1>7. ~NoGate => MayReserve(ledger, a)
  <2>1. ASSUME ~NoGate PROVE MayReserve(ledger, a)
    <3>1. Agrees(ledger, Running, Promised, credits, attempts, now)
      BY <2>1, MatchIsAgreement DEF PolicyInv
    <3>2. a \notin Running /\ a \notin Promised
      BY <1>6, <2>1, GateIs
    <3>3. QED
      BY <3>1, <3>2, NewcomersMayReserve
  <2>2. QED
    BY <2>1
<1>8. LedgerOK(ahead) /\ start \in Nat /\ now' <= start
  <2>1. gate = "GATED_DP" => MayReserve(ledger, a)
    BY <1>7 DEF NoGate
  <2>2. LET n == ReservedAhead(ledger, a, predicted)
        IN  /\ LedgerOK(n)
            /\ ReservationStart(n, a, predicted) \in Nat
            /\ now' <= ReservationStart(n, a, predicted)
    BY <1>2, <1>5, <1>6, <1>3, <2>1, ReservesAhead
  <2>3. QED
    BY <1>1, <2>2
<1>9. delay \in Nat
  <2>1. plan.d \in DNodes
    BY <1>2, <1>6, <1>3, PlacementsArePlans
  <2>2. dAvailable[plan.d] \in Int /\ now' \in Int /\ start \in Int
    BY <1>2, <1>5, <1>8, <2>1 DEF KernelTypeOK
  <2>3. /\ Max({now', dAvailable[plan.d], start}) \in {now', dAvailable[plan.d], start}
        /\ now' <= Max({now', dAvailable[plan.d], start})
    BY <2>2, MaxOfThree
  <2>4. Max({now', dAvailable[plan.d], start}) \in Int
    BY <2>2, <2>3
  <2>5. QED
    BY <1>1, <2>2, <2>3, <2>4
<1>10. Sound(later)
  BY <1>2, <1>4, <1>6, <1>9, <1>3, PlacementsArePlans
<1>11. KernelInv'
  <2>1. /\ <<later>> \in Proposals
        /\ \A i \in DOMAIN <<later>> : <<later>>[i].missing <= workload[a[1]].output
    BY <1>2, <1>6, <1>10, SoundProposals
  <2>2. Arrival(e, <<later>>)
    BY <1>1, <1>4
  <2>3. QED
    BY <1>0, <1>2, <2>1, <2>2, ArrivalKeepsInv
<1>12. ~raised'
  BY <1>1, <1>7 DEF PolicyInv, RaisedAhead, NoGate
<1>13. (NoGate' <=> NoGate) /\ (NoGate => ledger' = EmptyLedger)
  BY <1>1 DEF PolicyInv, NoGate, ReservedAhead
<1>14. /\ DOMAIN credits' = DOMAIN attempts' /\ credits'[a] = predicted
       /\ \A b \in DOMAIN attempts : credits'[b] = credits[b]
  BY <1>1, <1>5, <1>6 DEF PolicyInv, With, Plans1
<1>15. \A b \in DOMAIN credits' : credits'[b] \in Predicted'
  BY <1>1, <1>5, <1>13, <1>14 DEF PolicyInv, Predicted, Plans1
<1>16. DOMAIN fences' \subseteq DOMAIN attempts' /\ \A b \in DOMAIN fences' : fences'[b] \in Nat
  BY <1>1, <1>5, <1>8 DEF PolicyInv, With, Plans1
<1>17. ~NoGate => MatchInv'
  <2>1. SUFFICES ASSUME ~NoGate PROVE MatchInv'
    OBVIOUS
  <2>2. Agrees(ledger, Running, Promised, credits, attempts, now)
    BY <2>1, MatchIsAgreement DEF PolicyInv
  <2>3. Running \subseteq DOMAIN attempts /\ Promised \subseteq DOMAIN attempts
    BY <2>1, GateIs
  <2>4. /\ \A b \in Promised : credits'[b] = credits[b]
        /\ \A b \in Running : attempts'[b].decodeStart = attempts[b].decodeStart
        /\ now \in Int /\ now' \in Int
    BY <1>2, <1>5, <1>14, <2>3 DEF Plans1, KernelTypeOK
  <2>5. Agrees(ledger, Running, Promised, credits', attempts', now')
    BY <1>2, <1>5, <2>2, <2>4, AgreesLater
  <2>6. a \notin Running /\ a \notin Promised
    BY <1>6, <2>3
  <2>7. /\ gate = "GATED_DP" => Agrees(ledger', Running, Promised \cup {a}, credits', attempts', now')
        /\ gate # "GATED_DP" => Agrees(ledger', Running, Promised, credits', attempts', now')
    BY <1>1, <1>2, <1>5, <1>6, <1>14, <2>1, <2>5, <2>6, ReserveAheadAgrees
  <2>8. /\ Running' = Running
        /\ gate = "GATED_DP" => Promised' = Promised \cup {a}
        /\ gate # "GATED_DP" => Promised' = Promised
    <3>1. /\ Running' = Running \ {}
          /\ gate = "GATED_DP" => Promised' = (Promised \ {}) \cup {a}
          /\ gate # "GATED_DP" => Promised' = Promised \ {}
      BY <1>1, <1>5, <2>1, PlansTell, ZenonT(40)
    <3>2. QED
      BY <3>1
  <2>9. Agrees(ledger', Running', Promised', credits', attempts', now')
    BY <2>7, <2>8
  <2>10. QED
    BY <2>9, MatchIsAgreement
<1>18. LedgerOK(ledger)'
  BY <1>1, <1>5, <1>8 DEF LedgerOK, Items, AttemptKey, Held, Temporal
<1>19. AbortInv'
  BY <1>2, <1>5, <1>10, PlansAbortNobody
<1>20. AbortsAreRetried'
  BY <1>2, <1>5, <1>6, Zenon DEF AbortsAreRetried, Plans1
<1>21. gate' \in Gates /\ aborted' \subseteq Abortable
  BY <1>1 DEF PolicyInv
<1>22. QED
  BY <1>11, <1>12, <1>13, <1>14, <1>15, <1>16, <1>17, <1>18, <1>19, <1>20, <1>21 DEF PolicyInv

\* The fence of a decode is no earlier than the ledger has room for it.
LEMMA FenceHasRoom ==
    ASSUME PolicyInv, NEW a \in DOMAIN attempts, now' \in Nat
    PROVE  /\ Fence(a) \in Nat
           /\ ~NoGate => AvailableAt(ledger, credits[a], now', a) <= Fence(a)
<1>0. PICK time, told, room :
         /\ time = now' /\ told = (IF a \in DOMAIN fences THEN fences[a] ELSE now')
         /\ room = (IF NoGate THEN now' ELSE AvailableAt(ledger, credits[a], now', a))
  OBVIOUS
<1>1. time \in Int /\ time \in Nat
  BY <1>0
<1>2. told \in Nat
  BY <1>0 DEF PolicyInv
<1>3. room \in Nat
  <2>1. CASE NoGate
    BY <1>0, <2>1
  <2>2. CASE ~NoGate
    <3>1. credits[a] \in Nat \ {0}
      BY <2>2, GateIs DEF PolicyInv
    <3>2. IsItems(Temporal(ledger))
      BY LedgerItems DEF PolicyInv
    <3>3. PICK amount : amount = credits[a] /\ amount \in Nat \ {0}
      BY <3>1
    <3>4. AvailableAt(ledger, amount, time, a) \in Nat
      BY <1>1, <3>2, <3>3, AvailableIsFree
    <3>5. QED
      BY <1>0, <2>2, <3>3, <3>4
  <2>3. QED
    BY <2>1, <2>2
<1>4. Max({time, told, room}) \in {time, told, room} /\ room <= Max({time, told, room})
  <2>1. told \in Int /\ room \in Int
    BY <1>2, <1>3
  <2>2. QED
    BY <1>1, <2>1, MaxOfThree
<1>5. Fence(a) = Max({time, told, room})
  BY <1>0 DEF Fence
<1>6. QED
  BY <1>0, <1>1, <1>2, <1>3, <1>4, <1>5

\* A decode is looked at: the reservation is made that is missing, and what the
\* fence answers is no sooner than the ledger has room.
LEMMA RereadKeeps ==
    ASSUME PolicyInv, NEW a \in DOMAIN attempts, a \in AttemptKey, ~Started(a), now' \in Nat
    PROVE  LET reread == Reread(a)
               fence  == DecodeNotBefore(a, reread)
           IN  /\ LedgerOK(reread) /\ reread.executing = ledger.executing
               /\ fence \in Nat /\ Fence(a) <= fence
               /\ ReservesNow(a) => MayReserve(ledger, a)
               /\ ~NoGate => Agrees(reread, Running,
                                    IF ReservesNow(a) THEN Promised \cup {a} ELSE Promised,
                                    credits, attempts, now)
<1>0. PICK reread, fence, time : reread = Reread(a) /\ fence = DecodeNotBefore(a, reread) /\ time = now'
  OBVIOUS
<1>1. Fence(a) \in Nat /\ LedgerOK(ledger)
  BY FenceHasRoom DEF PolicyInv
<1>2. ~NoGate => Agrees(ledger, Running, Promised, credits, attempts, now)
  BY MatchIsAgreement DEF PolicyInv
<1>3. CASE ~ReservesNow(a)
  BY <1>0, <1>1, <1>2, <1>3 DEF Reread, DecodeNotBefore
<1>4. CASE ReservesNow(a)
  <2>1. ~NoGate /\ ~Holds(ledger.active, a) /\ a \notin Running
    BY <1>4 DEF ReservesNow, NoGate, Running
  <2>2. credits[a] \in Nat \ {0}
    BY <2>1, GateIs DEF PolicyInv
  <2>3. MayReserve(ledger, a)
    BY <1>2, <2>1, NewcomersMayReserve
  <2>4. PICK amount : amount = credits[a]
    OBVIOUS
  <2>5. reread = Reserve(ledger, a, amount, time)
    BY <1>0, <1>4, <2>4 DEF Reread
  <2>6. LET n == Reserve(ledger, a, amount, time)
        IN  /\ LedgerOK(n)
            /\ n.executing = ledger.executing
            /\ n.reserved = WithDebt(ledger.reserved, a, amount)
            /\ {x.attempt : x \in n.active} = {x.attempt : x \in ledger.active} \cup {a}
            /\ StartsAt(n, a) \in Nat /\ time <= StartsAt(n, a)
    <3>1. amount \in Nat \ {0}
      BY <2>2, <2>4
    <3>2. time \in Nat
      BY <1>0
    <3>3. QED
      BY <1>1, <2>3, <3>1, <3>2, ReserveKeeps
  <2>7. Agrees(Reserve(ledger, a, credits[a], time), Running, Promised \cup {a}, credits, attempts, now)
    <3>1. time \in Nat
      BY <1>0
    <3>2. QED
      BY <1>1, <1>2, <2>1, <2>2, <2>3, <3>1, ReserveAgrees
  <2>8. fence = Max({Fence(a), StartsAt(reread, a)})
    BY <1>0, <1>4 DEF DecodeNotBefore
  <2>9. PICK own, starts : own = Fence(a) /\ starts = StartsAt(reread, a)
    OBVIOUS
  <2>10. own \in Int /\ own \in Nat /\ starts \in Int /\ starts \in Nat
    BY <1>1, <2>5, <2>6, <2>9
  <2>11. Max({own, starts}) \in {own, starts} /\ own <= Max({own, starts})
    BY <2>10, MaxOfTwo
  <2>12. fence \in Nat /\ Fence(a) <= fence
    BY <2>8, <2>9, <2>10, <2>11
  <2>13. LedgerOK(reread) /\ reread.executing = ledger.executing
    BY <2>5, <2>6
  <2>14. Agrees(reread, Running, Promised \cup {a}, credits, attempts, now)
    BY <2>4, <2>5, <2>7
  <2>15. QED
    BY <1>0, <1>4, <2>3, <2>12, <2>13, <2>14
<1>5. QED
  BY <1>3, <1>4

\* Whom the kernel decodes, and who is owed what, after a decode was looked at.
LEMMA LookMatches ==
    ASSUME PolicyInv, ~NoGate, NEW a \in DOMAIN attempts, a \notin done, ~Started(a),
           DOMAIN attempts' = DOMAIN attempts, done' = done, gate' = gate, now' \in Nat,
           \A b \in DOMAIN attempts : b # a => attempts'[b] = attempts[b]
    PROVE  /\ (attempts'[a].decodeStart = now' /\ Sleepers' \subseteq Sleepers /\ Sleepers \ {a} \subseteq Sleepers')
                 => Running' = Running \cup {a} /\ Promised' = Promised \cup {a}
           /\ (attempts'[a].decodeStart = None /\ Sleepers' = Sleepers \cup {a})
                 => /\ Running' = Running
                    /\ Promised' = IF gate = "GATED_PD" THEN Promised \cup {a} ELSE Promised
<1>0. gate \in {"DEFER", "GATED_DP", "GATED_PD"} /\ a \notin Running
  BY GateIs DEF Running
<1>1. ASSUME attempts'[a].decodeStart = now', Sleepers' \subseteq Sleepers, Sleepers \ {a} \subseteq Sleepers'
      PROVE  Running' = Running \cup {a} /\ Promised' = Promised \cup {a}
  <2>1. now' # None
    BY DEF None
  <2>2. Running' = Running \cup {a}
    BY <1>1, <2>1 DEF Running, Started
  <2>3. CASE gate = "DEFER"
    BY <2>2, <2>3 DEF Promised
  <2>4. CASE gate = "GATED_DP"
    BY <2>2, <2>4 DEF Promised
  <2>5. CASE gate = "GATED_PD"
    <3>1. Promised = Running \cup (Sleepers \ done) /\ Promised' = Running' \cup (Sleepers' \ done')
      BY <2>5 DEF Promised
    <3>2. QED
      BY <1>1, <2>2, <3>1
  <2>6. QED
    BY <1>0, <2>2, <2>3, <2>4, <2>5
<1>2. ASSUME attempts'[a].decodeStart = None, Sleepers' = Sleepers \cup {a}
      PROVE  /\ Running' = Running
             /\ Promised' = IF gate = "GATED_PD" THEN Promised \cup {a} ELSE Promised
  <2>2. Running' = Running
    BY <1>2 DEF Running, Started
  <2>3. CASE gate = "DEFER"
    BY <2>2, <2>3 DEF Promised
  <2>4. CASE gate = "GATED_DP"
    BY <2>2, <2>4 DEF Promised
  <2>5. CASE gate = "GATED_PD"
    <3>1. Promised = Running \cup (Sleepers \ done) /\ Promised' = Running' \cup (Sleepers' \ done')
      BY <2>5 DEF Promised
    <3>2. QED
      BY <1>2, <2>2, <2>5, <3>1
  <2>6. QED
    BY <1>0, <2>3, <2>4, <2>5
<1>3. QED
  BY <1>1, <1>2

LEMMA LookKeepsPolicy ==
    ASSUME PolicyInv, NEW e \in queue, LookAtDecode(e)
    PROVE  PolicyInv'
<1>0. PICK a, reread, fence, lease, finish :
         /\ a = e.attempt /\ reread = Reread(a) /\ fence = DecodeNotBefore(a, reread)
         /\ lease = LeaseOf(a) /\ finish = now' + attempts[a].emitted
  OBVIOUS
<1>1. /\ PrefillFinish(e, fence, lease) \/ DecodeStart(e, fence, lease)
      /\ ledger' = IF Admissible(a, fence) /\ ~NoGate
                   THEN Activate(reread, a, credits[a], now', finish) ELSE reread
      /\ raised' = (raised \/ (ReservesNow(a) /\ ~MayReserve(ledger, a))
                           \/ (Admissible(a, fence) /\ ~NoGate
                                 /\ ~MayActivate(reread, a, credits[a], now', finish)))
      /\ UNCHANGED <<gate, credits, fences, aborted>>
  BY <1>0 DEF LookAtDecode
<1>2. KernelInv /\ KernelTypeOK /\ AbortInv /\ AbortsAreRetried /\ LedgerOK(ledger)
  BY DEF PolicyInv, KernelInv
<1>3. /\ a \in DOMAIN attempts /\ ~Started(a) /\ a \notin done /\ a \in AttemptKey
      /\ DOMAIN attempts' = DOMAIN attempts /\ done' = done
      /\ workload' = workload /\ now <= now' /\ now' \in Nat
      /\ \A b \in DOMAIN attempts : /\ attempts'[b].plan = attempts[b].plan
                                    /\ attempts'[b].terminal = attempts[b].terminal
                                    /\ b # a => attempts'[b] = attempts[b]
      /\ Admissible(a, fence) => /\ attempts'[a].decodeStart = now'
                                 /\ Sleepers' \subseteq Sleepers
                                 /\ Sleepers \ {a} \subseteq Sleepers'
      /\ ~Admissible(a, fence) => /\ attempts'[a].decodeStart = None
                                  /\ Sleepers' = Sleepers \cup {a}
  BY <1>0, <1>1, <1>2, LookTells
<1>4. /\ LedgerOK(reread) /\ reread.executing = ledger.executing
      /\ fence \in Nat /\ Fence(a) <= fence
      /\ ReservesNow(a) => MayReserve(ledger, a)
      /\ ~NoGate => Agrees(reread, Running, IF ReservesNow(a) THEN Promised \cup {a} ELSE Promised,
                           credits, attempts, now)
  BY <1>0, <1>3, RereadKeeps
<1>5. finish \in Nat /\ lease \in Nat \cup {None}
  <2>1. attempts[a].emitted \in Nat
    BY <1>2, <1>3 DEF KernelTypeOK, AttemptRecord
  <2>2. lease \in Nat \cup {None}
    BY <1>0, KernelAssumption DEF LeaseOf
  <2>3. QED
    BY <1>0, <1>3, <2>1, <2>2
<1>6. KernelInv'
  <2>1. CASE PrefillFinish(e, fence, lease)
    BY <1>2, <1>4, <1>5, <2>1, PrefillFinishKeepsInv
  <2>2. CASE DecodeStart(e, fence, lease)
    BY <1>2, <1>4, <1>5, <2>2, DecodeStartKeepsInv
  <2>3. QED
    BY <1>1, <2>1, <2>2
<1>7. \A b \in Running : b \in DOMAIN attempts /\ b # a
  BY <1>3 DEF Running
<1>8. ASSUME ~NoGate, Admissible(a, fence)
      PROVE  MayActivate(reread, a, credits[a], now', finish)
  <2>1. AvailableAt(ledger, credits[a], now', a) <= Fence(a) /\ Fence(a) \in Nat
    BY <1>3, <1>8, FenceHasRoom
  <2>2. PICK amount, time : amount = credits[a] /\ time = now'
    OBVIOUS
  <2>3. amount \in Nat \ {0}
    BY <1>3, <1>8, <2>2, GateIs DEF PolicyInv
  <2>4. time \in Nat
    BY <1>3, <2>2
  <2>5. AvailableAt(ledger, amount, time, a) \in Nat
    <3>1. IsItems(Temporal(ledger))
      BY <1>2, LedgerItems
    <3>2. QED
      BY <2>3, <2>4, <3>1, AvailableIsFree
  <2>6. fence <= now'
    BY <1>8 DEF Admissible
  <2>7. AvailableAt(ledger, amount, time, a) <= time
    BY <1>3, <1>4, <2>1, <2>2, <2>5, <2>6
  <2>8. Agrees(ledger, Running, Promised, credits, attempts, now)
    BY <1>8, MatchIsAgreement DEF PolicyInv
  <2>9. ~Holds(ledger.executing, a)
    BY <1>7, <2>8 DEF Agrees, Holds
  <2>10. \A x \in ledger.executing : x.starts <= time
    <3>1. \A x \in ledger.executing : x.starts <= now /\ x.starts \in Nat
      BY <1>2, <2>8 DEF Agrees, LedgerOK, Items
    <3>2. now \in Nat
      BY <1>2, KernelAssumption DEF KernelTypeOK
    <3>3. QED
      BY <1>3, <2>2, <3>1, <3>2
  <2>11. MayActivate(ledger, a, amount, time, finish)
    BY <1>2, <2>3, <2>4, <2>7, <2>9, <2>10, AvailableAdmits
  <2>12. QED
    BY <1>4, <2>2, <2>11 DEF MayActivate
<1>9. ~raised'
  BY <1>1, <1>4, <1>8 DEF PolicyInv
<1>10. (NoGate' <=> NoGate) /\ (NoGate => ledger' = EmptyLedger)
  BY <1>0, <1>1 DEF PolicyInv, NoGate, Reread, ReservesNow
<1>11. ASSUME ~NoGate
       PROVE  LedgerOK(ledger') /\ Agrees(ledger', Running', Promised', credits', attempts', now')
  <2>1. PICK owed : owed = IF ReservesNow(a) THEN Promised \cup {a} ELSE Promised
    OBVIOUS
  <2>2. Agrees(reread, Running, owed, credits, attempts, now)
    BY <1>4, <1>11, <2>1
  <2>3. /\ \A b \in Running : attempts'[b].decodeStart = attempts[b].decodeStart
        /\ now \in Int /\ now' \in Int
    BY <1>2, <1>3, <1>7 DEF KernelTypeOK
  <2>4. Agrees(reread, Running, owed, credits, attempts', now')
    BY <1>3, <1>4, <2>2, <2>3, AgreesLater
  <2>5. gate \in {"DEFER", "GATED_DP", "GATED_PD"}
    BY <1>11, GateIs
  <2>6. CASE Admissible(a, fence)
    <3>1. Running' = Running \cup {a} /\ Promised' = Promised \cup {a}
      BY <1>1, <1>3, <1>11, <2>6, LookMatches
    <3>2. owed \cup {a} = Promised \cup {a}
      BY <2>1
    <3>3. MayActivate(reread, a, credits[a], now', finish)
      BY <1>8, <1>11, <2>6
    <3>4. credits[a] \in Nat \ {0} /\ a \notin Running
      BY <1>3, <1>7, <1>11, GateIs DEF PolicyInv
    <3>5. PICK debts, known, time : debts = credits /\ known = attempts' /\ time = now'
      OBVIOUS
    <3>6. time \in Nat /\ known[a].decodeStart = time /\ debts[a] \in Nat \ {0}
      BY <1>3, <2>6, <3>4, <3>5
    <3>7. /\ Agrees(reread, Running, owed, debts, known, time)
          /\ MayActivate(reread, a, debts[a], time, finish)
      BY <2>4, <3>3, <3>5
    <3>8. LET m == Activate(reread, a, debts[a], time, finish)
          IN  LedgerOK(m) /\ Agrees(m, Running \cup {a}, owed \cup {a}, debts, known, time)
      BY <1>3, <1>4, <1>5, <3>4, <3>6, <3>7, ActivateAgrees
    <3>9. ledger' = Activate(reread, a, debts[a], time, finish)
      BY <1>1, <1>11, <2>6, <3>5
    <3>10. QED
      BY <1>1, <3>1, <3>2, <3>5, <3>8, <3>9
  <2>7. CASE ~Admissible(a, fence)
    <3>1. /\ Running' = Running
          /\ Promised' = IF gate = "GATED_PD" THEN Promised \cup {a} ELSE Promised
      BY <1>1, <1>3, <1>11, <2>7, LookMatches
    <3>2. ledger' = reread
      BY <1>1, <2>7
    <3>3. owed = Promised'
      <4>1. CASE gate # "GATED_PD"
        BY <2>1, <3>1, <4>1 DEF ReservesNow
      <4>2. CASE gate = "GATED_PD" /\ ReservesNow(a)
        BY <2>1, <3>1, <4>2
      <4>3. CASE gate = "GATED_PD" /\ ~ReservesNow(a)
        <5>1. Holds(ledger.active, a)
          BY <4>3 DEF ReservesNow
        <5>2. a \in Promised
          BY <1>11, <5>1 DEF PolicyInv, MatchInv, Holds
        <5>3. QED
          BY <2>1, <3>1, <4>3, <5>2
      <4>4. QED
        BY <4>1, <4>2, <4>3
    <3>4. QED
      BY <1>1, <1>4, <2>4, <3>1, <3>2, <3>3
  <2>8. QED
    BY <2>6, <2>7
<1>12. LedgerOK(ledger')
  <2>1. CASE NoGate
    BY <1>1, <1>4, <2>1
  <2>2. CASE ~NoGate
    BY <1>11, <2>2
  <2>3. QED
    BY <2>1, <2>2
<1>13. LedgerOK(ledger)'
  BY <1>3, <1>12 DEF LedgerOK, Items, AttemptKey, Held, Temporal
<1>14. ~NoGate => MatchInv'
  BY <1>11, MatchIsAgreement
<1>15. AbortInv'
  BY <1>2, <1>3 DEF AbortInv
<1>16. AbortsAreRetried'
  BY <1>2, <1>3, Zenon DEF AbortsAreRetried, KernelTypeOK
<1>17. /\ gate' \in Gates /\ aborted' \subseteq Abortable
       /\ DOMAIN credits' = DOMAIN attempts' /\ DOMAIN fences' \subseteq DOMAIN attempts'
       /\ \A b \in DOMAIN fences' : fences'[b] \in Nat
  BY <1>1, <1>3 DEF PolicyInv
<1>18. \A b \in DOMAIN credits' : credits'[b] \in Predicted'
  BY <1>1, <1>10 DEF PolicyInv, Predicted
<1>19. QED
  BY <1>6, <1>9, <1>10, <1>13, <1>14, <1>15, <1>16, <1>17, <1>18 DEF PolicyInv

\* A lease ends: the decode goes on, or it is aborted.
LEMMA RepriceKeepsPolicy ==
    ASSUME PolicyInv, NEW e \in queue, Reprice(e)
    PROVE  PolicyInv'
<1>0. PICK a, aborts : a = e.attempt /\ aborts = Aborts(a) /\ aborts \in BOOLEAN
  BY DEF Aborts
<1>1. LeaseBoundary(e, aborts)
  BY <1>0 DEF Reprice
<1>2. UNCHANGED <<gate, ledger, credits, fences, raised>> /\ aborted' \subseteq Abortable
  BY <1>0 DEF Reprice, PolicyInv, Aborts
<1>3. KernelInv
  BY DEF PolicyInv
<1>4. /\ Quiet /\ a \notin done
      /\ \A b \in DOMAIN attempts :
            \/ attempts'[b].terminal = attempts[b].terminal
            \/ aborts /\ b = a /\ attempts'[b].terminal = "ABORTED"
  BY <1>0, <1>1, <1>3, LeaseBoundaryIsQuiet
<1>5. aborts => a[2] = 0
  BY <1>0 DEF Aborts
<1>6. KernelInv'
  BY <1>0, <1>1, <1>3, LeaseBoundaryKeepsInv
<1>7. QED
  BY <1>2, <1>4, <1>5, <1>6, QuietKeepsPolicy

\* An attempt ends: what it held is settled before another is planned.
LEMMA SettledAgrees ==
    ASSUME PolicyInv, NEW a \in Running
    PROVE  LET settled == IF NoGate THEN ledger ELSE Settle(ledger, a)
           IN  /\ LedgerOK(settled)
               /\ ~NoGate => /\ MaySettle(ledger, a)
                             /\ Agrees(settled, Running \ {a}, Promised \ {a}, credits, attempts, now)
<1>1. LedgerOK(ledger) /\ LedgerOK(Settle(ledger, a))
  BY SettleKeeps DEF PolicyInv
<1>2. ~NoGate => Agrees(ledger, Running, Promised, credits, attempts, now)
  BY MatchIsAgreement DEF PolicyInv
<1>3. QED
  BY <1>1, <1>2, SettleAgrees

LEMMA FinishKeepsPolicy ==
    ASSUME PolicyInv, NEW e \in queue, Finished(e)
    PROVE  PolicyInv'
<1>0. PICK a, again, settled, fails :
         /\ a = e.attempt /\ again = <<a[1], a[2] + 1>>
         /\ settled = (IF NoGate THEN ledger ELSE Settle(ledger, a))
         /\ fails = (raised \/ (~NoGate /\ ~MaySettle(ledger, a)))
  OBVIOUS
<1>1. /\ \/ /\ ~Retried(a)
            /\ Completion(e, TRUE, {}, <<>>)
            /\ ledger' = settled
            /\ raised' = fails
            /\ UNCHANGED credits
         \/ /\ Retried(a)
            /\ \E predicted \in Predicted :
               \E ahead \in {ReservedAhead(settled, again, predicted)} :
                  LET start == ReservationStart(ahead, again, predicted)
                      delay == IF gate \in {"DEFER", "GATED_DP"} THEN start - now' ELSE 0
                  IN  /\ Completion(e, TRUE, {}, <<[attempts[a].plan EXCEPT !.delay = delay]>>)
                      /\ ledger' = ahead
                      /\ raised' = (fails \/ RaisedAhead(settled, again))
                      /\ credits' = With(credits, again, predicted)
      /\ UNCHANGED <<gate, fences, aborted>>
  BY <1>0 DEF Finished
<1>2. KernelInv /\ KernelTypeOK /\ AbortInv /\ AbortsAreRetried /\ LedgerOK(ledger)
  BY DEF PolicyInv, KernelInv
<1>3. PICK plans : Completion(e, TRUE, {}, plans)
  <2>1. CASE ~Retried(a)
    BY <1>1, <2>1
  <2>2. CASE Retried(a)
    BY <1>1, <2>2
  <2>3. QED
    BY <2>1, <2>2
<1>4. /\ a \in DOMAIN attempts /\ Started(a) /\ a \notin done /\ a \in AttemptKey
      /\ done' = done \cup {a} /\ Sleepers' = Sleepers
      /\ workload' = workload /\ now <= now' /\ now' \in Nat
  BY <1>0, <1>2, <1>3, CompletionTells
<1>5. a \in Running /\ done \subseteq DOMAIN attempts
  BY <1>2, <1>4 DEF Running, KernelTypeOK
<1>6. /\ LedgerOK(settled)
      /\ ~NoGate => /\ MaySettle(ledger, a)
                    /\ Agrees(settled, Running \ {a}, Promised \ {a}, credits, attempts, now)
  BY <1>0, <1>5, SettledAgrees
<1>7. ~fails /\ (NoGate' <=> NoGate) /\ (NoGate => settled = EmptyLedger)
  BY <1>0, <1>1, <1>6 DEF PolicyInv, NoGate
<1>8. /\ gate' \in Gates /\ aborted' \subseteq Abortable
      /\ \A b \in DOMAIN fences' : fences'[b] \in Nat
  BY <1>1 DEF PolicyInv
<1>9. now \in Int /\ now' \in Int
  BY <1>2, <1>4 DEF KernelTypeOK
<1>10. CASE ~Retried(a)
  <2>1. /\ Completion(e, TRUE, {}, <<>>) /\ ledger' = settled /\ raised' = fails /\ UNCHANGED credits
    BY <1>1, <1>10
  <2>2. attempts' = attempts
    BY <1>2, <2>1, CompletionTells
  <2>3. KernelInv'
    <3>1. /\ <<>> \in Proposals /\ TRUE \in BOOLEAN
          /\ \A i \in DOMAIN <<>> : <<>>[i].missing <= workload[e.attempt[1]].output
      BY DEF Proposals
    <3>2. QED
      BY <1>2, <2>1, <3>1, CompletionKeepsInv
  <2>4. ASSUME ~NoGate PROVE MatchInv'
    <3>1. Running' = Running \ {a}
      BY <1>4, <2>2 DEF Running, Started
    <3>2. Promised' = Promised \ {a}
      <4>1. CASE gate = "DEFER"
        BY <1>1, <3>1, <4>1 DEF Promised
      <4>2. CASE gate = "GATED_DP"
        BY <1>1, <1>4, <2>2, <4>2 DEF Promised
      <4>3. CASE gate = "GATED_PD"
        <5>1. Promised = Running \cup (Sleepers \ done) /\ Promised' = Running' \cup (Sleepers' \ done')
          BY <1>1, <4>3 DEF Promised
        <5>2. QED
          BY <1>4, <3>1, <5>1
      <4>4. QED
        BY <2>4, <4>1, <4>2, <4>3, GateIs
    <3>3. Agrees(settled, Running \ {a}, Promised \ {a}, credits', attempts', now')
      BY <1>4, <1>6, <1>9, <2>1, <2>2, <2>4, AgreesLater
    <3>4. QED
      BY <2>1, <3>1, <3>2, <3>3, MatchIsAgreement
  <2>5. LedgerOK(ledger)'
    BY <1>4, <1>6, <2>1 DEF LedgerOK, Items, AttemptKey, Held, Temporal
  <2>6. AbortInv'
    BY <1>2, <2>2 DEF AbortInv
  <2>7. attempts[a].terminal = "COMPLETED"
    BY <1>2, <1>4, <1>10 DEF AbortInv, Retried
  <2>8. AbortsAreRetried'
    BY <1>2, <1>4, <2>2, <2>7, Zenon DEF AbortsAreRetried
  <2>9. /\ ~raised' /\ (NoGate => ledger' = EmptyLedger)
        /\ DOMAIN credits' = DOMAIN attempts' /\ DOMAIN fences' \subseteq DOMAIN attempts'
        /\ \A b \in DOMAIN credits' : credits'[b] \in Predicted'
    BY <1>1, <1>7, <2>1, <2>2 DEF PolicyInv, Predicted
  <2>10. QED
    BY <1>7, <1>8, <2>3, <2>4, <2>5, <2>6, <2>8, <2>9 DEF PolicyInv
<1>11. CASE Retried(a)
  <2>1. PICK predicted, ahead, start, delay :
          /\ predicted \in Predicted
          /\ ahead = ReservedAhead(settled, again, predicted)
          /\ start = ReservationStart(ahead, again, predicted)
          /\ delay = IF gate \in {"DEFER", "GATED_DP"} THEN start - now' ELSE 0
          /\ Completion(e, TRUE, {}, <<[attempts[a].plan EXCEPT !.delay = delay]>>)
          /\ ledger' = ahead
          /\ raised' = (fails \/ RaisedAhead(settled, again))
          /\ credits' = With(credits, again, predicted)
    BY <1>1, <1>11
  <2>2. PICK later : later = [attempts[a].plan EXCEPT !.delay = delay]
    OBVIOUS
  <2>3. Completion(e, TRUE, {}, <<later>>) /\ predicted \in Predicted
    BY <2>1, <2>2
  <2>4. Plans1(again, later)
    <3>1. <<later>> # <<>> /\ <<later>>[1] = later
      OBVIOUS
    <3>2. QED
      BY <1>0, <1>2, <2>3, <3>1, CompletionTells
  <2>5. again \in AttemptKey /\ again \notin DOMAIN attempts /\ again # a
    BY <1>4, <2>4 DEF Plans1
  <2>6. ASSUME ~NoGate PROVE MayReserve(settled, again)
    <3>1. again \notin Running \ {a} /\ again \notin Promised \ {a}
      BY <2>5, <2>6, GateIs
    <3>2. QED
      BY <1>6, <2>6, <3>1, NewcomersMayReserve
  <2>7. LedgerOK(ahead) /\ start \in Nat /\ now' <= start
    <3>1. gate = "GATED_DP" => MayReserve(settled, again)
      BY <2>6 DEF NoGate
    <3>2. LET n == ReservedAhead(settled, again, predicted)
          IN  /\ LedgerOK(n)
              /\ ReservationStart(n, again, predicted) \in Nat
              /\ now' <= ReservationStart(n, again, predicted)
      BY <1>4, <1>6, <2>3, <2>5, <3>1, ReservesAhead
    <3>3. QED
      BY <2>1, <3>2
  <2>8. delay \in Nat
    BY <1>4, <2>1, <2>7
  <2>9. Sound(later)
    <3>1. attempts[a].plan \in Plan /\ ~attempts[a].plan.fails /\ attempts[a].plan.missing = 0
      BY <1>2, <1>4 DEF KernelTypeOK, AttemptRecord, AbortInv
    <3>2. QED
      BY <2>2, <2>8, <3>1 DEF Sound, Plan
  <2>10. KernelInv'
    <3>1. /\ <<later>> \in Proposals
          /\ \A i \in DOMAIN <<later>> : <<later>>[i].missing <= workload[a[1]].output
      BY <1>2, <1>4, <2>9, SoundProposals
    <3>2. QED
      BY <1>0, <1>2, <2>3, <3>1, CompletionKeepsInv
  <2>11. /\ DOMAIN credits' = DOMAIN attempts' /\ credits'[again] = predicted
         /\ \A b \in DOMAIN attempts : credits'[b] = credits[b]
    BY <2>1, <2>4, <2>5 DEF PolicyInv, With, Plans1
  <2>12. \A b \in DOMAIN credits' : credits'[b] \in Predicted'
    BY <1>7, <2>3, <2>4, <2>11 DEF PolicyInv, Predicted, Plans1
  <2>13. ~raised' /\ (NoGate => ledger' = EmptyLedger)
    BY <1>7, <2>1, <2>6 DEF PolicyInv, RaisedAhead, ReservedAhead, NoGate
  <2>14. DOMAIN fences' \subseteq DOMAIN attempts'
    BY <1>1, <2>4 DEF PolicyInv, Plans1
  <2>15. ASSUME ~NoGate PROVE MatchInv'
    <3>1. Running \subseteq DOMAIN attempts /\ Promised \subseteq DOMAIN attempts
      BY <2>15, GateIs
    <3>2. /\ \A b \in Promised \ {a} : credits'[b] = credits[b]
          /\ \A b \in Running \ {a} : attempts'[b].decodeStart = attempts[b].decodeStart
      BY <2>4, <2>11, <3>1 DEF Plans1
    <3>3. Agrees(settled, Running \ {a}, Promised \ {a}, credits', attempts', now')
      BY <1>4, <1>6, <1>9, <2>15, <3>2, AgreesLater
    <3>4. again \notin Running \ {a} /\ again \notin Promised \ {a}
      BY <2>5, <3>1
    <3>5. /\ gate = "GATED_DP" => Agrees(ReservedAhead(settled, again, predicted), Running \ {a},
                                         (Promised \ {a}) \cup {again}, credits', attempts', now')
          /\ gate # "GATED_DP" => Agrees(ReservedAhead(settled, again, predicted), Running \ {a},
                                         Promised \ {a}, credits', attempts', now')
      BY <1>4, <1>6, <2>3, <2>5, <2>11, <2>15, <3>3, <3>4, ReserveAheadAgrees
    <3>6. /\ Running' = Running \ {a}
          /\ gate = "GATED_DP" => Promised' = (Promised \ {a}) \cup {again}
          /\ gate # "GATED_DP" => Promised' = Promised \ {a}
      <4>1. {a} \in SUBSET DOMAIN attempts
        BY <1>4
      <4>2. QED
        BY <1>1, <1>4, <2>4, <2>15, <4>1, PlansTell
    <3>7. Agrees(ledger', Running', Promised', credits', attempts', now')
      BY <2>1, <3>5, <3>6
    <3>8. QED
      BY <3>7, MatchIsAgreement
  <2>16. LedgerOK(ledger)'
    BY <1>4, <2>1, <2>7 DEF LedgerOK, Items, AttemptKey, Held, Temporal
  <2>17. AbortInv'
    BY <1>2, <2>4, <2>9, PlansAbortNobody
  <2>18. AbortsAreRetried'
    <3>1. attempts'[again].terminal = "COMPLETED" /\ again \in DOMAIN attempts'
      BY <2>4, <2>9 DEF Plans1, Sound
    <3>2. \A b \in DOMAIN attempts : b \in DOMAIN attempts' /\ attempts'[b] = attempts[b]
      BY <2>4 DEF Plans1
    <3>3. QED
      BY <1>0, <1>2, <1>4, <1>5, <3>1, <3>2, Zenon DEF AbortsAreRetried
  <2>19. QED
    BY <1>7, <1>8, <2>10, <2>11, <2>12, <2>13, <2>14, <2>15, <2>16, <2>17, <2>18 DEF PolicyInv
<1>12. QED
  BY <1>10, <1>11
-----------------------------------------------------------------------------
(* The invariant, and what follows from it.                                 *)

LEMMA NothingIsHeld == LedgerOK(EmptyLedger)
<1>1. Temporal(EmptyLedger) = {}
  BY DEF EmptyLedger, Temporal
<1>2. ASSUME NEW t \in Nat PROVE Held(Temporal(EmptyLedger), t) <= Capacity
  <2>1. At({}, t) = {}
    BY DEF At
  <2>2. Held({}, t) = 0
    BY <2>1, HeldIsSum, SumOfNone DEF CreditsOf
  <2>3. QED
    BY <1>1, <2>2, CapacityAssumption
<1>3. IsFiniteSet({})
  BY FS_EmptySet
<1>4. <<>> \in UNION {[keys -> Nat] : keys \in SUBSET AttemptKey}
  <2>1. <<>> \in [{} -> Nat]
    OBVIOUS
  <2>2. {} \in SUBSET AttemptKey
    OBVIOUS
  <2>3. QED
    BY <2>1, <2>2
<1>5. QED
  BY <1>2, <1>3, <1>4 DEF LedgerOK, EmptyLedger

LEMMA InitPolicyInv == ASSUME PolicyInit PROVE PolicyInv
<1>1. /\ Init /\ gate \in Gates /\ ledger = EmptyLedger /\ credits = <<>> /\ fences = <<>>
      /\ aborted = {} /\ raised = FALSE
  BY DEF PolicyInit
<1>2. KernelInv
  BY <1>1, InitKernelInv
<1>3. DOMAIN attempts = {} /\ DOMAIN credits = {} /\ DOMAIN fences = {} /\ done = {}
  BY <1>1 DEF Init
<1>4. Running = {} /\ Sleepers = {}
  BY <1>2, <1>3, SleepersAreAttempts DEF Running
<1>5. ~NoGate => MatchInv
  <2>1. ASSUME ~NoGate PROVE Promised = {}
    <3>1. gate \in {"DEFER", "GATED_DP", "GATED_PD"}
      BY <1>1, <2>1, PolicyAssumption DEF NoGate
    <3>2. QED
      BY <1>3, <1>4, <3>1 DEF Promised
  <2>2. /\ ledger.executing = {} /\ ledger.active = {} /\ DOMAIN ledger.reserved = {}
    BY <1>1 DEF EmptyLedger
  <2>3. QED
    BY <1>4, <2>1, <2>2 DEF MatchInv
<1>6. LedgerOK(ledger)
  BY <1>1, NothingIsHeld
<1>7. AbortInv /\ AbortsAreRetried
  BY <1>3 DEF AbortInv, AbortsAreRetried
<1>8. QED
  BY <1>1, <1>2, <1>3, <1>5, <1>6, <1>7 DEF PolicyInv

LEMMA StillPolicyInv == ASSUME PolicyInv, UNCHANGED vars PROVE PolicyInv'
<1>1. UNCHANGED <<workload, now, queue, serial, attempts, cache, busy, waiting, queuedWork,
                  dAvailable, done, gate, ledger, credits, fences, aborted, raised>>
  BY DEF vars, kernelVars, policyVars
<1>2. KernelInv /\ KernelInv'
  BY <1>1, StepKernelInv DEF PolicyInv, kernelVars
<1>3. Quiet
  BY <1>1, <1>2, KernelAssumption DEF Quiet, Sleepers, KernelInv, KernelTypeOK
<1>4. aborted' \subseteq Abortable /\ \A b \in DOMAIN attempts : attempts'[b].terminal = attempts[b].terminal
  BY <1>1 DEF PolicyInv
<1>5. QED
  BY <1>1, <1>2, <1>3, <1>4, QuietKeepsPolicy

LEMMA StepPolicyInv == ASSUME PolicyInv, [PolicyNext]_vars PROVE PolicyInv'
<1>1. KernelInv
  BY DEF PolicyInv
<1>2. ASSUME NEW e \in queue, PolicyStep(e) PROVE PolicyInv'
  <2>1. CASE PlanAttempt(e)
    BY <2>1, PlanKeepsPolicy
  <2>2. CASE LookAtDecode(e)
    BY <2>2, LookKeepsPolicy
  <2>3. CASE Reprice(e)
    BY <2>3, RepriceKeepsPolicy
  <2>4. CASE Finished(e)
    BY <2>4, FinishKeepsPolicy
  <2>5. CASE (AttemptReady(e) \/ PrefillStart(e) \/ StaleDecodeStart(e)) /\ UNCHANGED policyVars
    <3>1. KernelInv'
      BY <1>1, <2>5, ReadyKeepsInv, PrefillStartKeepsInv, StaleKeepsInv
    <3>2. Quiet /\ \A b \in DOMAIN attempts : attempts'[b].terminal = attempts[b].terminal
      BY <1>1, <2>5, ReadyIsQuiet, PrefillStartIsQuiet, StaleIsQuiet
    <3>3. UNCHANGED <<gate, ledger, credits, fences, raised>> /\ aborted' \subseteq Abortable
      BY <2>5 DEF policyVars, PolicyInv
    <3>4. QED
      BY <3>1, <3>2, <3>3, QuietKeepsPolicy
  <2>6. QED
    BY <1>2, <2>1, <2>2, <2>3, <2>4, <2>5 DEF PolicyStep
<1>3. QED
  BY <1>2, StillPolicyInv DEF PolicyNext

\* Between two events the ledger holds no more than its capacity and agrees
\* with the kernel on who decodes, who waits and who is owed what, whatever the
\* workload, the pools, the predictions and the capacity
\* (DecodeCapacityPolicy on CausalKernel.run).
THEOREM PolicyInvariance == PolicySpec => []PolicyInv
<1>1. PolicyInit => PolicyInv
  BY InitPolicyInv
<1>2. PolicyInv /\ [PolicyNext]_vars => PolicyInv'
  BY StepPolicyInv
<1>3. QED
  BY <1>1, <1>2, PTL DEF PolicySpec

\* At no moment, past or to come, do the reservations and the running decodes
\* together hold more than the capacity (reserve and activate of
\* DecodeCreditLedger).
THEOREM CreditsFit == PolicySpec => []CreditsWithinCapacity
<1>1. ASSUME PolicyInv, NEW x \in Temporal(ledger)
      PROVE  Held(Temporal(ledger), x.starts) <= Capacity
  <2>1. LedgerOK(ledger) /\ Temporal(ledger) \subseteq Items
    BY <1>1, LedgerItems DEF PolicyInv
  <2>2. x.starts \in Nat
    BY <2>1 DEF Items
  <2>3. QED
    BY <2>1, <2>2 DEF LedgerOK
<1>2. PolicyInv => CreditsWithinCapacity
  BY <1>1 DEF CreditsWithinCapacity
<1>3. QED
  BY <1>2, PolicyInvariance, PTL

\* Nothing the policy asks of the ledger makes it raise, and the ledger runs
\* what the kernel decodes and owes each attempt what was predicted of it until
\* it is settled (reserve, activate and settle, decode_not_before and
\* attempt_finished).
THEOREM LedgerFollowsKernel == PolicySpec => []LedgerMatchesKernel
<1>1. ASSUME PolicyInv PROVE PolicyTypeOK
  <2>1. LedgerOK(ledger) /\ Temporal(ledger) \subseteq Items
    BY <1>1, LedgerItems DEF PolicyInv
  <2>2. /\ KernelTypeOK /\ gate \in Gates /\ DOMAIN credits = DOMAIN attempts
        /\ DOMAIN fences \subseteq DOMAIN attempts /\ aborted \subseteq Abortable
    BY <1>1 DEF PolicyInv, KernelInv
  <2>3. \A a \in DOMAIN credits : credits[a] \in Predictions \cup {0}
    BY <1>1 DEF PolicyInv, Predicted
  <2>4. /\ DOMAIN ledger.reserved \subseteq DOMAIN attempts
        /\ {x.attempt : x \in ledger.active} \subseteq DOMAIN ledger.reserved
    <3>1. CASE NoGate
      <4>1. ledger.active = {} /\ DOMAIN ledger.reserved = {}
        BY <1>1, <3>1 DEF PolicyInv, EmptyLedger
      <4>2. QED
        BY <4>1
    <3>2. CASE ~NoGate
      BY <1>1, <3>2, GateIs DEF PolicyInv, MatchInv
    <3>3. QED
      BY <3>1, <3>2
  <2>5. QED
    BY <2>1, <2>2, <2>3, <2>4 DEF PolicyTypeOK, Items
<1>2. ASSUME PolicyInv, ~NoGate
      PROVE  Promised = CASE gate = "DEFER" -> Running
                          [] gate = "GATED_DP" -> DOMAIN attempts \ done
                          [] gate = "GATED_PD" -> Running \cup
                                {a \in DOMAIN attempts \ done :
                                    \E e \in EventsOf(a) : e.kind = "DECODE_START"}
  <2>1. Sleepers \subseteq DOMAIN attempts
    BY <1>2, SleepersAreAttempts DEF PolicyInv
  <2>2. Sleepers \ done = {a \in DOMAIN attempts \ done :
                              \E e \in EventsOf(a) : e.kind = "DECODE_START"}
    BY <2>1 DEF Sleepers, EventsOf
  <2>3. QED
    BY <1>2, <2>2, GateIs DEF Promised
<1>3. ASSUME PolicyInv, ~NoGate
      PROVE  /\ {x.attempt : x \in ledger.executing} = Running
             /\ \A x \in ledger.executing : x.starts = attempts[x.attempt].decodeStart
             /\ DOMAIN ledger.reserved = Promised
             /\ \A a \in Promised : ledger.reserved[a] = credits[a]
  BY <1>3 DEF PolicyInv, MatchInv
<1>4. PolicyInv => LedgerMatchesKernel
  <2>1. SUFFICES ASSUME PolicyInv PROVE LedgerMatchesKernel
    OBVIOUS
  <2>2. PolicyTypeOK /\ LedgerNeverRaises
    BY <1>1, <2>1 DEF PolicyInv, LedgerNeverRaises
  <2>3. CASE NoGate
    BY <2>2, <2>3 DEF LedgerMatchesKernel
  <2>4. CASE ~NoGate
    BY <1>2, <1>3, <2>1, <2>2, <2>4 DEF LedgerMatchesKernel
  <2>5. QED
    BY <2>3, <2>4
<1>5. QED
  BY <1>4, PolicyInvariance, PTL

\* An aborted request always has an attempt under way or one that completed,
\* and is aborted at most once (reprice_decode and next_attempt).
THEOREM AbortsLoseNothing == PolicySpec => []AbortsAreRetried
<1>1. PolicyInv => AbortsAreRetried
  BY DEF PolicyInv
<1>2. QED
  BY <1>1, PolicyInvariance, PTL

\* What holds of the kernel under free answers holds under this policy's, which
\* defers, fences and aborts: nodes serve one attempt at a time, requests go
\* forward on one path, the queue proxy and the hits are exact, and nobody
\* oversleeps.
THEOREM KernelUnderPolicy ==
    PolicySpec => [](/\ NodesRunOneAtATime /\ AttemptsAdvance /\ QueueProxyExact
                     /\ HitsComeFromPublishedWork /\ NobodyOversleeps)
<1>1. PolicyInv => /\ NodesRunOneAtATime /\ AttemptsAdvance /\ QueueProxyExact
                   /\ HitsComeFromPublishedWork /\ NobodyOversleeps
  BY ServedOneAtATime, EachAdvances, WokenInTime DEF PolicyInv, KernelInv
<1>2. QED
  BY <1>1, PolicyInvariance, PTL
===============================================================================
