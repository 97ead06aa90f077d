---------------------------- MODULE EvictionProofs ----------------------------
(***************************************************************************)
(* Bounded caches, for any nodes, keys, workload, capacity and delays: as  *)
(* long as the kernel applies every proposal, the policy's order, the      *)
(* census and the digest ledger name the caches of the kernel, and by      *)
(* census the last copy of a hot key stays.  The sequences of the model    *)
(* come first, then the census, then the books after a plan and after a    *)
(* completion, which is where the books and the caches could part.         *)
(***************************************************************************)
EXTENDS Eviction, SumTheorems, SequenceTheorems, TLAPS

\* The members of s in S are again a sequence of what s holds.
LEMMA KeptIs ==
    ASSUME NEW V, NEW s \in Seq(V), NEW S
    PROVE  Kept(s, S) \in Seq(V) /\ ToSet(Kept(s, S)) = ToSet(s) \cap S
<1>1. PICK parts : parts = [i \in DOMAIN s |-> IF s[i] \in S THEN <<s[i]>> ELSE <<>>]
  OBVIOUS
<1>2. DOMAIN s = 1..Len(s) /\ Len(s) \in Nat /\ \A i \in 1..Len(s) : s[i] \in V
  OBVIOUS
<1>3. \A i \in 1..Len(s) : parts[i] \in Seq(V)
  BY <1>1, <1>2
<1>4. parts \in Seq(Seq(V)) /\ Len(parts) = Len(s)
  <2>1. parts \in [1..Len(s) -> Seq(V)]
    BY <1>1, <1>2, <1>3
  <2> QED  BY <1>2, <2>1
<1>5. ASSUME NEW i \in 1..Len(s)
      PROVE  \A x : x \in ToSet(parts[i]) <=> x = s[i] /\ x \in S
  <2>1. CASE s[i] \in S
    <3>1. parts[i] = <<s[i]>>
      BY <1>1, <1>2, <2>1
    <3>2. DOMAIN parts[i] = {1} /\ parts[i][1] = s[i]
      BY <3>1
    <3> QED  BY <2>1, <3>2 DEF ToSet
  <2>2. CASE s[i] \notin S
    <3>1. parts[i] = <<>>
      BY <1>1, <1>2, <2>2
    <3>2. DOMAIN parts[i] = {}
      BY <3>1
    <3> QED  BY <2>2, <3>2 DEF ToSet
  <2> QED  BY <2>1, <2>2
<1>6. /\ FlattenSeq(parts) \in Seq(V)
      /\ \A x : x \in ToSet(FlattenSeq(parts)) <=> \E i \in 1..Len(parts) : x \in ToSet(parts[i])
  BY <1>4, Flattened
<1>7. Kept(s, S) = FlattenSeq(parts)
  BY <1>1 DEF Kept
<1>8. \A x : x \in ToSet(Kept(s, S)) <=> x \in ToSet(s) /\ x \in S
  <2>1. \A x : x \in ToSet(s) <=> \E i \in 1..Len(s) : x = s[i]
    BY <1>2 DEF ToSet
  <2>2. \A x : x \in ToSet(FlattenSeq(parts)) <=> \E i \in 1..Len(s) : x = s[i] /\ x \in S
    BY <1>4, <1>5, <1>6
  <2> QED  BY <1>7, <2>1, <2>2
<1> QED  BY <1>6, <1>7, <1>8

\* The newest members are members.
LEMMA NewestIs ==
    ASSUME NEW V, NEW s \in Seq(V), NEW limit \in Nat
    PROVE  Newest(s, limit) \in Seq(V) /\ ToSet(Newest(s, limit)) \subseteq ToSet(s)
<1>1. Len(s) \in Nat /\ DOMAIN s = 1..Len(s)
  OBVIOUS
<1>2. CASE Len(s) <= limit
  BY <1>2 DEF Newest
<1>3. CASE ~(Len(s) <= limit)
  <2>1. PICK a : a = Len(s) - limit + 1
    OBVIOUS
  <2>2. a \in 1..(Len(s) + 1) /\ Newest(s, limit) = SubSeq(s, a, Len(s))
    BY <1>1, <1>3, <2>1 DEF Newest
  <2>3. SubSeq(s, a, Len(s)) \in Seq(V)
    BY <1>1, <2>2
  <2>4. /\ DOMAIN SubSeq(s, a, Len(s)) = 1..(Len(s) - a + 1)
        /\ \A i \in 1..(Len(s) - a + 1) : SubSeq(s, a, Len(s))[i] = s[i + a - 1]
    BY <1>1, <2>2
  <2>5. \A i \in 1..(Len(s) - a + 1) : i + a - 1 \in DOMAIN s
    BY <1>1, <2>2
  <2> QED  BY <2>2, <2>3, <2>4, <2>5 DEF ToSet
<1> QED  BY <1>2, <1>3

\* The orders of a node: what comes joins it, what is used only moves.
LEMMA OrdersAre ==
    ASSUME NEW V, NEW order \in Seq(V), NEW ks \in Seq(V)
    PROVE  /\ Joined(order, ks) \in Seq(V)
           /\ ToSet(Joined(order, ks)) = ToSet(order) \cup ToSet(ks)
           /\ Touched(order, ks) \in Seq(V)
           /\ ToSet(Touched(order, ks)) = ToSet(order)
<1>1. PICK a : a = Kept(ks, ToSet(ks) \ ToSet(order))
  OBVIOUS
<1>2. PICK b : b = Kept(order, ToSet(order) \ ToSet(ks))
  OBVIOUS
<1>3. PICK c : c = Kept(ks, ToSet(order))
  OBVIOUS
<1>4. a \in Seq(V) /\ ToSet(a) = ToSet(ks) \cap (ToSet(ks) \ ToSet(order))
  BY <1>1, KeptIs
<1>5. b \in Seq(V) /\ ToSet(b) = ToSet(order) \cap (ToSet(order) \ ToSet(ks))
  BY <1>2, KeptIs
<1>6. c \in Seq(V) /\ ToSet(c) = ToSet(ks) \cap ToSet(order)
  BY <1>3, KeptIs
<1>7. order \o a \in Seq(V) /\ ToSet(order \o a) = ToSet(order) \cup ToSet(a)
  BY <1>4, ConcatSet
<1>8. b \o c \in Seq(V) /\ ToSet(b \o c) = ToSet(b) \cup ToSet(c)
  BY <1>5, <1>6, ConcatSet
<1>9. Joined(order, ks) = order \o a /\ Touched(order, ks) = b \o c
  BY <1>1, <1>2, <1>3 DEF Joined, Touched
<1> QED  BY <1>4, <1>5, <1>6, <1>7, <1>8, <1>9

\* The dearest of a finite set of keys, the greatest of equals.
LEMMA DearestExists ==
    ASSUME NEW S, IsFiniteSet(S), S # {}, S \subseteq Int, NEW cost, \A k \in S : cost[k] \in Int
    PROVE  \E x \in S : \A k \in S \ {x} : \/ cost[k] < cost[x]
                                           \/ cost[k] = cost[x] /\ k < x
<1>1. PICK C : C = {cost[k] : k \in S}
  OBVIOUS
<1>2. IsFiniteSet(C) /\ C # {} /\ C \subseteq Int
  BY <1>1, ImageIsFinite
<1>3. PICK c \in C : \A d \in C : d <= c
  BY <1>2, GreatestExists
<1>4. PICK D : D = {k \in S : cost[k] = c}
  OBVIOUS
<1>5. IsFiniteSet(D) /\ D # {} /\ D \subseteq Int
  <2>1. D # {}
    BY <1>1, <1>3, <1>4
  <2>2. D \subseteq S
    BY <1>4
  <2> QED  BY <2>1, <2>2, FS_Subset
<1>6. PICK x \in D : \A k \in D : k <= x
  BY <1>5, GreatestExists
<1>7. ASSUME NEW k \in S \ {x} PROVE cost[k] < cost[x] \/ (cost[k] = cost[x] /\ k < x)
  <2>1. x \in S /\ cost[x] = c /\ c \in Int /\ cost[k] \in Int
    BY <1>4, <1>6
  <2>2. cost[k] <= c
    BY <1>1, <1>3
  <2>3. CASE cost[k] = c
    <3>1. k \in D
      BY <1>4, <2>3
    <3> QED  BY <1>6, <2>1, <2>3, <3>1
  <2> QED  BY <2>1, <2>2, <2>3
<1> QED  BY <1>4, <1>6, <1>7

\* An arrangement of the keys of a set exists, so that Arranged is one.
LEMMA ArrangedIs ==
    ASSUME NEW S, IsFiniteSet(S), S \subseteq Int, NEW cost, \A k \in S : cost[k] \in Int
    PROVE  /\ Arranged(S, cost) \in Seq(S)
           /\ ToSet(Arranged(S, cost)) = S
           /\ Len(Arranged(S, cost)) = Cardinality(S)
<1> DEFINE Before(k, l) == cost[k] < cost[l] \/ (cost[k] = cost[l] /\ k < l)
           Is(s, u) == /\ s \in [1..Cardinality(u) -> u]
                       /\ ToSet(s) = u
                       /\ \A i, j \in DOMAIN s : i < j => Before(s[i], s[j])
           Has(u) == \E s : Is(s, u)
           T == {u \in SUBSET S : Has(u)}
<1>1. ASSUME NEW u \in SUBSET S, \A v \in SUBSET u : v # u => v \in T PROVE u \in T
  <2>1. CASE u = {}
    <3>1. PICK s : s = [i \in 1..0 |-> 0]
      OBVIOUS
    <3>2. Cardinality({}) = 0 /\ DOMAIN s = {} /\ 1..0 = {}
      BY <3>1, FS_EmptySet
    <3>3. s \in [1..0 -> {}] /\ ToSet(s) = {}
      BY <3>1, <3>2 DEF ToSet
    <3>4. Is(s, u)
      BY <2>1, <3>2, <3>3
    <3> QED  BY <3>4
  <2>2. CASE u # {}
    <3>1. IsFiniteSet(u) /\ u \subseteq Int /\ \A k \in u : cost[k] \in Int
      BY FS_Subset
    <3>2. PICK x \in u : \A k \in u \ {x} : Before(k, x)
      BY <2>2, <3>1, DearestExists
    <3>3. PICK v : v = u \ {x}
      OBVIOUS
    <3>4. v \in SUBSET u /\ v # u /\ x \notin v /\ u = v \cup {x}
      BY <3>2, <3>3
    <3>5. v \in T
      BY <1>1, <3>4
    <3>6. PICK s : Is(s, v)
      BY <3>5
    <3>7. PICK n : n = Cardinality(v)
      OBVIOUS
    <3>8. n \in Nat /\ Cardinality(u) = n + 1
      <4>1. IsFiniteSet(v)
        BY <3>1, <3>4, FS_Subset
      <4> QED  BY <3>4, <3>7, <4>1, FS_CardinalityType, FS_AddElement
    <3>9. PICK t : t = [i \in 1..(n + 1) |-> IF i = n + 1 THEN x ELSE s[i]]
      OBVIOUS
    <3>10. /\ DOMAIN s = 1..n /\ DOMAIN t = 1..(n + 1)
           /\ t[n + 1] = x
           /\ \A i \in 1..n : t[i] = s[i] /\ s[i] \in v
           /\ \A i : i \in 1..(n + 1) <=> i \in 1..n \/ i = n + 1
           /\ \A i \in 1..n : i < n + 1
      BY <3>6, <3>7, <3>8, <3>9
    <3>11. t \in [1..(n + 1) -> u]
      BY <3>2, <3>4, <3>9, <3>10
    <3>12. ToSet(t) = u
      <4>1. ToSet(s) = v
        BY <3>6
      <4>2. \A y : y \in ToSet(t) <=> y \in ToSet(s) \/ y = x
        BY <3>10 DEF ToSet
      <4> QED  BY <3>4, <4>1, <4>2
    <3>13. ASSUME NEW i \in DOMAIN t, NEW j \in DOMAIN t, i < j PROVE Before(t[i], t[j])
      <4>1. i \in 1..n
        BY <3>8, <3>10, <3>13
      <4>2. CASE j \in 1..n
        <5>1. Before(s[i], s[j])
          BY <3>6, <3>10, <3>13, <4>1, <4>2
        <5> QED  BY <3>10, <4>1, <4>2, <5>1
      <4>3. CASE j = n + 1
        <5>1. s[i] \in u \ {x}
          BY <3>3, <3>10, <4>1
        <5> QED  BY <3>2, <3>10, <4>1, <4>3, <5>1
      <4> QED  BY <3>10, <3>13, <4>2, <4>3
    <3>14. Is(t, u)
      BY <3>8, <3>11, <3>12, <3>13
    <3> QED  BY <3>14
  <2> QED  BY <2>1, <2>2
<1>2. T = SUBSET S
  <2> HIDE DEF Has
  <2>1. T \in SUBSET SUBSET S
    OBVIOUS
  <2> HIDE DEF T
  <2> QED  BY <1>1, <2>1, SubsetInduction
<1>3. Has(S)
  <2> HIDE DEF Has
  <2> QED  BY <1>2
<1> DEFINE Chosen1 == CHOOSE s : Is(s, S)
<1>4. PICK s : Is(s, S)
  BY <1>3
<1>5. PICK n : n = Cardinality(S)
  OBVIOUS
<1>6. n \in Nat
  BY <1>5, FS_CardinalityType
<1> DEFINE Ordered(f) == /\ ToSet(f) = S
                         /\ \A i, j \in DOMAIN f : i < j => Before(f[i], f[j])
<1>7. Arranged(S, cost) = CHOOSE f \in [1..n -> S] : Ordered(f)
  BY <1>5 DEF Arranged
<1>8. s \in [1..n -> S] /\ Ordered(s)
  BY <1>4, <1>5
<1>9. \E f \in [1..n -> S] : Ordered(f)
  <2> HIDE DEF Ordered
  <2> QED  BY <1>8
<1>10. Arranged(S, cost) \in [1..n -> S] /\ Ordered(Arranged(S, cost))
  <2> HIDE DEF Ordered
  <2> QED  BY <1>7, <1>9
<1> QED  BY <1>5, <1>6, <1>10

\* The keys of a finite set of integers in their order.
LEMMA SortedIs ==
    ASSUME NEW S, IsFiniteSet(S), S \subseteq Int
    PROVE  Sorted(S) \in Seq(S) /\ ToSet(Sorted(S)) = S /\ Len(Sorted(S)) = Cardinality(S)
<1>1. PICK cost : cost = [k \in S |-> 0]
  OBVIOUS
<1>2. \A k \in S : cost[k] \in Int
  BY <1>1
<1>3. /\ Arranged(S, cost) \in Seq(S)
      /\ ToSet(Arranged(S, cost)) = S
      /\ Len(Arranged(S, cost)) = Cardinality(S)
  BY <1>2, ArrangedIs
<1> QED  BY <1>1, <1>3 DEF Sorted

\* The estimate of a key's reuse is a natural number.
LEMMA ReuseIs ==
    ASSUME history \in [Keys -> Seq(Nat)], now \in Nat, NEW k \in Keys
    PROVE  Reuse(k) \in Nat
<1>1. PICK past : past = history[k]
  OBVIOUS
<1>2. past \in Seq(Nat) /\ DOMAIN past = 1..Len(past) /\ Len(past) \in Nat
  <2>1. past \in Seq(Nat)
    BY <1>1
  <2> QED  BY <2>1
<1>3. PICK recent : recent = {i \in DOMAIN past : past[i] >= now - DecayWindow}
  OBVIOUS
<1>4. IsFiniteSet(1..Len(past))
  BY <1>2, FS_Interval
<1>5. IsFiniteSet(recent) /\ Cardinality(recent) \in Nat
  <2>1. recent \subseteq 1..Len(past)
    BY <1>2, <1>3
  <2> QED  BY <1>4, <2>1, FS_Subset, FS_CardinalityType
<1>6. PICK count : count = Cardinality(recent)
  OBVIOUS
<1>7. Reuse(k) = IF count < 2 THEN 0 ELSE Min({HistoryLimit, count}) - 1
  BY <1>1, <1>3, <1>6 DEF Reuse
<1>8. HistoryLimit \in Nat \ {0, 1} /\ count \in Nat
  BY <1>5, <1>6, BoundsAssumption
<1>9. Min({HistoryLimit, count}) \in {HistoryLimit, count}
  <2>1. HistoryLimit \in Int /\ count \in Int
    BY <1>8
  <2> QED  BY <2>1, MinOfTwo
<1> QED  BY <1>7, <1>8, <1>9

\* The entries whose holders hold their key in the caches c, and the
\* observations whose holder does.
Truths(c) == {e \in [key : Keys, at : Int, holders : SUBSET Nodes] :
                 \A n \in e.holders : e.key \in c[n]}
Sights(c) == {o \in [visible : Int, at : Int, key : Keys, holder : Nodes] :
                 o.key \in c[o.holder]}

\* A true observation keeps the census true.
LEMMA ObserveIs ==
    ASSUME NEW c, NEW entries \in Seq(Truths(c)), NEW obs \in Sights(c)
    PROVE  Observe(entries, obs) \in Seq(Truths(c))
<1>1. PICK old : old = {e \in ToSet(entries) : e.key = obs.key}
  OBVIOUS
<1>2. PICK holders : holders = {obs.holder} \cup UNION {e.holders : e \in old}
  OBVIOUS
<1>3. PICK entry : entry = [key |-> obs.key, at |-> obs.at, holders |-> holders]
  OBVIOUS
<1>4. ToSet(entries) \subseteq Truths(c)
  BY MembersAreFinite
<1>5. /\ obs.key \in Keys /\ obs.at \in Int /\ obs.holder \in Nodes
      /\ obs.key \in c[obs.holder]
  BY DEF Sights
<1>6. \A n \in holders : n \in Nodes /\ obs.key \in c[n]
  <2>1. ASSUME NEW e \in old, NEW n \in e.holders PROVE n \in Nodes /\ obs.key \in c[n]
    <3>1. e \in Truths(c) /\ e.key = obs.key
      BY <1>1, <1>4
    <3> QED  BY <2>1, <3>1 DEF Truths
  <2>2. \A n \in holders : n = obs.holder \/ \E e \in old : n \in e.holders
    BY <1>2
  <2> QED  BY <1>5, <2>1, <2>2
<1>7. entry \in Truths(c)
  BY <1>3, <1>5, <1>6 DEF Truths
<1>8. PICK rest : rest = Kept(entries, ToSet(entries) \ old)
  OBVIOUS
<1>9. rest \in Seq(Truths(c))
  BY <1>8, KeptIs
<1>10. Append(rest, entry) \in Seq(Truths(c))
  BY <1>7, <1>9, AppendIs
<1>11. MaxEntries \in Nat
  BY BoundsAssumption
<1>12. Newest(Append(rest, entry), MaxEntries) \in Seq(Truths(c))
  BY <1>10, <1>11, NewestIs
<1>13. Observe(entries, obs) = Newest(Append(rest, entry), MaxEntries)
  BY <1>1, <1>2, <1>3, <1>8 DEF Observe
<1> QED  BY <1>12, <1>13

\* So do any number of them, one after the other.
LEMMA ObservedIs ==
    ASSUME NEW c, NEW entries \in Seq(Truths(c)), NEW obs \in Seq(Sights(c))
    PROVE  Observed(entries, obs) \in Seq(Truths(c))
<1>1. PICK n : n = Len(obs)
  OBVIOUS
<1>2. n \in Nat /\ \A i \in 1..n : obs[i] \in Sights(c)
  BY <1>1
<1>3. PICK stp : stp = [p \in (1..n) \X Seq(Truths(c)) |-> Observe(p[2], obs[p[1]])]
  OBVIOUS
<1>4. PICK h : h = [i \in 0..n |-> IF i = 0 THEN entries ELSE stp[<<i, h[i - 1]>>]]
  <2>1. PICK h : Stepwise(h, n, entries, stp)
    BY <1>2, StepsAreDefined
  <2> QED  BY <2>1 DEF Stepwise
<1>5. h[0] = entries /\ \A i \in 1..n : h[i] = stp[<<i, h[i - 1]>>]
  <2>1. 0 \in 0..n /\ \A i \in 1..n : i \in 0..n /\ i # 0
    BY <1>2
  <2> QED  BY <1>4, <2>1
<1>6. ASSUME NEW i \in 1..n, h[i - 1] \in Seq(Truths(c))
      PROVE  h[i] = Observe(h[i - 1], obs[i]) /\ h[i] \in Seq(Truths(c))
  <2>1. <<i, h[i - 1]>> \in (1..n) \X Seq(Truths(c))
    BY <1>6
  <2>2. stp[<<i, h[i - 1]>>] = Observe(h[i - 1], obs[i])
    BY <1>3, <2>1
  <2>3. Observe(h[i - 1], obs[i]) \in Seq(Truths(c))
    BY <1>2, <1>6, ObserveIs
  <2> QED  BY <1>5, <2>2, <2>3
<1>7. \A i \in 0..n : h[i] \in Seq(Truths(c))
  BY <1>2, <1>5, <1>6, StepsStay
<1> DEFINE Is(f) == f = [i \in 0..Len(obs) |-> IF i = 0 THEN entries ELSE Observe(f[i - 1], obs[i])]
<1>8. Is(h)
  <2>1. ASSUME NEW i \in 0..n
        PROVE  h[i] = IF i = 0 THEN entries ELSE Observe(h[i - 1], obs[i])
    <3>1. CASE i = 0
      BY <1>5, <3>1
    <3>2. CASE i # 0
      <4>1. i \in 1..n /\ i - 1 \in 0..n
        BY <1>2, <3>2
      <4> QED  BY <1>6, <1>7, <3>2, <4>1
    <3> QED  BY <3>1, <3>2
  <2>2. h = [i \in 0..n |-> h[i]]
    BY <1>4
  <2> QED  BY <1>1, <2>1, <2>2
<1> DEFINE upto == CHOOSE f : Is(f)
<1>9. Observed(entries, obs) = upto[Len(obs)]
  BY DEF Observed
<1>10. Is(upto)
  <2> HIDE DEF Is
  <2> QED  BY <1>8
<1> HIDE DEF upto
<1>11. PICK u : u = upto
  OBVIOUS
<1>12. u = [i \in 0..n |-> IF i = 0 THEN entries ELSE Observe(u[i - 1], obs[i])]
  BY <1>1, <1>10, <1>11
<1>13. \A i \in 0..n : u[i] \in Seq(Truths(c))
  <2>1. u[0] = entries
    BY <1>2, <1>12
  <2>2. ASSUME NEW i \in 1..n, u[i - 1] \in Seq(Truths(c)) PROVE u[i] \in Seq(Truths(c))
    <3>1. u[i] = Observe(u[i - 1], obs[i])
      <4>1. i \in 0..n /\ i # 0
        BY <1>2
      <4> QED  BY <1>12, <4>1
    <3> QED  BY <1>2, <2>2, <3>1, ObserveIs
  <2> QED  BY <1>2, <2>1, <2>2, StepsStay
<1> QED  BY <1>1, <1>2, <1>9, <1>11, <1>13

\* The caches d after the keys gone have left node n of the caches c.
Leaves(c, d, gone, n) ==
    /\ \A m \in Nodes \ {n} : d[m] = c[m]
    /\ c[n] \ gone \subseteq d[n]

\* The census forgets the holder of what left.
LEMMA StrikesAre ==
    ASSUME NEW c, NEW d, NEW gone, NEW n \in Nodes, Leaves(c, d, gone, n),
           NEW entries \in Seq(Truths(c))
    PROVE  Strikes(entries, gone, n) \in Seq(Truths(d))
<1>1. PICK lft : lft = [i \in DOMAIN entries |->
                    IF entries[i].key \in gone
                    THEN [entries[i] EXCEPT !.holders = @ \ {n}] ELSE entries[i]]
  OBVIOUS
<1>2. /\ DOMAIN entries = 1..Len(entries) /\ Len(entries) \in Nat
      /\ \A i \in 1..Len(entries) : entries[i] \in Truths(c)
  OBVIOUS
<1>3. ASSUME NEW i \in 1..Len(entries) PROVE lft[i] \in Truths(d)
  <2>1. PICK e : e = entries[i]
    OBVIOUS
  <2>2. /\ e \in [key : Keys, at : Int, holders : SUBSET Nodes]
        /\ \A m \in e.holders : e.key \in c[m]
    BY <1>2, <2>1 DEF Truths
  <2>3. CASE e.key \in gone
    <3>1. lft[i] = [e EXCEPT !.holders = e.holders \ {n}]
      BY <1>1, <1>2, <2>1, <2>3
    <3>2. lft[i] \in [key : Keys, at : Int, holders : SUBSET Nodes]
          /\ lft[i].key = e.key /\ lft[i].holders = e.holders \ {n}
      BY <2>2, <3>1
    <3>3. \A m \in e.holders \ {n} : e.key \in d[m]
      BY <2>2 DEF Leaves
    <3> QED  BY <3>2, <3>3 DEF Truths
  <2>4. CASE e.key \notin gone
    <3>1. lft[i] = e
      BY <1>1, <1>2, <2>1, <2>4
    <3>2. \A m \in e.holders : e.key \in d[m]
      BY <2>2, <2>4 DEF Leaves
    <3> QED  BY <2>2, <3>1, <3>2 DEF Truths
  <2> QED  BY <2>3, <2>4
<1>4. lft \in Seq(Truths(d))
  <2>1. lft \in [1..Len(entries) -> Truths(d)]
    BY <1>1, <1>2, <1>3
  <2> QED  BY <1>2, <2>1
<1>5. PICK S : S = {e \in ToSet(lft) : e.holders # {}}
  OBVIOUS
<1>6. Kept(lft, S) \in Seq(Truths(d))
  BY <1>4, KeptIs
<1>7. Strikes(entries, gone, n) = Kept(lft, S)
  BY <1>1, <1>5 DEF Strikes
<1> QED  BY <1>6, <1>7

\* The delayed census forgets as well what it has not shown yet.
LEMMA StrikesPendingAre ==
    ASSUME NEW c, NEW d, NEW gone, NEW n \in Nodes, Leaves(c, d, gone, n),
           NEW waiting \in Seq(Sights(c))
    PROVE  StrikesPending(waiting, gone, n) \in Seq(Sights(d))
<1>1. PICK S : S = {o \in ToSet(waiting) : ~(o.key \in gone /\ o.holder = n)}
  OBVIOUS
<1>2. PICK t : t = Kept(waiting, S)
  OBVIOUS
<1>3. t \in Seq(Sights(c)) /\ ToSet(t) = ToSet(waiting) \cap S
  BY <1>2, KeptIs
<1>4. /\ DOMAIN t = 1..Len(t) /\ Len(t) \in Nat
      /\ \A i \in 1..Len(t) : t[i] \in Sights(c)
  BY <1>3
<1>5. ASSUME NEW i \in 1..Len(t) PROVE t[i] \in Sights(d)
  <2>1. PICK o : o = t[i]
    OBVIOUS
  <2>2. o \in Sights(c) /\ ~(o.key \in gone /\ o.holder = n)
    <3>1. o \in ToSet(t)
      BY <1>4, <2>1 DEF ToSet
    <3> QED  BY <1>1, <1>3, <1>4, <2>1, <3>1
  <2> QED  BY <2>1, <2>2 DEF Sights, Leaves
<1>6. t \in Seq(Sights(d))
  <2>1. t \in [1..Len(t) -> Sights(d)]
    <3>1. t = [i \in 1..Len(t) |-> t[i]]
      BY <1>3
    <3> QED  BY <1>5, <3>1
  <2> QED  BY <1>4, <2>1
<1> QED  BY <1>1, <1>2, <1>6 DEF StrikesPending

\* What a node is seen to hold, when it holds it.
LEMMA ObservationsAre ==
    ASSUME NEW c, NEW n \in Nodes, now \in Nat, NEW ks \in Seq(Keys), ToSet(ks) \subseteq c[n]
    PROVE  Observations(ks, n) \in Seq(Sights(c))
<1>1. /\ DOMAIN ks = 1..Len(ks) /\ Len(ks) \in Nat
      /\ \A i \in 1..Len(ks) : ks[i] \in Keys /\ ks[i] \in ToSet(ks)
  BY DEF ToSet
<1>2. now + DelayWork \in Int /\ now \in Int
  <2>1. DelayWork \in Nat
    BY BoundsAssumption
  <2> QED  BY <2>1
<1>3. ASSUME NEW i \in 1..Len(ks)
      PROVE  [visible |-> now + DelayWork, at |-> now, key |-> ks[i], holder |-> n] \in Sights(c)
  BY <1>1, <1>2 DEF Sights
<1>4. Observations(ks, n) \in [1..Len(ks) -> Sights(c)]
  BY <1>1, <1>3 DEF Observations
<1> QED  BY <1>1, <1>4

\* What every node is seen to hold when the census is refreshed.
LEMMA SnapshotIs ==
    ASSUME now \in Nat, cache \in [Nodes -> SUBSET Keys], \A n \in Nodes : IsFiniteSet(cache[n])
    PROVE  Snapshot \in Seq(Sights(cache))
<1>1. PICK k, order : k = Cardinality(Nodes) /\ order = Sorted(Nodes)
  OBVIOUS
<1>2. IsFiniteSet(Nodes) /\ Nodes \subseteq Int /\ Keys \subseteq Int
  BY BoundsAssumption
<1>3. k \in Nat /\ order \in Seq(Nodes) /\ Len(order) = k
  BY <1>1, <1>2, SortedIs, FS_CardinalityType
<1>4. PICK parts : parts = [i \in 1..k |-> Observations(Sorted(cache[order[i]]), order[i])]
  OBVIOUS
<1>5. ASSUME NEW i \in 1..k PROVE parts[i] \in Seq(Sights(cache))
  <2>1. PICK n : n = order[i]
    OBVIOUS
  <2>2. n \in Nodes
    BY <1>3, <2>1
  <2>3. PICK S : S = cache[n]
    OBVIOUS
  <2>4. S \subseteq Keys /\ IsFiniteSet(S) /\ S \subseteq Int
    BY <1>2, <2>2, <2>3
  <2>5. Sorted(S) \in Seq(S) /\ ToSet(Sorted(S)) = S
    BY <2>4, SortedIs
  <2>6. Sorted(S) \in Seq(Keys)
    BY <2>4, <2>5, WiderSeq
  <2>7. Observations(Sorted(S), n) \in Seq(Sights(cache))
    BY <2>2, <2>3, <2>5, <2>6, ObservationsAre
  <2> QED  BY <1>4, <2>1, <2>3, <2>7
<1>6. parts \in Seq(Seq(Sights(cache)))
  <2>1. parts \in [1..k -> Seq(Sights(cache))]
    BY <1>4, <1>5
  <2> QED  BY <1>3, <2>1
<1>7. FlattenSeq(parts) \in Seq(Sights(cache))
  BY <1>6, Flattened
<1> QED  BY <1>1, <1>4, <1>7 DEF Snapshot

\* An observation is noted at once, or waits.
LEMMA NotesAre ==
    ASSUME NEW c, NEW entries \in Seq(Truths(c)), NEW waiting \in Seq(Sights(c)),
           NEW obs \in Seq(Sights(c))
    PROVE  Note(entries, obs) \in Seq(Truths(c)) /\ NotePending(waiting, obs) \in Seq(Sights(c))
<1>1. Observed(entries, obs) \in Seq(Truths(c))
  BY ObservedIs
<1>2. waiting \o obs \in Seq(Sights(c))
  BY ConcatSet
<1> QED  BY <1>1, <1>2 DEF Note, NotePending

\* What a lookup makes visible.
LEMMA FlushIs ==
    ASSUME NEW c, census \in Seq(Truths(c)), pending \in Seq(Sights(c))
    PROVE  Flushed \in Seq(Truths(c)) /\ StillPending \in Seq(Sights(c))
<1>1. Kept(pending, Due) \in Seq(Sights(c)) /\ StillPending \in Seq(Sights(c))
  BY KeptIs DEF StillPending
<1> QED  BY <1>1, ObservedIs DEF Flushed

\* Whoever a true census shows to hold a key holds it.
LEMMA HoldersHold ==
    ASSUME NEW c, NEW entries \in Seq(Truths(c)), NEW k, NEW m \in VisibleHolders(entries, k)
    PROVE  m \in Nodes /\ k \in c[m]
<1>1. ToSet(entries) \subseteq Truths(c)
  BY MembersAreFinite
<1>2. PICK e \in ToSet(entries) : e.key = k /\ m \in e.holders
  BY DEF VisibleHolders
<1> QED  BY <1>1, <1>2 DEF Truths

States == {"offered", "running", "finished"}

\* The books of the policy, the census and the ledger agree with the caches.
Books ==
    /\ cache \in [Nodes -> SUBSET Keys]
    /\ \A n \in Nodes : IsFiniteSet(cache[n])
    /\ lru \in [Nodes -> Seq(Keys)]
    /\ \A n \in Nodes : ToSet(lru[n]) = cache[n]
    /\ census \in Seq(Truths(cache))
    /\ pending \in Seq(Sights(cache))
    /\ digest = [n \in Nodes |-> [count |-> Cardinality(cache[n]), keys |-> cache[n]]]

\* Until a proposal is dropped or the run fails, the books agree.
EvictionInv ==
    /\ now \in Nat
    /\ history \in [Keys -> Seq(Nat)]
    /\ attempt \in [Requests -> [state : States, node : Nodes \cup {NoNode}]]
    /\ \A r \in Requests : attempt[r].state = "running" => attempt[r].node \in Nodes
    /\ failed = "no" /\ ~dropped => Books

LEMMA InitEvictionInv == ASSUME Init PROVE EvictionInv
<1>1. IsFiniteSet({}) /\ Cardinality({}) = 0
  BY FS_EmptySet
<1>2. <<>> \in Seq(Keys) /\ <<>> \in Seq(Nat) /\ ToSet(<<>>) = {}
  BY DEF ToSet
<1>3. <<>> \in Seq(Truths(cache)) /\ <<>> \in Seq(Sights(cache))
  OBVIOUS
<1>4. cache \in [Nodes -> SUBSET Keys] /\ \A n \in Nodes : cache[n] = {}
  BY DEF Init
<1>5. lru \in [Nodes -> Seq(Keys)] /\ \A n \in Nodes : lru[n] = <<>>
  BY <1>2 DEF Init
<1>6. digest = [n \in Nodes |-> [count |-> Cardinality(cache[n]), keys |-> cache[n]]]
  BY <1>1, <1>4 DEF Init
<1>7. Books
  BY <1>1, <1>2, <1>3, <1>4, <1>5, <1>6 DEF Init, Books
<1>8. attempt \in [Requests -> [state : States, node : Nodes \cup {NoNode}]]
      /\ \A r \in Requests : attempt[r].state = "offered"
  BY DEF Init, States
<1> QED  BY <1>2, <1>7, <1>8 DEF Init, EvictionInv

\* The keys of a prefix are finitely many keys.
LEMMA PrefixIs ==
    ASSUME NEW r \in Requests
    PROVE  Prefix[r] \in Seq(Keys) /\ IsFiniteSet(ToSet(Prefix[r])) /\ ToSet(Prefix[r]) \subseteq Keys
<1>1. Prefix[r] \in Seq(Keys)
  BY PrefixAssumption
<1> QED  BY <1>1, MembersAreFinite

\* The keys a node holds are arranged as they are sorted.
LEMMA ResidentsAre ==
    ASSUME Books, NEW n \in Nodes
    PROVE  /\ Sorted(cache[n]) \in Seq(Keys) /\ ToSet(Sorted(cache[n])) = cache[n]
           /\ IsFiniteSet(cache[n]) /\ cache[n] \subseteq Keys /\ cache[n] \subseteq Int
<1>1. cache[n] \subseteq Keys /\ IsFiniteSet(cache[n]) /\ Keys \subseteq Int
  BY BoundsAssumption DEF Books
<1>2. Sorted(cache[n]) \in Seq(cache[n]) /\ ToSet(Sorted(cache[n])) = cache[n]
  BY <1>1, SortedIs
<1> QED  BY <1>1, <1>2, WiderSeq

\* The hits of a plan are keys of the prefix.
LEMMA HitsAre ==
    ASSUME NEW r \in Requests, NEW n \in Nodes
    PROVE  Hits(r, n) \in Seq(Keys)
<1>1. PICK p : p = Prefix[r]
  OBVIOUS
<1>2. p \in Seq(Keys) /\ DOMAIN p = 1..Len(p) /\ Len(p) \in Nat
  <2>1. p \in Seq(Keys)
    BY <1>1, PrefixIs
  <2> QED  BY <2>1
<1>3. PICK miss : miss = {i \in DOMAIN p : p[i] \notin cache[n]}
  OBVIOUS
<1>4. CASE miss = {}
  <2>1. Hits(r, n) = SubSeq(p, 1, Len(p))
    BY <1>1, <1>3, <1>4 DEF Hits
  <2> QED  BY <1>2, <2>1, FirstsAre
<1>5. CASE miss # {}
  <2>1. IsFiniteSet(miss) /\ miss \subseteq Int /\ miss \subseteq 1..Len(p)
    <3>1. IsFiniteSet(1..Len(p)) /\ miss \subseteq 1..Len(p)
      BY <1>2, <1>3, FS_Interval
    <3>2. IsFiniteSet(miss)
      BY <3>1, FS_Subset
    <3>3. miss \subseteq Int
      BY <1>2, <3>1
    <3> QED  BY <3>1, <3>2, <3>3
  <2> DEFINE Small(x) == \A y \in miss : x <= y
  <2>2. \E x \in miss : Small(x)
    BY <1>5, <2>1, LeastExists
  <2>3. Min(miss) = CHOOSE x \in miss : Small(x)
    BY DEF Min
  <2>4. Min(miss) \in miss
    <3> HIDE DEF Small
    <3> QED  BY <2>2, <2>3
  <2>5. PICK k : k = Min(miss) - 1
    OBVIOUS
  <2>6. k \in Nat /\ k <= Len(p)
    <3>1. PICK x : x = Min(miss)
      OBVIOUS
    <3>2. x \in 1..Len(p)
      BY <2>1, <2>4, <3>1
    <3> QED  BY <1>2, <2>5, <3>1, <3>2
  <2>7. Hits(r, n) = SubSeq(p, 1, k)
    BY <1>1, <1>3, <1>5, <2>5 DEF Hits
  <2> QED  BY <1>2, <2>6, <2>7, FirstsAre
<1> QED  BY <1>4, <1>5

\* A plan moves no cache: it reorders a node, references keys, and may tell the
\* census what every node holds.
LEMMA PlanInv ==
    ASSUME EvictionInv, NEW r \in Requests, NEW n \in Nodes, Plan(r, n)
    PROVE  EvictionInv'
<1>1. now' = now /\ now \in Nat /\ failed = "no" /\ failed' = failed /\ dropped' = dropped
      /\ cache' = cache /\ digest' = digest
  BY DEF Plan, EvictionInv
<1>2. history' \in [Keys -> Seq(Nat)]
  <2>1. ASSUME NEW k \in Keys PROVE Referenced(history[k]) \in Seq(Nat) /\ history[k] \in Seq(Nat)
    <3>1. history[k] \in Seq(Nat) /\ HistoryLimit \in Nat
      BY BoundsAssumption DEF EvictionInv
    <3>2. Append(history[k], now) \in Seq(Nat)
      BY <1>1, <3>1, AppendIs
    <3> QED  BY <3>1, <3>2, NewestIs DEF Referenced
  <2>2. PICK seen : history' = [k \in Keys |-> IF k \in seen THEN Referenced(history[k])
                                                              ELSE history[k]]
    BY DEF Plan
  <2> QED  BY <2>1, <2>2
<1>3. /\ attempt' \in [Requests -> [state : States, node : Nodes \cup {NoNode}]]
      /\ \A q \in Requests : attempt'[q].state = "running" => attempt'[q].node \in Nodes
  BY DEF Plan, EvictionInv, States
<1>4. ASSUME ~dropped PROVE Books'
  <2>1. Books
    BY <1>1, <1>4 DEF EvictionInv
  <2>2. Snapshot \in Seq(Sights(cache))
    BY <1>1, <2>1, SnapshotIs DEF Books
  <2>3. census \in Seq(Truths(cache)) /\ pending \in Seq(Sights(cache))
    BY <2>1 DEF Books
  <2>4. Note(census, Snapshot) \in Seq(Truths(cache))
        /\ NotePending(pending, Snapshot) \in Seq(Sights(cache))
    BY <2>2, <2>3, NotesAre
  <2>5. census' \in Seq(Truths(cache)) /\ pending' \in Seq(Sights(cache))
    BY <2>3, <2>4 DEF Plan, Refresh
  <2>6. PICK hits : hits = Hits(r, n)
    OBVIOUS
  <2>7. hits \in Seq(Keys)
    BY <2>6, HitsAre
  <2>8. PICK known : known = [m \in Nodes |-> IF RefreshDue THEN Joined(lru[m], Sorted(cache[m]))
                                                            ELSE lru[m]]
    OBVIOUS
  <2>9. ASSUME NEW m \in Nodes PROVE known[m] \in Seq(Keys) /\ ToSet(known[m]) = cache[m]
    <3>1. lru[m] \in Seq(Keys) /\ ToSet(lru[m]) = cache[m]
      BY <2>1 DEF Books
    <3>2. Sorted(cache[m]) \in Seq(Keys) /\ ToSet(Sorted(cache[m])) = cache[m]
      BY <2>1, ResidentsAre
    <3>3. Joined(lru[m], Sorted(cache[m])) \in Seq(Keys)
          /\ ToSet(Joined(lru[m], Sorted(cache[m]))) = ToSet(lru[m]) \cup ToSet(Sorted(cache[m]))
      BY <3>1, <3>2, OrdersAre
    <3> QED  BY <2>8, <3>1, <3>2, <3>3
  <2>10. lru' = [m \in Nodes |-> IF m = n THEN Touched(known[m], hits) ELSE known[m]]
    BY <2>6, <2>8 DEF Plan
  <2>11. ASSUME NEW m \in Nodes PROVE lru'[m] \in Seq(Keys) /\ ToSet(lru'[m]) = cache[m]
    <3>1. Touched(known[m], hits) \in Seq(Keys) /\ ToSet(Touched(known[m], hits)) = ToSet(known[m])
      BY <2>7, <2>9, OrdersAre
    <3> QED  BY <2>9, <2>10, <3>1
  <2>12. lru' \in [Nodes -> Seq(Keys)]
    BY <2>10, <2>11
  <2> QED  BY <1>1, <2>1, <2>5, <2>11, <2>12 DEF Books, Truths, Sights
<1> QED  BY <1>1, <1>2, <1>3, <1>4 DEF EvictionInv

\* If what a node admits fits in it once its victims made just the room that
\* was asked for, then no victim is one of the keys that are admitted.
LEMMA RoomIsExact ==
    ASSUME NEW A, IsFiniteSet(A), NEW P, IsFiniteSet(P), NEW V, V \subseteq A,
           NEW room \in Nat, Cardinality(V) <= room, room = 0 => V = {},
           room # 0 => room = Cardinality(A) + Cardinality(P \ A) - Capacity,
           Cardinality((A \ V) \cup P) <= Capacity
    PROVE  V \cap P = {}
<1>1. CASE room = 0
  BY <1>1
<1>2. CASE room # 0
  <2>1. PICK U : U = A \cup (P \ A)
    OBVIOUS
  <2>2. PICK a, b, u : a = Cardinality(A) /\ b = Cardinality(P \ A) /\ u = Cardinality(U)
    OBVIOUS
  <2>3. IsFiniteSet(P \ A) /\ a \in Nat /\ b \in Nat /\ A \cap (P \ A) = {}
    BY <2>2, FS_Subset, FS_CardinalityType
  <2>4. IsFiniteSet(U) /\ u \in Nat /\ u = a + b
    <3>1. IsFiniteSet(U) /\ u = a + b - Cardinality(A \cap (P \ A))
      BY <2>1, <2>2, <2>3, FS_Union
    <3>2. Cardinality(A \cap (P \ A)) = 0
      BY <2>3, FS_EmptySet
    <3> QED  BY <2>3, <3>1, <3>2
  <2>5. PICK W : W = V \ P
    OBVIOUS
  <2>6. PICK v, w, x : v = Cardinality(V) /\ w = Cardinality(W) /\ x = Cardinality(V \cap P)
    OBVIOUS
  <2>7. IsFiniteSet(V) /\ IsFiniteSet(V \cap P) /\ IsFiniteSet(W) /\ v \in Nat /\ x \in Nat /\ w \in Nat
    <3>1. IsFiniteSet(V)
      BY FS_Subset
    <3>2. IsFiniteSet(V \cap P) /\ IsFiniteSet(W)
      BY <2>5, <3>1, FS_Subset
    <3> QED  BY <2>6, <3>1, <3>2, FS_CardinalityType
  <2>8. w = v - x
    <3>1. Cardinality(V \ P) = Cardinality(V) - Cardinality(V \cap P)
      BY <2>7, FS_Difference
    <3> QED  BY <2>5, <2>6, <3>1
  <2>9. Cardinality(U \ W) = u - w
    <3>1. Cardinality(U \ W) = Cardinality(U) - Cardinality(U \cap W)
      BY <2>4, FS_Difference
    <3>2. U \cap W = W
      BY <2>1, <2>5
    <3> QED  BY <2>2, <2>6, <3>1, <3>2
  <2>10. U \ W = (A \ V) \cup P
    BY <2>1, <2>5
  <2>11. u - w <= Capacity
    BY <2>9, <2>10
  <2>12. Capacity \in Nat
    BY BoundsAssumption
  <2>13. x = 0
    BY <1>2, <2>2, <2>3, <2>4, <2>6, <2>7, <2>8, <2>11, <2>12
  <2> QED  BY <2>6, <2>7, <2>13, FS_EmptySet
<1> QED  BY <1>1, <1>2

\* The keys from which a node's victims are taken are resident, and by census
\* none of them is the last hot copy that is known.
LEMMA EligibleAre ==
    ASSUME EvictionInv, Books, NEW n \in Nodes, NEW entries
    PROVE  /\ Eligible(entries, n) \in Seq(Keys)
           /\ ToSet(Eligible(entries, n)) \subseteq cache[n]
           /\ mode # "LRU" => \A k \in ToSet(Eligible(entries, n)) : ~UniqueHot(entries, k, n)
<1>1. IsFiniteSet(cache[n]) /\ cache[n] \subseteq Keys /\ cache[n] \subseteq Int
  BY ResidentsAre
<1>2. CASE mode = "LRU"
  <2>1. lru[n] \in Seq(Keys)
    BY DEF Books
  <2>2. Kept(lru[n], cache[n]) \in Seq(Keys)
        /\ ToSet(Kept(lru[n], cache[n])) = ToSet(lru[n]) \cap cache[n]
    BY <2>1, KeptIs
  <2> QED  BY <1>2, <2>2 DEF Eligible
<1>3. CASE mode # "LRU"
  <2>1. PICK S : S = {k \in cache[n] : ~UniqueHot(entries, k, n)}
    OBVIOUS
  <2>2. PICK cost : cost = [k \in Keys |-> Reuse(k)]
    OBVIOUS
  <2>3. S \subseteq cache[n] /\ IsFiniteSet(S) /\ S \subseteq Int
    <3>1. S \subseteq cache[n]
      BY <2>1
    <3> QED  BY <1>1, <3>1, FS_Subset
  <2>4. \A k \in S : cost[k] \in Int
    <3>1. \A k \in Keys : Reuse(k) \in Nat
      BY ReuseIs DEF EvictionInv
    <3> QED  BY <1>1, <2>2, <2>3, <3>1
  <2>5. Arranged(S, cost) \in Seq(S) /\ ToSet(Arranged(S, cost)) = S
    BY <2>3, <2>4, ArrangedIs
  <2>6. S \subseteq Keys
    BY <1>1, <2>3
  <2>7. Arranged(S, cost) \in Seq(Keys)
    BY <2>5, <2>6, WiderSeq
  <2>8. Eligible(entries, n) = Arranged(S, cost)
    BY <1>3, <2>1, <2>2 DEF Eligible, Regrets
  <2> QED  BY <2>1, <2>3, <2>5, <2>7, <2>8
<1> QED  BY <1>2, <1>3

\* The keys a request adds, and the room they need.
LEMMA AdditionsAre ==
    ASSUME Books, NEW r \in Requests, NEW n \in Nodes
    PROVE  /\ Sorted(Additions(r, n)) \in Seq(Keys)
           /\ ToSet(Sorted(Additions(r, n))) = ToSet(Prefix[r]) \ cache[n]
           /\ Required(r, n) \in Nat
           /\ Required(r, n) # 0 =>
                 Required(r, n) = Cardinality(cache[n]) + Cardinality(ToSet(Prefix[r]) \ cache[n])
                                     - Capacity
<1>1. PICK add : add = ToSet(Prefix[r]) \ cache[n]
  OBVIOUS
<1>2. add \subseteq Keys /\ IsFiniteSet(add) /\ add \subseteq Int /\ Additions(r, n) = add
  <2>1. IsFiniteSet(ToSet(Prefix[r])) /\ ToSet(Prefix[r]) \subseteq Keys
    BY PrefixIs
  <2>2. add \subseteq ToSet(Prefix[r])
    BY <1>1
  <2>3. Keys \subseteq Int
    BY BoundsAssumption
  <2> QED  BY <1>1, <2>1, <2>2, <2>3, FS_Subset DEF Additions
<1>3. Sorted(add) \in Seq(add) /\ ToSet(Sorted(add)) = add
  BY <1>2, SortedIs
<1>4. Sorted(add) \in Seq(Keys)
  BY <1>2, <1>3, WiderSeq
<1>5. PICK c, a : c = Cardinality(cache[n]) /\ a = Cardinality(add)
  OBVIOUS
<1>6. c \in Nat /\ a \in Nat /\ Capacity \in Nat
  BY <1>2, <1>5, ResidentsAre, BoundsAssumption, FS_CardinalityType
<1>7. PICK e : e = c + a - Capacity
  OBVIOUS
<1>8. e \in Int /\ 0 \in Int
  BY <1>6, <1>7
<1>9. Max({0, e}) \in {0, e} /\ 0 <= Max({0, e})
  BY <1>8, MaxOfTwo
<1>10. Required(r, n) = Max({0, e})
  BY <1>2, <1>5, <1>7 DEF Required
<1>11. PICK q : q = Max({0, e})
  OBVIOUS
<1>12. q \in Nat /\ (q # 0 => q = e)
  BY <1>8, <1>9, <1>11
<1> QED  BY <1>1, <1>2, <1>3, <1>4, <1>5, <1>7, <1>10, <1>11, <1>12

\* A proposal that the kernel applies keeps the books: its victims leave the
\* order, the census, what waits and the digest, and its additions come to them,
\* which is what happens to the cache, because no victim is admitted again.
LEMMA AppliedKeepsBooks ==
    ASSUME EvictionInv, Books, NEW r \in Requests, NEW n \in Nodes,
           NEW entries \in Seq(Truths(cache)), NEW waiting \in Seq(Sights(cache)),
           NEW V, V \subseteq cache[n], Cardinality(V) <= Required(r, n),
           Required(r, n) = 0 => V = {},
           Propose(n, entries, waiting, V, Sorted(Additions(r, n))),
           digest' = [digest EXCEPT ![n] = Digested(@, r, n, V)],
           cache' = [cache EXCEPT ![n] = Admitted(r, n, V)],
           Cardinality(Admitted(r, n, V)) <= Capacity
    PROVE  Books'
<1>1. PICK A, P : A = cache[n] /\ P = ToSet(Prefix[r])
  OBVIOUS
<1>2. PICK added : added = Sorted(Additions(r, n))
  OBVIOUS
<1>3. /\ IsFiniteSet(A) /\ A \subseteq Keys /\ IsFiniteSet(P) /\ P \subseteq Keys
      /\ V \subseteq A /\ IsFiniteSet(V)
  BY <1>1, ResidentsAre, PrefixIs, FS_Subset
<1>4. /\ added \in Seq(Keys) /\ ToSet(added) = P \ A
      /\ Required(r, n) \in Nat
      /\ Required(r, n) # 0 => Required(r, n) = Cardinality(A) + Cardinality(P \ A) - Capacity
  BY <1>1, <1>2, AdditionsAre
<1>5. Cardinality((A \ V) \cup P) <= Capacity
  BY <1>1 DEF Admitted
<1>6. V \cap P = {}
  <2>1. PICK room : room = Required(r, n)
    OBVIOUS
  <2> QED  BY <1>3, <1>4, <1>5, <2>1, RoomIsExact
<1>7. PICK B : B = (A \ V) \cup P
  OBVIOUS
<1>8. /\ cache' = [cache EXCEPT ![n] = B] /\ cache \in [Nodes -> SUBSET Keys]
      /\ IsFiniteSet(B) /\ B \subseteq Keys /\ B = (A \ V) \cup (P \ A)
  <2>1. IsFiniteSet(A \ V)
    BY <1>3, FS_Subset
  <2>2. IsFiniteSet(B)
    BY <1>3, <1>7, <2>1, FS_Union
  <2>3. B = (A \ V) \cup (P \ A)
    BY <1>6, <1>7
  <2> QED  BY <1>1, <1>3, <1>7, <2>2, <2>3 DEF Admitted, Books
<1>9. /\ cache' \in [Nodes -> SUBSET Keys]
      /\ cache'[n] = B /\ \A m \in Nodes \ {n} : cache'[m] = cache[m]
  BY <1>8
<1>10. \A m \in Nodes : IsFiniteSet(cache'[m])
  BY <1>8, <1>9 DEF Books
<1>11. Leaves(cache, cache', V, n)
  BY <1>1, <1>7, <1>9 DEF Leaves
<1>12. census' \in Seq(Truths(cache')) /\ pending' \in Seq(Sights(cache'))
  <2>1. PICK obs : obs = Observations(added, n)
    OBVIOUS
  <2>2. ToSet(added) \subseteq cache'[n] /\ now \in Nat
    BY <1>4, <1>7, <1>9 DEF EvictionInv
  <2>3. obs \in Seq(Sights(cache'))
    BY <1>4, <2>1, <2>2, ObservationsAre
  <2>4. PICK e, w : e = Strikes(entries, V, n) /\ w = StrikesPending(waiting, V, n)
    OBVIOUS
  <2>5. e \in Seq(Truths(cache')) /\ w \in Seq(Sights(cache'))
    BY <1>11, <2>4, StrikesAre, StrikesPendingAre
  <2>6. Note(e, obs) \in Seq(Truths(cache')) /\ NotePending(w, obs) \in Seq(Sights(cache'))
    BY <2>3, <2>5, NotesAre
  <2>7. census' = Note(e, obs) /\ pending' = NotePending(w, obs)
    BY <1>2, <2>1, <2>4 DEF Propose
  <2> QED  BY <2>6, <2>7
<1>13. lru' \in [Nodes -> Seq(Keys)] /\ \A m \in Nodes : ToSet(lru'[m]) = cache'[m]
  <2>1. PICK order : order = lru[n]
    OBVIOUS
  <2>2. order \in Seq(Keys) /\ ToSet(order) = A /\ lru \in [Nodes -> Seq(Keys)]
        /\ \A m \in Nodes : ToSet(lru[m]) = cache[m]
    BY <1>1, <2>1 DEF Books
  <2>3. PICK rest : rest = Kept(order, ToSet(order) \ V)
    OBVIOUS
  <2>4. rest \in Seq(Keys) /\ ToSet(rest) = A \ V
    BY <2>2, <2>3, KeptIs
  <2>5. Joined(rest, added) \in Seq(Keys) /\ ToSet(Joined(rest, added)) = B
    <3>1. Joined(rest, added) \in Seq(Keys)
          /\ ToSet(Joined(rest, added)) = ToSet(rest) \cup ToSet(added)
      BY <1>4, <2>4, OrdersAre
    <3> QED  BY <1>4, <1>8, <2>4, <3>1
  <2>6. lru' = [lru EXCEPT ![n] = Joined(rest, added)]
    BY <1>2, <2>1, <2>3 DEF Propose
  <2> QED  BY <1>9, <2>2, <2>5, <2>6
<1>14. digest' = [m \in Nodes |-> [count |-> Cardinality(cache'[m]), keys |-> cache'[m]]]
  <2>1. digest = [m \in Nodes |-> [count |-> Cardinality(cache[m]), keys |-> cache[m]]]
    BY DEF Books
  <2>2. PICK d : d = digest[n]
    OBVIOUS
  <2>3. d = [count |-> Cardinality(A), keys |-> A]
    BY <1>1, <2>1, <2>2
  <2>4. {k \in P : k \notin A \/ k \in V} = P \ A
    BY <1>6
  <2>5. ((A \ V) \cup (V \ A)) = A \ V
    BY <1>3
  <2>6. ((A \ V) \ (P \ A)) \cup ((P \ A) \ (A \ V)) = B
    BY <1>8
  <2>7. Cardinality(B) = Cardinality(A) - Cardinality(V) + Cardinality(P \ A)
    <3>1. PICK a, v, p, b, c : /\ a = Cardinality(A) /\ v = Cardinality(V) /\ p = Cardinality(P \ A)
                               /\ b = Cardinality(B) /\ c = Cardinality(A \ V)
      OBVIOUS
    <3>2. IsFiniteSet(P \ A) /\ IsFiniteSet(A \ V)
      BY <1>3, FS_Subset
    <3>3. a \in Nat /\ v \in Nat /\ p \in Nat /\ b \in Nat /\ c \in Nat
      BY <1>3, <1>8, <3>1, <3>2, FS_CardinalityType
    <3>4. c = a - v
      <4>1. Cardinality(A \ V) = Cardinality(A) - Cardinality(A \cap V) /\ A \cap V = V
        BY <1>3, FS_Difference
      <4> QED  BY <3>1, <4>1
    <3>5. b = c + p
      <4>1. Cardinality((A \ V) \cup (P \ A))
               = Cardinality(A \ V) + Cardinality(P \ A) - Cardinality((A \ V) \cap (P \ A))
        BY <3>2, FS_Union
      <4>2. (A \ V) \cap (P \ A) = {} /\ Cardinality({}) = 0
        BY FS_EmptySet
      <4>3. b = c + p - 0
        BY <1>8, <3>1, <4>1, <4>2
      <4> QED  BY <3>3, <4>3
    <3>6. b = a - v + p
      BY <3>3, <3>4, <3>5
    <3> QED  BY <3>1, <3>6
  <2>8. Digested(d, r, n, V) = [count |-> Cardinality(B), keys |-> B]
    <3>1. Digested(d, r, n, V) =
             [count |-> d.count - Cardinality(V) + Cardinality(P \ A),
              keys  |-> (((d.keys \ V) \cup (V \ d.keys)) \ (P \ A))
                           \cup ((P \ A) \ ((d.keys \ V) \cup (V \ d.keys)))]
      BY <1>1, <2>4 DEF Digested
    <3>2. d.count = Cardinality(A) /\ d.keys = A
      BY <2>3
    <3> QED  BY <2>5, <2>6, <2>7, <3>1, <3>2
  <2>9. digest' = [digest EXCEPT ![n] = Digested(d, r, n, V)]
    BY <2>2
  <2>10. \A m \in Nodes : digest'[m] = [count |-> Cardinality(cache'[m]), keys |-> cache'[m]]
    BY <1>9, <2>1, <2>8, <2>9
  <2>11. digest' = [m \in Nodes |-> digest'[m]]
    BY <2>1, <2>9
  <2> QED  BY <2>10, <2>11
<1> QED  BY <1>9, <1>10, <1>12, <1>13, <1>14 DEF Books

\* Whatever a completion comes to, a run that goes on and has dropped nothing
\* has its books in order.
LEMMA SettleKeepsBooks ==
    ASSUME EvictionInv, Books, NEW r \in Requests, NEW n \in Nodes, NEW applies,
           NEW entries \in Seq(Truths(cache)), NEW waiting \in Seq(Sights(cache)),
           Settle(r, n, applies, entries, waiting, Eligible(entries, n), Required(r, n)),
           failed = "no"
    PROVE  failed' = "no" /\ ~dropped' => Books'
<1>1. PICK eligible, required : eligible = Eligible(entries, n) /\ required = Required(r, n)
  OBVIOUS
<1>2. PICK V : V = ToSet(SubSeq(eligible, 1, required))
  OBVIOUS
<1>3. eligible \in Seq(Keys) /\ ToSet(eligible) \subseteq cache[n] /\ required \in Nat
  BY <1>1, EligibleAre, AdditionsAre
<1>4. CASE mode = "LRU" /\ Len(eligible) < required /\ Raise("invalid victims")
  BY <1>4, Zenon DEF Raise
<1>5. CASE Raise("diverged")
  BY <1>5 DEF Raise
<1>6. CASE /\ census' = entries /\ pending' = waiting
           /\ UNCHANGED <<lru, cache, digest, dropped, failed>>
  BY <1>6 DEF Books
<1>7. CASE dropped' = TRUE
  BY <1>7
<1>8. CASE Raise("exceeds capacity")
  BY <1>8, Zenon DEF Raise
<1>9. CASE /\ ~(Len(eligible) < required)
           /\ Cardinality(Admitted(r, n, V)) <= Capacity
           /\ Propose(n, entries, waiting, V, Sorted(Additions(r, n)))
           /\ digest' = [digest EXCEPT ![n] = Digested(@, r, n, V)]
           /\ cache' = [cache EXCEPT ![n] = Admitted(r, n, V)]
  <2>1. required <= Len(eligible)
    BY <1>3, <1>9
  <2>2. V \subseteq ToSet(eligible) /\ Cardinality(V) <= required /\ (required = 0 => V = {})
    BY <1>2, <1>3, <2>1, FirstsAre
  <2>3. V \subseteq cache[n]
    BY <1>3, <2>2
  <2> QED  BY <1>1, <1>9, <2>2, <2>3, AppliedKeepsBooks
<1> QED  BY <1>1, <1>2, <1>4, <1>5, <1>6, <1>7, <1>8, <1>9, Zenon DEF Settle

\* What a decision looks up is as true as what it is taken from.
LEMMA LookupIsTrue ==
    ASSUME Books, NEW looks
    PROVE  /\ (IF looks THEN Flushed ELSE census) \in Seq(Truths(cache))
           /\ (IF looks THEN StillPending ELSE pending) \in Seq(Sights(cache))
<1>1. census \in Seq(Truths(cache)) /\ pending \in Seq(Sights(cache))
  BY DEF Books
<1>2. Flushed \in Seq(Truths(cache)) /\ StillPending \in Seq(Sights(cache))
  BY <1>1, FlushIs
<1> QED  BY <1>1, <1>2

LEMMA FinishInv ==
    ASSUME EvictionInv, NEW r \in Requests, NEW applies, Finish(r, applies)
    PROVE  EvictionInv'
<1>1. now' = now /\ now \in Nat /\ failed = "no" /\ history' = history
      /\ history \in [Keys -> Seq(Nat)]
  BY DEF Finish, EvictionInv
<1>2. PICK n : n = attempt[r].node
  OBVIOUS
<1>3. n \in Nodes
  BY <1>2 DEF Finish, EvictionInv
<1>4. /\ attempt' \in [Requests -> [state : States, node : Nodes \cup {NoNode}]]
      /\ \A q \in Requests : attempt'[q].state = "running" => attempt'[q].node \in Nodes
  <2>1. attempt' = [attempt EXCEPT ![r].state = "finished"]
    BY DEF Finish
  <2>2. attempt \in [Requests -> [state : States, node : Nodes \cup {NoNode}]]
    BY DEF EvictionInv
  <2>3. attempt' \in [Requests -> [state : States, node : Nodes \cup {NoNode}]]
    BY <2>1, <2>2 DEF States
  <2>4. \A q \in Requests : attempt'[q].node = attempt[q].node
                            /\ (attempt'[q].state = "running" => attempt[q].state = "running")
    BY <2>1, <2>2
  <2> QED  BY <2>3, <2>4 DEF EvictionInv
<1>5. PICK looks : looks = (mode = "CENSUS_REGRET" /\ cache[n] # {})
  OBVIOUS
<1>6. PICK entries, waiting : /\ entries = (IF looks THEN Flushed ELSE census)
                              /\ waiting = (IF looks THEN StillPending ELSE pending)
  OBVIOUS
<1>7. Settle(r, n, applies, entries, waiting, Eligible(entries, n), Required(r, n))
  BY <1>2, <1>5, <1>6 DEF Finish
<1>8. dropped => dropped'
  BY <1>7, Zenon DEF Settle, Raise
<1>9. ASSUME failed' = "no", ~dropped' PROVE Books'
  <2>1. Books
    BY <1>1, <1>8, <1>9 DEF EvictionInv
  <2>2. entries \in Seq(Truths(cache)) /\ waiting \in Seq(Sights(cache))
    BY <1>6, <2>1, LookupIsTrue
  <2> QED  BY <1>1, <1>3, <1>7, <1>9, <2>1, <2>2, SettleKeepsBooks
<1> QED  BY <1>1, <1>4, <1>9 DEF EvictionInv

\* The books are an invariant of every run.
LEMMA StepKeepsEvictionInv ==
    ASSUME EvictionInv, [Next]_vars
    PROVE  EvictionInv'
<1>1. CASE \E r \in Requests, n \in Nodes : Plan(r, n)
  BY <1>1, PlanInv
<1>2. CASE \E r \in Requests, applies \in BOOLEAN : Finish(r, applies)
  BY <1>2, FinishInv
<1>3. CASE Advance
  BY <1>3 DEF Advance, EvictionInv, Books, Truths, Sights
<1>4. CASE Over \/ UNCHANGED vars
  BY <1>4 DEF Over, vars, EvictionInv, Books, Truths, Sights
<1> QED  BY <1>1, <1>2, <1>3, <1>4 DEF Next

\* Until a proposal is dropped, every book of a run agrees with the caches.
THEOREM EvictionInvariance == Spec => []EvictionInv
<1>1. Init => EvictionInv
  BY InitEvictionInv
<1>2. EvictionInv /\ [Next]_vars => EvictionInv'
  BY StepKeepsEvictionInv
<1> QED  BY <1>1, <1>2, PTL DEF Spec

\* The order of the policy, the census and the digest ledger name the caches of
\* the kernel: m12_eviction.py 292-386 and run_m12_final.py 621-640, 685-738.
THEOREM ViewsStayTrue == Spec => []ViewsNameTheCache
<1>1. EvictionInv => ViewsNameTheCache
  <2> SUFFICES ASSUME EvictionInv, failed = "no", ~dropped
               PROVE  /\ \A n \in Nodes : ToSet(lru[n]) = cache[n]
                      /\ \A e \in ToSet(census) : \A n \in e.holders : e.key \in cache[n]
                      /\ \A o \in ToSet(pending) : o.key \in cache[o.holder]
                      /\ \A n \in Nodes :
                            digest[n] = [count |-> Cardinality(cache[n]), keys |-> cache[n]]
    BY DEF ViewsNameTheCache, OrderNamesTheCache, CensusNamesHolders, DigestIsTheCache
  <2>1. Books
    BY DEF EvictionInv
  <2>2. census \in Seq(Truths(cache)) /\ pending \in Seq(Sights(cache))
    BY <2>1 DEF Books
  <2>3. ToSet(census) \subseteq Truths(cache) /\ ToSet(pending) \subseteq Sights(cache)
    BY <2>2, MembersAreFinite
  <2>4. \A n \in Nodes : digest[n] = [count |-> Cardinality(cache[n]), keys |-> cache[n]]
    BY <2>1 DEF Books
  <2> QED  BY <2>1, <2>3, <2>4 DEF Books, Truths, Sights
<1> QED  BY <1>1, EvictionInvariance, PTL

\* A completion by census leaves every hot key a copy.
LEMMA FinishKeepsLastCopies ==
    ASSUME EvictionInv, NEW r \in Requests, NEW applies, Finish(r, applies),
           mode = "CENSUS_REGRET", ~dropped,
           NEW k \in Keys, Reuse(k) > 0, NEW m \in Nodes, k \in cache[m]
    PROVE  \E l \in Nodes : k \in cache'[l]
<1>1. Books
  BY DEF Finish, EvictionInv
<1>2. PICK n : n = attempt[r].node
  OBVIOUS
<1>3. n \in Nodes
  BY <1>2 DEF Finish, EvictionInv
<1>4. PICK looks : looks = (mode = "CENSUS_REGRET" /\ cache[n] # {})
  OBVIOUS
<1>5. PICK entries, waiting : /\ entries = (IF looks THEN Flushed ELSE census)
                              /\ waiting = (IF looks THEN StillPending ELSE pending)
  OBVIOUS
<1>6. PICK eligible, required : eligible = Eligible(entries, n) /\ required = Required(r, n)
  OBVIOUS
<1>7. Settle(r, n, applies, entries, waiting, eligible, required)
  BY <1>2, <1>4, <1>5, <1>6 DEF Finish
<1>8. PICK V : V = ToSet(SubSeq(eligible, 1, required))
  OBVIOUS
<1>9. CASE cache' = cache
  BY <1>9
<1>10. CASE ~(Len(eligible) < required) /\ cache' = [cache EXCEPT ![n] = Admitted(r, n, V)]
  <2>1. cache \in [Nodes -> SUBSET Keys]
    BY <1>1 DEF Books
  <2>2. /\ cache'[n] = (cache[n] \ V) \cup ToSet(Prefix[r])
        /\ \A l \in Nodes \ {n} : cache'[l] = cache[l]
    BY <1>3, <1>10, <2>1 DEF Admitted
  <2>3. CASE m # n \/ k \notin V
    BY <2>2, <2>3
  <2>4. CASE m = n /\ k \in V
    <3>1. eligible \in Seq(Keys) /\ required \in Nat
          /\ \A j \in ToSet(eligible) : ~UniqueHot(entries, j, n)
      BY <1>1, <1>3, <1>6, EligibleAre, AdditionsAre
    <3>2. required <= Len(eligible)
      BY <1>10, <3>1
    <3>3. k \in ToSet(eligible)
      BY <1>8, <2>4, <3>1, <3>2, FirstsAre
    <3>4. VisibleHolders(entries, k) \ {n} # {}
      BY <3>1, <3>3 DEF UniqueHot
    <3>5. PICK l : l \in VisibleHolders(entries, k) /\ l # n
      BY <3>4
    <3>6. entries \in Seq(Truths(cache))
      BY <1>1, <1>5, LookupIsTrue
    <3>7. l \in Nodes /\ k \in cache[l]
      BY <3>5, <3>6, HoldersHold
    <3> QED  BY <2>2, <3>5, <3>7
  <2> QED  BY <2>3, <2>4
<1> QED  BY <1>7, <1>8, <1>9, <1>10, Zenon DEF Settle, Raise

\* By census, the last copy of a key referenced again and again is never evicted,
\* however old or late the census is: m12_eviction.py 211-232 and 354-373.
THEOREM LastHotCopyIsSafe == Spec => LastHotCopyStays
<1>1. ASSUME EvictionInv, [Next]_vars
      PROVE  [\A k \in Keys :
                 /\ mode = "CENSUS_REGRET" /\ ~dropped /\ Reuse(k) > 0
                 /\ \E n \in Nodes : k \in cache[n]
                 => \E n \in Nodes : k \in cache'[n]]_vars
  <2>1. SUFFICES ASSUME NEW k \in Keys, mode = "CENSUS_REGRET", ~dropped, Reuse(k) > 0,
                        NEW n \in Nodes, k \in cache[n]
                 PROVE  \E m \in Nodes : k \in cache'[m]
    OBVIOUS
  <2>2. CASE \E r \in Requests, applies \in BOOLEAN : Finish(r, applies)
    BY <1>1, <2>1, <2>2, FinishKeepsLastCopies
  <2>3. CASE cache' = cache
    BY <2>1, <2>3
  <2> QED  BY <1>1, <2>2, <2>3 DEF Next, Plan, Advance, Over, vars
<1> QED  BY <1>1, EvictionInvariance, PTL DEF Spec, LastHotCopyStays
=============================================================================
