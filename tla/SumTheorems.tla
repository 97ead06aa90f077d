---------------------------- MODULE SumTheorems ----------------------------
(***************************************************************************)
(* What SumFunctionOnSet and SumFunction compute over a finite set, the    *)
(* induction over its subsets it takes to prove it, and what a loop over   *)
(* an interval computes: families of sets stand for the predicates an      *)
(* induction theorem would be instantiated with.  And what the operators   *)
(* on sequences yield: concatenation, flattening, a part, the extremes,    *)
(* and a list of bounded length that keeps its entries by recency.         *)
(***************************************************************************)
EXTENDS Integers, SequencesExt, FiniteSetTheorems, WellFoundedInduction, TLAPS

\* A family of subsets of S that holds every set whose strict subsets it holds
\* holds them all.
LEMMA SubsetInduction ==
    ASSUME NEW S, IsFiniteSet(S), NEW T \in SUBSET SUBSET S,
           \A u \in SUBSET S : (\A v \in SUBSET u : v # u => v \in T) => u \in T
    PROVE  T = SUBSET S
<1> DEFINE Rest == (SUBSET S) \ T
<1>1. SUFFICES ASSUME Rest # {} PROVE FALSE
  OBVIOUS
<1>2. IsWellFoundedOn(StrictSubsetOrdering(S), SUBSET S)
  BY FS_StrictSubsetOrderingWellFounded, FS_FiniteSubsetsOfFinite
<1>3. PICK u \in Rest : \A v \in Rest : ~(<<v, u>> \in StrictSubsetOrdering(S))
  <2>1. Rest \subseteq SUBSET S
    OBVIOUS
  <2> HIDE DEF Rest
  <2>2. QED
    BY <1>1, <1>2, <2>1, WFMin
<1>4. ASSUME NEW v \in SUBSET u, v # u PROVE v \in T
  <2>1. <<v, u>> \in StrictSubsetOrdering(S)
    BY <1>3, <1>4 DEF StrictSubsetOrdering
  <2>2. QED
    BY <1>3, <1>4, <2>1
<1>5. QED
  BY <1>3, <1>4

\* A family that holds the empty set and stays closed under one more element.
LEMMA ElementInduction ==
    ASSUME NEW S, IsFiniteSet(S), NEW T \in SUBSET SUBSET S,
           {} \in T, \A u, x : u \in T /\ x \in S /\ x \notin u => u \cup {x} \in T
    PROVE  T = SUBSET S
<1>1. ASSUME NEW u \in SUBSET S, \A v \in SUBSET u : v # u => v \in T PROVE u \in T
  <2>1. CASE u = {}
    BY <2>1
  <2>2. CASE u # {}
    <3>1. PICK x \in u : TRUE
      BY <2>2
    <3>2. u \ {x} \in T /\ x \in S \ (u \ {x}) /\ (u \ {x}) \cup {x} = u
      BY <1>1, <3>1
    <3>3. QED
      BY <3>2
  <2>3. QED
    BY <2>1, <2>2
<1>2. QED
  BY <1>1, SubsetInduction
-----------------------------------------------------------------------------
AnyOf(u) == CHOOSE x \in u : TRUE
SumRec(g, f, S) ==
    g = [u \in SUBSET S |-> IF u = {} THEN 0 ELSE f[AnyOf(u)] + g[u \ {AnyOf(u)}]]
SumIter(f, S) == CHOOSE g : SumRec(g, f, S)
Unrolled(f, u) == IF u = {} THEN 0
                  ELSE f[AnyOf(u)] + SumFunctionOnSet(f, u \ {AnyOf(u)})

LEMMA SumIsIter == ASSUME NEW f, NEW S PROVE SumFunctionOnSet(f, S) = SumIter(f, S)[S]
BY DEF SumFunctionOnSet, FoldFunctionOnSet, MapThenFoldSet, SumIter, SumRec, AnyOf

LEMMA AnyOfIsIn == ASSUME NEW u, u # {} PROVE AnyOf(u) \in u
BY DEF AnyOf

\* The recursion that defines the sum is well founded on a finite set.
LEMMA SumUnrolls ==
    ASSUME NEW f, NEW S, IsFiniteSet(S)
    PROVE  SumFunctionOnSet(f, S) = Unrolled(f, S)
<1> DEFINE V(u) == SumFunctionOnSet(f, u)
           T == {u \in SUBSET S : V(u) = Unrolled(f, u)}
<1>1. ASSUME NEW u \in SUBSET S, \A v \in SUBSET u : v # u => v \in T PROVE u \in T
  <2> DEFINE h == [v \in SUBSET u |-> IF v = u THEN Unrolled(f, u) ELSE V(v)]
  <2>1. ASSUME NEW v \in SUBSET u, v # {}
        PROVE  v \ {AnyOf(v)} \in SUBSET u /\ v \ {AnyOf(v)} # u
    BY <2>1, AnyOfIsIn
  <2>2. SumRec(h, f, u)
    <3>1. ASSUME NEW v \in SUBSET u
          PROVE  h[v] = IF v = {} THEN 0 ELSE f[AnyOf(v)] + h[v \ {AnyOf(v)}]
      <4>1. h[v] = Unrolled(f, v)
        BY <1>1
      <4>2. v # {} => h[v \ {AnyOf(v)}] = V(v \ {AnyOf(v)})
        BY <2>1
      <4> HIDE DEF h
      <4>3. QED
        BY <4>1, <4>2 DEF Unrolled
    <3>2. h = [v \in SUBSET u |-> h[v]]
      OBVIOUS
    <3> HIDE DEF h
    <3>3. QED
      BY <3>1, <3>2 DEF SumRec
  <2>3. SumRec(SumIter(f, u), f, u)
    BY <2>2 DEF SumIter
  <2> DEFINE g == SumIter(f, u)
             Same == {v \in SUBSET u : g[v] = h[v]}
  <2>4. ASSUME NEW v \in SUBSET u
        PROVE  /\ g[v] = IF v = {} THEN 0 ELSE f[AnyOf(v)] + g[v \ {AnyOf(v)}]
               /\ h[v] = IF v = {} THEN 0 ELSE f[AnyOf(v)] + h[v \ {AnyOf(v)}]
    <3> HIDE DEF g, h
    <3>1. QED
      BY <2>2, <2>3 DEF SumRec, g
  <2>5. Same = SUBSET u
    <3>1. ASSUME NEW v \in SUBSET u, \A w \in SUBSET v : w # v => w \in Same PROVE v \in Same
      <4>1. v # {} => g[v \ {AnyOf(v)}] = h[v \ {AnyOf(v)}]
        BY <3>1, AnyOfIsIn
      <4> HIDE DEF g, h
      <4>2. QED
        BY <2>4, <4>1
    <3>2. IsFiniteSet(u)
      BY FS_Subset
    <3> HIDE DEF Same
    <3>3. Same \in SUBSET SUBSET u
      BY DEF Same
    <3>4. QED
      BY <3>1, <3>2, <3>3, SubsetInduction
  <2>6. V(u) = Unrolled(f, u)
    <3>1. u \in Same
      BY <2>5
    <3>2. g[u] = h[u]
      BY <3>1
    <3>3. h[u] = Unrolled(f, u)
      OBVIOUS
    <3>4. QED
      BY <3>2, <3>3, SumIsIter
  <2>7. QED
    BY <2>6
<1>2. T \in SUBSET SUBSET S
  OBVIOUS
<1>3. S \in T
  <2> HIDE DEF T
  <2>1. QED
    BY <1>1, <1>2, SubsetInduction
<1>4. QED
  BY <1>3

LEMMA SumOfNone == ASSUME NEW f PROVE SumFunctionOnSet(f, {}) = 0
BY SumUnrolls, FS_EmptySet DEF Unrolled

\* The sum is an integer, and any element may be taken out of it first.
LEMMA SumTakesOut ==
    ASSUME NEW S, IsFiniteSet(S), NEW f, \A x \in S : f[x] \in Int
    PROVE  /\ SumFunctionOnSet(f, S) \in Int
           /\ \A x \in S : SumFunctionOnSet(f, S) = f[x] + SumFunctionOnSet(f, S \ {x})
<1> DEFINE V(u) == SumFunctionOnSet(f, u)
           T == {u \in SUBSET S : V(u) \in Int /\ \A x \in u : V(u) = f[x] + V(u \ {x})}
<1>1. ASSUME NEW u \in SUBSET S, \A v \in SUBSET u : v # u => v \in T PROVE u \in T
  <2>1. CASE u = {}
    BY <2>1, SumOfNone
  <2>2. CASE u # {}
    <3> DEFINE c == AnyOf(u)
    <3>1. c \in u /\ f[c] \in Int
      BY <2>2, AnyOfIsIn
    <3>2. V(u) = f[c] + V(u \ {c})
      BY <2>2, SumUnrolls, FS_Subset DEF Unrolled
    <3> HIDE DEF c
    <3>3. u \ {c} \in T
      BY <1>1, <3>1
    <3>4. ASSUME NEW x \in u PROVE V(u) = f[x] + V(u \ {x})
      <4>1. CASE x = c
        BY <3>2, <4>1
      <4>2. CASE x # c
        <5> DEFINE r == (u \ {c}) \ {x}
        <5>1. x \in u \ {c} /\ c \in u \ {x} /\ (u \ {x}) \ {c} = r /\ r \in SUBSET u /\ r # u
          BY <3>1, <4>2
        <5>2. V(u \ {c}) = f[x] + V(r)
          BY <3>3, <5>1
        <5>3. u \ {x} \in T
          BY <1>1
        <5>4. V(u \ {x}) = f[c] + V(r)
          BY <5>1, <5>3
        <5>5. V(r) \in Int /\ f[x] \in Int
          BY <1>1, <5>1
        <5> HIDE DEF V
        <5>6. QED
          BY <3>1, <3>2, <5>2, <5>4, <5>5
      <4>3. QED
        BY <4>1, <4>2
    <3>5. V(u) \in Int
      BY <3>1, <3>2, <3>3
    <3>6. QED
      BY <3>4, <3>5
  <2>3. QED
    BY <2>1, <2>2
<1>2. T \in SUBSET SUBSET S
  OBVIOUS
<1>3. S \in T
  <2> HIDE DEF T
  <2>1. QED
    BY <1>1, <1>2, SubsetInduction
<1>4. QED
  BY <1>3

LEMMA SumPutsIn ==
    ASSUME NEW S, IsFiniteSet(S), NEW f, NEW x, x \notin S, \A y \in S \cup {x} : f[y] \in Int
    PROVE  SumFunctionOnSet(f, S \cup {x}) = f[x] + SumFunctionOnSet(f, S)
<1>1. IsFiniteSet(S \cup {x})
  BY FS_AddElement
<1>2. (S \cup {x}) \ {x} = S /\ x \in S \cup {x}
  OBVIOUS
<1>3. SumFunctionOnSet(f, S \cup {x}) = f[x] + SumFunctionOnSet(f, (S \cup {x}) \ {x})
  BY <1>1, <1>2, SumTakesOut
<1>4. QED
  BY <1>2, <1>3

LEMMA SumOfNaturals ==
    ASSUME NEW S, IsFiniteSet(S), NEW f, \A x \in S : f[x] \in Nat
    PROVE  SumFunctionOnSet(f, S) \in Nat
<1> DEFINE T == {u \in SUBSET S : SumFunctionOnSet(f, u) \in Nat}
<1>1. {} \in T
  BY SumOfNone
<1>2. ASSUME NEW u \in T, NEW x \in S \ u PROVE u \cup {x} \in T
  BY FS_Subset, SumPutsIn
<1>3. T \in SUBSET SUBSET S
  OBVIOUS
<1>4. S \in T
  <2> HIDE DEF T
  <2>1. \A u, x : u \in T /\ x \in S /\ x \notin u => u \cup {x} \in T
    BY <1>2
  <2>2. T = SUBSET S
    BY <1>1, <1>3, <2>1, ElementInduction
  <2>3. QED
    BY <2>2
<1>5. QED
  BY <1>4

LEMMA ImageIsFinite ==
    ASSUME NEW S, IsFiniteSet(S), NEW m
    PROVE  IsFiniteSet({m[x] : x \in S})
<1> DEFINE Image(u) == {m[x] : x \in u}
           T == {u \in SUBSET S : IsFiniteSet(Image(u))}
<1>1. {} \in T
  BY FS_EmptySet
<1>2. ASSUME NEW u \in T, NEW x \in S \ u PROVE u \cup {x} \in T
  <2>1. Image(u \cup {x}) = Image(u) \cup {m[x]}
    OBVIOUS
  <2>2. /\ IsFiniteSet(Image(u))
        /\ u \cup {x} \in SUBSET S
    OBVIOUS
  <2>3. IsFiniteSet(Image(u) \cup {m[x]})
    <3> DEFINE image == Image(u)
    <3>1. IsFiniteSet(image)
      BY <2>2
    <3> HIDE DEF image
    <3>2. IsFiniteSet(image \cup {m[x]})
      BY <3>1, FS_AddElement
    <3>3. QED
      BY <3>2 DEF image
  <2>4. QED
    BY <2>1, <2>2, <2>3
<1>3. T \in SUBSET SUBSET S
  OBVIOUS
<1>4. S \in T
  <2> HIDE DEF T
  <2>1. \A u, x : u \in T /\ x \in S /\ x \notin u => u \cup {x} \in T
    BY <1>2
  <2>2. T = SUBSET S
    BY <1>1, <1>3, <2>1, ElementInduction
  <2>3. QED
    BY <2>2
<1>5. QED
  BY <1>4

\* The sum of h over the image of an injection is the sum over its domain.
LEMMA SumOverImage ==
    ASSUME NEW S, IsFiniteSet(S), NEW f, NEW h, NEW m,
           \A x \in S : f[x] \in Int /\ h[m[x]] = f[x],
           \A x, y \in S : m[x] = m[y] => x = y
    PROVE  SumFunctionOnSet(h, {m[x] : x \in S}) = SumFunctionOnSet(f, S)
<1> DEFINE Image(u) == {m[x] : x \in u}
           T == {u \in SUBSET S : SumFunctionOnSet(h, Image(u)) = SumFunctionOnSet(f, u)}
<1>1. {} \in T
  BY SumOfNone
<1>2. ASSUME NEW u \in T, NEW x \in S \ u PROVE u \cup {x} \in T
  <2>1. u \in SUBSET S /\ IsFiniteSet(u)
    BY FS_Subset
  <2>2. Image(u \cup {x}) = Image(u) \cup {m[x]} /\ m[x] \notin Image(u)
    BY <2>1
  <2>3. IsFiniteSet(Image(u))
    BY <2>1, ImageIsFinite
  <2>4. SumFunctionOnSet(h, Image(u) \cup {m[x]}) = h[m[x]] + SumFunctionOnSet(h, Image(u))
    <3>1. \A y \in Image(u) \cup {m[x]} : h[y] \in Int
      BY <2>1
    <3> HIDE DEF Image
    <3>2. QED
      BY <2>2, <2>3, <3>1, SumPutsIn
  <2>5. SumFunctionOnSet(f, u \cup {x}) = f[x] + SumFunctionOnSet(f, u)
    BY <2>1, SumPutsIn
  <2>6. QED
    BY <2>1, <2>2, <2>4, <2>5
<1>3. T \in SUBSET SUBSET S
  OBVIOUS
<1>4. S \in T
  <2> HIDE DEF T
  <2>1. \A u, x : u \in T /\ x \in S /\ x \notin u => u \cup {x} \in T
    BY <1>2
  <2>2. T = SUBSET S
    BY <1>1, <1>3, <2>1, ElementInduction
  <2>3. QED
    BY <2>2
<1>5. QED
  BY <1>4

LEMMA SumsAgree ==
    ASSUME NEW S, IsFiniteSet(S), NEW f, NEW h, \A x \in S : f[x] \in Int /\ h[x] = f[x]
    PROVE  SumFunctionOnSet(h, S) = SumFunctionOnSet(f, S)
<1> DEFINE m == [x \in S |-> x]
<1>1. {m[x] : x \in S} = S
  OBVIOUS
<1>2. SumFunctionOnSet(h, {m[x] : x \in S}) = SumFunctionOnSet(f, S)
  <2>1. /\ \A x \in S : f[x] \in Int /\ h[m[x]] = f[x]
        /\ \A x, y \in S : m[x] = m[y] => x = y
    OBVIOUS
  <2> HIDE DEF m
  <2>2. QED
    BY <2>1, SumOverImage
<1>3. QED
  BY <1>1, <1>2

\* A finite set of integers that is not empty has a least element.
LEMMA LeastExists ==
    ASSUME NEW S, IsFiniteSet(S), S # {}, S \subseteq Int
    PROVE  \E m \in S : \A n \in S : m <= n
<1> DEFINE Least(u) == \E m \in u : \A n \in u : m <= n
           T == {u \in SUBSET S : u # {} => Least(u)}
<1>1. {} \in T
  OBVIOUS
<1>2. ASSUME NEW u \in T, NEW x \in S \ u PROVE u \cup {x} \in T
  <2>1. CASE u = {}
    BY <2>1
  <2>2. CASE u # {}
    <3>1. PICK m \in u : \A n \in u : m <= n
      BY <2>2
    <3>2. u \in SUBSET Int /\ x \in Int /\ m \in Int
      BY <3>1
    <3>3. CASE m <= x
      <4>1. \A n \in u \cup {x} : m <= n
        BY <3>1, <3>3
      <4>2. QED
        BY <3>2, <4>1
    <3>4. CASE x < m
      <4>1. \A n \in u \cup {x} : x <= n
        BY <3>1, <3>2, <3>4
      <4>2. QED
        BY <3>2, <4>1
    <3>5. QED
      BY <3>2, <3>3, <3>4
  <2>3. QED
    BY <2>1, <2>2
<1>3. T \in SUBSET SUBSET S
  OBVIOUS
<1>4. S \in T
  <2> HIDE DEF T
  <2>1. \A u, x : u \in T /\ x \in S /\ x \notin u => u \cup {x} \in T
    BY <1>2
  <2>2. T = SUBSET S
    BY <1>1, <1>3, <2>1, ElementInduction
  <2>3. QED
    BY <2>2
<1>5. QED
  BY <1>4

\* And a greatest one.
LEMMA GreatestExists ==
    ASSUME NEW S, IsFiniteSet(S), S # {}, S \subseteq Int
    PROVE  \E m \in S : \A n \in S : n <= m
<1> DEFINE neg == [x \in S |-> 0 - x]
           N   == {neg[x] : x \in S}
<1>1. IsFiniteSet(N)
  BY ImageIsFinite
<1>2. N # {} /\ N \subseteq Int
  <2>1. PICK x \in S : TRUE
    OBVIOUS
  <2>2. neg[x] \in N
    BY <2>1
  <2>3. \A y \in S : neg[y] \in Int
    OBVIOUS
  <2>4. QED
    BY <2>2, <2>3
<1>3. PICK k \in N : \A n \in N : k <= n
  BY <1>1, <1>2, LeastExists
<1>4. PICK m \in S : k = 0 - m
  BY <1>3
<1>5. \A n \in S : 0 - n \in N
  OBVIOUS
<1>6. \A n \in S : k <= 0 - n
  BY <1>3, <1>5
<1>7. m \in Int /\ \A n \in S : n \in Int
  BY <1>4
<1>8. QED
  BY <1>4, <1>6, <1>7

\* What holds of i when it holds of all before it holds from 1 to n.
LEMMA IntervalInduction ==
    ASSUME NEW n \in Nat, NEW T,
           \A i \in 1..n : (\A j \in 1..(i - 1) : j \in T) => i \in T
    PROVE  1..n \subseteq T
<1> DEFINE Rest == (1..n) \ T
<1>1. SUFFICES ASSUME Rest # {} PROVE FALSE
  OBVIOUS
<1>2. IsFiniteSet(Rest)
  BY FS_Interval, FS_Subset
<1>3. Rest \subseteq Int
  OBVIOUS
<1>4. PICK m \in Rest : \A k \in Rest : m <= k
  BY <1>1, <1>2, <1>3, LeastExists
<1>5. ASSUME NEW j \in 1..(m - 1) PROVE j \in T
  <2>1. j \in 1..n /\ ~(m <= j)
    BY <1>4
  <2>2. QED
    BY <1>4, <2>1
<1>6. m \in 1..n /\ m \notin T
  BY <1>4
<1>7. QED
  BY <1>5, <1>6

\* A part of some naturals sums up to no more than all of them.
LEMMA SumOfPart ==
    ASSUME NEW S, IsFiniteSet(S), NEW f, \A x \in S : f[x] \in Nat, NEW part \in SUBSET S
    PROVE  SumFunctionOnSet(f, part) <= SumFunctionOnSet(f, S)
<1>0. PICK R : R = S \ part
  OBVIOUS
<1> DEFINE T == {u \in SUBSET R : SumFunctionOnSet(f, part) <= SumFunctionOnSet(f, part \cup u)}
<1>1. SumFunctionOnSet(f, part) \in Nat
  <2>1. IsFiniteSet(part) /\ \A x \in part : f[x] \in Nat
    BY FS_Subset
  <2>2. QED
    BY <2>1, SumOfNaturals
<1>2. {} \in T
  <2>1. part \cup {} = part
    OBVIOUS
  <2>2. QED
    BY <1>1, <2>1
<1>3. ASSUME NEW u \in T, NEW x \in R \ u PROVE u \cup {x} \in T
  <2>1. part \cup (u \cup {x}) = (part \cup u) \cup {x} /\ x \notin part \cup u
    BY <1>0
  <2>2. part \cup u \subseteq S /\ IsFiniteSet(part \cup u)
    BY <1>0, FS_Subset
  <2>3. \A y \in (part \cup u) \cup {x} : f[y] \in Int
    BY <1>0, <2>2
  <2>4. SumFunctionOnSet(f, (part \cup u) \cup {x}) = f[x] + SumFunctionOnSet(f, part \cup u)
    BY <2>1, <2>2, <2>3, SumPutsIn
  <2>5. SumFunctionOnSet(f, part \cup u) \in Nat /\ f[x] \in Nat
    <3>1. \A y \in part \cup u : f[y] \in Nat
      BY <2>2
    <3>2. QED
      BY <1>0, <2>2, <3>1, SumOfNaturals
  <2>6. SumFunctionOnSet(f, part) <= SumFunctionOnSet(f, part \cup u)
    OBVIOUS
  <2>7. SumFunctionOnSet(f, part \cup (u \cup {x})) = f[x] + SumFunctionOnSet(f, part \cup u)
    BY <2>1, <2>4
  <2>8. SumFunctionOnSet(f, part) <= f[x] + SumFunctionOnSet(f, part \cup u)
    BY <1>1, <2>5, <2>6
  <2>9. QED
    BY <2>7, <2>8
<1>4. T \in SUBSET SUBSET R
  OBVIOUS
<1>5. R \in T
  <2> HIDE DEF T
  <2>1. \A u, x : u \in T /\ x \in R /\ x \notin u => u \cup {x} \in T
    BY <1>3
  <2>2. IsFiniteSet(R)
    BY <1>0, FS_Subset
  <2>3. T = SUBSET R
    BY <1>2, <1>4, <2>1, <2>2, ElementInduction
  <2>4. QED
    BY <2>3
<1>6. part \cup R = S
  BY <1>0
<1>7. QED
  BY <1>5, <1>6
-----------------------------------------------------------------------------
(* Functions along an interval, and what holds along it.                     *)

Stepwise(f, n, a, step) ==
    f = [i \in 0..n |-> IF i = 0 THEN a ELSE step[<<i, f[i - 1]>>]]

\* A function defined step by step along an interval exists.
LEMMA StepsAreDefined ==
    ASSUME NEW n \in Nat, NEW a, NEW step
    PROVE  \E f : Stepwise(f, n, a, step)
<1> DEFINE At(i, f) == IF i = 0 THEN a ELSE step[<<i, f[i - 1]>>]
           Defined(m) == \E f : f = [i \in 0..m |-> At(i, f)]
           T == {m \in 1..n : Defined(m)}
<1>1. Defined(0)
  <2>1. PICK f : f = [i \in 0..0 |-> a]
    OBVIOUS
  <2>2. \A i \in 0..0 : f[i] = At(i, f)
    BY <2>1
  <2>3. f = [i \in 0..0 |-> At(i, f)]
    <3> HIDE DEF At
    <3> QED  BY <2>1, <2>2, Zenon
  <2> QED  BY <2>3
<1>2. ASSUME NEW m \in 1..n, Defined(m - 1) PROVE Defined(m)
  <2>1. PICK g : g = [i \in 0..(m - 1) |-> At(i, g)]
    BY <1>2
  <2>2. PICK f : f = [i \in 0..m |-> IF i = m THEN step[<<m, g[m - 1]>>] ELSE g[i]]
    OBVIOUS
  <2>3. ASSUME NEW i \in 0..m PROVE f[i] = At(i, f)
    <3>1. CASE i = m
      <4>1. f[m - 1] = g[m - 1] /\ f[m] = step[<<m, g[m - 1]>>] /\ m # 0
        BY <2>2
      <4> QED  BY <3>1, <4>1
    <3>2. CASE i # m
      <4>1. i \in 0..(m - 1)
        BY <3>2
      <4>2. f[i] = g[i] /\ (i # 0 => f[i - 1] = g[i - 1])
        BY <2>2, <3>2
      <4>3. g[i] = At(i, g)
        <5> HIDE DEF At
        <5> QED  BY <2>1, <4>1
      <4> QED  BY <4>2, <4>3
    <3> QED  BY <3>1, <3>2
  <2>4. f = [i \in 0..m |-> At(i, f)]
    <3> HIDE DEF At
    <3> QED  BY <2>2, <2>3
  <2> QED  BY <2>4
<1>3. ASSUME NEW m \in 1..n, \A j \in 1..(m - 1) : j \in T PROVE m \in T
  <2>1. CASE m = 1
    <3>1. Defined(m - 1)
      BY <1>1, <2>1
    <3> QED  BY <1>2, <3>1
  <2>2. CASE m # 1
    <3>1. m - 1 \in T
      BY <1>3, <2>2
    <3> QED  BY <1>2, <3>1
  <2> QED  BY <2>1, <2>2
<1>4. 1..n \subseteq T
  <2> HIDE DEF T
  <2> QED  BY <1>3, IntervalInduction
<1>5. Defined(n)
  <2>1. CASE n = 0
    BY <1>1, <2>1
  <2>2. CASE n # 0
    <3>1. n \in T
      BY <1>4, <2>2
    <3> QED  BY <3>1
  <2> QED  BY <2>1, <2>2
<1> QED  BY <1>5 DEF Stepwise

\* What it starts with and every step keeps, it has along the interval.
LEMMA StepsStay ==
    ASSUME NEW n \in Nat, NEW f, NEW Good, f[0] \in Good,
           \A i \in 1..n : f[i - 1] \in Good => f[i] \in Good
    PROVE  \A i \in 0..n : f[i] \in Good
<1> DEFINE T == {i \in 1..n : f[i] \in Good}
<1>1. ASSUME NEW i \in 1..n, \A j \in 1..(i - 1) : j \in T PROVE i \in T
  <2>1. CASE i = 1
    BY <2>1
  <2>2. CASE i # 1
    <3>1. i - 1 \in T
      BY <1>1, <2>2
    <3> QED  BY <3>1
  <2> QED  BY <2>1, <2>2
<1>2. 1..n \subseteq T
  <2> HIDE DEF T
  <2> QED  BY <1>1, IntervalInduction
<1> QED  BY <1>2
-----------------------------------------------------------------------------
\* What two sequences hold, and whether they hold it once.
LEMMA ConcatSet ==
    ASSUME NEW V, NEW a \in Seq(V), NEW b \in Seq(V)
    PROVE  a \o b \in Seq(V) /\ ToSet(a \o b) = ToSet(a) \cup ToSet(b)
<1>1. a \o b \in Seq(V) /\ Len(a \o b) = Len(a) + Len(b)
  OBVIOUS
<1>2. \A i \in 1..Len(a) : (a \o b)[i] = a[i]
  OBVIOUS
<1>3. \A i \in 1..Len(b) : (a \o b)[Len(a) + i] = b[i] /\ Len(a) + i \in 1..Len(a \o b)
  BY <1>1
<1>4. \A i \in 1..Len(a \o b) : i \in 1..Len(a) \/ (i - Len(a) \in 1..Len(b) /\ i = Len(a) + (i - Len(a)))
  BY <1>1
<1>5. DOMAIN a = 1..Len(a) /\ DOMAIN b = 1..Len(b) /\ DOMAIN (a \o b) = 1..Len(a \o b)
  BY <1>1
<1>6. ASSUME NEW x \in ToSet(a \o b) PROVE x \in ToSet(a) \cup ToSet(b)
  BY <1>2, <1>3, <1>4, <1>5 DEF ToSet
<1>7. ASSUME NEW x \in ToSet(a) \cup ToSet(b) PROVE x \in ToSet(a \o b)
  <2>1. \A i \in 1..Len(a) : i \in 1..Len(a \o b)
    BY <1>1
  <2> QED  BY <1>2, <1>3, <1>5, <2>1, ZenonT(40) DEF ToSet
<1> QED  BY <1>1, <1>6, <1>7

\* Two that share nothing.
LEMMA ConcatInjective ==
    ASSUME NEW V, NEW a \in Seq(V), NEW b \in Seq(V), IsInjective(a), IsInjective(b),
           ToSet(a) \cap ToSet(b) = {}
    PROVE  IsInjective(a \o b)
<1>1. a \o b \in Seq(V) /\ Len(a \o b) = Len(a) + Len(b)
  OBVIOUS
<1>2. \A i \in 1..Len(a \o b) : \/ i \in 1..Len(a) /\ (a \o b)[i] = a[i]
                                \/ i - Len(a) \in 1..Len(b) /\ (a \o b)[i] = b[i - Len(a)]
  BY <1>1
<1>3. DOMAIN a = 1..Len(a) /\ DOMAIN b = 1..Len(b) /\ DOMAIN (a \o b) = 1..Len(a \o b)
  BY <1>1
<1>4. \A i \in 1..Len(a), j \in 1..Len(b) : a[i] # b[j]
  BY <1>3 DEF ToSet
<1>5. \A i, j \in 1..Len(a) : a[i] = a[j] => i = j
  BY <1>3 DEF IsInjective
<1>6. \A i, j \in 1..Len(b) : b[i] = b[j] => i = j
  BY <1>3 DEF IsInjective
<1>7. ASSUME NEW i \in 1..Len(a \o b), NEW j \in 1..Len(a \o b), (a \o b)[i] = (a \o b)[j]
      PROVE  i = j
  BY <1>1, <1>2, <1>4, <1>5, <1>6, <1>7
<1> QED  BY <1>3, <1>7 DEF IsInjective

\* FlattenSeq is defined part by part.
LEMMA FlattenIs ==
    ASSUME NEW V, NEW s \in Seq(Seq(V)), Len(s) # 0
    PROVE  \E g : /\ g = [i \in 1..Len(s) |-> IF i = 1 THEN s[i] ELSE g[i - 1] \o s[i]]
                  /\ FlattenSeq(s) = g[Len(s)]
<1>1. PICK n : n = Len(s)
  OBVIOUS
<1>2. n \in Nat \ {0} /\ \A i \in 1..n : s[i] \in Seq(V)
  BY <1>1
<1>3. PICK stp : stp = [p \in (1..n) \X Seq(V) |-> p[2] \o s[p[1]]]
  OBVIOUS
<1>4. PICK h : h = [i \in 0..n |-> IF i = 0 THEN <<>> ELSE stp[<<i, h[i - 1]>>]]
  <2>1. PICK h : Stepwise(h, n, <<>>, stp)
    BY <1>2, StepsAreDefined
  <2> QED  BY <2>1 DEF Stepwise
<1>5. h[0] = <<>> /\ \A i \in 1..n : h[i] = stp[<<i, h[i - 1]>>]
  <2>1. 0 \in 0..n /\ \A i \in 1..n : i \in 0..n /\ i # 0
    BY <1>2
  <2> QED  BY <1>4, <2>1
<1>6. ASSUME NEW i \in 1..n, h[i - 1] \in Seq(V) PROVE h[i] = h[i - 1] \o s[i] /\ h[i] \in Seq(V)
  <2>1. <<i, h[i - 1]>> \in (1..n) \X Seq(V)
    BY <1>6
  <2>2. stp[<<i, h[i - 1]>>] = h[i - 1] \o s[i]
    BY <1>3, <2>1
  <2>3. h[i - 1] \o s[i] \in Seq(V)
    BY <1>2, <1>6
  <2> QED  BY <1>5, <2>2, <2>3
<1>7. \A i \in 0..n : h[i] \in Seq(V)
  <2>1. <<>> \in Seq(V)
    OBVIOUS
  <2> QED  BY <1>2, <1>5, <1>6, <2>1, StepsStay
<1>8. PICK g : g = [i \in 1..n |-> h[i]]
  OBVIOUS
<1>9. ASSUME NEW i \in 1..n PROVE g[i] = IF i = 1 THEN s[i] ELSE g[i - 1] \o s[i]
  <2>1. i - 1 \in 0..n /\ h[i - 1] \in Seq(V) /\ s[i] \in Seq(V)
    <3>1. i - 1 \in 0..n
      BY <1>2
    <3> QED  BY <1>2, <1>7, <3>1
  <2>2. g[i] = h[i - 1] \o s[i]
    BY <1>6, <1>8, <2>1
  <2>3. CASE i = 1
    <3>1. h[i - 1] = <<>>
      BY <1>5, <2>3
    <3>2. <<>> \o s[i] = s[i]
      BY <2>1
    <3> QED  BY <2>2, <2>3, <3>1, <3>2
  <2>4. CASE i # 1
    <3>1. i - 1 \in 1..n
      BY <1>2, <2>4
    <3> QED  BY <1>8, <2>2, <2>4, <3>1
  <2> QED  BY <2>3, <2>4
<1> DEFINE Is(f) == f = [i \in 1..n |-> IF i = 1 THEN s[i] ELSE f[i - 1] \o s[i]]
<1>10. Is(g)
  BY <1>8, <1>9
<1>11. FlattenSeq(s) = (CHOOSE f : Is(f))[n]
  BY <1>1 DEF FlattenSeq
<1>12. Is(CHOOSE f : Is(f))
  <2> HIDE DEF Is
  <2> QED  BY <1>10
<1> QED  BY <1>1, <1>11, <1>12, Zenon

\* The flattening of a sequence of sequences holds what these hold, each once if
\* they do and share nothing.
LEMMA Flattened ==
    ASSUME NEW V, NEW s \in Seq(Seq(V))
    PROVE  /\ FlattenSeq(s) \in Seq(V)
           /\ \A x : x \in ToSet(FlattenSeq(s)) <=> \E i \in 1..Len(s) : x \in ToSet(s[i])
           /\ /\ \A i \in 1..Len(s) : IsInjective(s[i])
              /\ \A i, j \in 1..Len(s) : i # j => ToSet(s[i]) \cap ToSet(s[j]) = {}
              => IsInjective(FlattenSeq(s))
<1>1. CASE Len(s) = 0
  <2>1. FlattenSeq(s) = s /\ s = <<>>
    BY <1>1 DEF FlattenSeq
  <2> QED  BY <1>1, <2>1 DEF ToSet, IsInjective
<1>2. CASE Len(s) # 0
  <2>1. PICK g : /\ g = [i \in 1..Len(s) |-> IF i = 1 THEN s[i] ELSE g[i - 1] \o s[i]]
                 /\ FlattenSeq(s) = g[Len(s)]
    BY <1>2, FlattenIs
  <2>2. PICK n : n = Len(s)
    OBVIOUS
  <2>3. n \in Nat \ {0} /\ \A i \in 1..n : s[i] \in Seq(V)
    BY <1>2, <2>2
  <2>4. \A i \in 1..n : g[i] = IF i = 1 THEN s[i] ELSE g[i - 1] \o s[i]
    BY <2>1, <2>2
  <2> DEFINE Apart == /\ \A k \in 1..n : IsInjective(s[k])
                      /\ \A k, j \in 1..n : k # j => ToSet(s[k]) \cap ToSet(s[j]) = {}
             Good(i) == /\ g[i] \in Seq(V)
                        /\ \A v : v \in ToSet(g[i]) <=> \E k \in 1..i : v \in ToSet(s[k])
                        /\ Apart => IsInjective(g[i])
             T == {i \in 1..n : Good(i)}
  <2>5. ASSUME NEW i \in 1..n, \A j \in 1..(i - 1) : j \in T PROVE i \in T
    <3>1. CASE i = 1
      <4>1. g[i] = s[1] /\ 1 \in 1..n /\ \A k : k \in 1..i <=> k = 1
        BY <2>3, <2>4, <3>1
      <4>2. \A v : v \in ToSet(g[i]) <=> \E k \in 1..i : v \in ToSet(s[k])
        BY <4>1
      <4> QED  BY <2>3, <3>1, <4>1, <4>2
    <3>2. CASE i # 1
      <4>1. i - 1 \in 1..n /\ i - 1 \in T
        <5>1. i - 1 \in 1..n /\ i - 1 \in 1..(i - 1)
          BY <2>3, <3>2
        <5> QED  BY <2>5, <5>1
      <4>2. PICK a, b : a = g[i - 1] /\ b = s[i]
        OBVIOUS
      <4>3. a \in Seq(V) /\ b \in Seq(V) /\ g[i] = a \o b
        BY <2>3, <2>4, <3>2, <4>1, <4>2
      <4>4. g[i] \in Seq(V) /\ ToSet(g[i]) = ToSet(a) \cup ToSet(b)
        BY <4>3, ConcatSet
      <4>5. \A v : v \in ToSet(a) <=> \E k \in 1..(i - 1) : v \in ToSet(s[k])
        BY <4>1, <4>2
      <4>6. \A v : v \in ToSet(g[i]) <=> \E k \in 1..i : v \in ToSet(s[k])
        <5>1. \A k : k \in 1..i <=> k \in 1..(i - 1) \/ k = i
          BY <2>3
        <5> QED  BY <4>2, <4>4, <4>5, <5>1
      <4>7. Apart => IsInjective(g[i])
        <5> SUFFICES ASSUME Apart PROVE IsInjective(g[i])
          OBVIOUS
        <5>1. IsInjective(a) /\ IsInjective(b)
          BY <4>1, <4>2
        <5>2. ToSet(a) \cap ToSet(b) = {}
          <6>1. \A k \in 1..(i - 1) : k \in 1..n /\ k # i
            BY <2>3
          <6> QED  BY <4>2, <4>5, <6>1
        <5> QED  BY <4>3, <5>1, <5>2, ConcatInjective
      <4> QED  BY <4>4, <4>6, <4>7
    <3> QED  BY <3>1, <3>2
  <2>6. 1..n \subseteq T
    <3> HIDE DEF T
    <3> QED  BY <2>3, <2>5, IntervalInduction
  <2>7. Good(n)
    <3>1. n \in 1..n
      BY <2>3
    <3> HIDE DEF Good
    <3> QED  BY <2>6, <3>1
  <2> QED  BY <2>1, <2>2, <2>7
<1> QED  BY <1>1, <1>2

\* What is put at the end of a sequence.
LEMMA AppendIs ==
    ASSUME NEW V, NEW s \in Seq(V), NEW x \in V
    PROVE  Append(s, x) \in Seq(V) /\ ToSet(Append(s, x)) = ToSet(s) \cup {x}
<1>1. /\ Append(s, x) \in Seq(V) /\ DOMAIN Append(s, x) = 1..(Len(s) + 1)
      /\ DOMAIN s = 1..Len(s) /\ Len(s) \in Nat
  OBVIOUS
<1>2. /\ \A i \in 1..Len(s) : Append(s, x)[i] = s[i]
      /\ Append(s, x)[Len(s) + 1] = x
  OBVIOUS
<1>3. \A i : i \in 1..(Len(s) + 1) <=> i \in 1..Len(s) \/ i = Len(s) + 1
  BY <1>1
<1> QED  BY <1>1, <1>2, <1>3 DEF ToSet

\* The first members of a sequence, and how many they can be.
LEMMA FirstsAre ==
    ASSUME NEW V, NEW s \in Seq(V), NEW n \in Nat, n <= Len(s)
    PROVE  /\ SubSeq(s, 1, n) \in Seq(V)
           /\ ToSet(SubSeq(s, 1, n)) \subseteq ToSet(s)
           /\ IsFiniteSet(ToSet(SubSeq(s, 1, n)))
           /\ Cardinality(ToSet(SubSeq(s, 1, n))) <= n
           /\ n = 0 => ToSet(SubSeq(s, 1, n)) = {}
<1>1. Len(s) \in Nat /\ DOMAIN s = 1..Len(s)
  OBVIOUS
<1>2. PICK t : t = SubSeq(s, 1, n)
  OBVIOUS
<1>3. t \in Seq(V) /\ DOMAIN t = 1..n /\ \A i \in 1..n : t[i] = s[i]
  BY <1>1, <1>2
<1>4. ToSet(t) \subseteq ToSet(s)
  BY <1>1, <1>3 DEF ToSet
<1>5. IsFiniteSet(1..n) /\ Cardinality(1..n) = n
  BY FS_Interval
<1>6. t \in Surjection(1..n, ToSet(t))
  <2>1. t \in [1..n -> ToSet(t)]
    BY <1>3 DEF ToSet
  <2> QED  BY <1>3, <2>1 DEF Surjection, ToSet
<1>7. IsFiniteSet(ToSet(t)) /\ Cardinality(ToSet(t)) <= n
  BY <1>5, <1>6, FS_Surjection
<1>8. n = 0 => ToSet(t) = {}
  BY <1>3 DEF ToSet
<1> QED  BY <1>2, <1>3, <1>4, <1>7, <1>8

\* The members of a sequence are finitely many.
LEMMA MembersAreFinite ==
    ASSUME NEW V, NEW s \in Seq(V)
    PROVE  IsFiniteSet(ToSet(s)) /\ ToSet(s) \subseteq V
<1>1. Len(s) \in Nat /\ DOMAIN s = 1..Len(s) /\ \A i \in 1..Len(s) : s[i] \in V
  OBVIOUS
<1>2. SubSeq(s, 1, Len(s)) = s
  OBVIOUS
<1>3. IsFiniteSet(ToSet(SubSeq(s, 1, Len(s))))
  BY <1>1, FirstsAre
<1> QED  BY <1>1, <1>2, <1>3 DEF ToSet

\* A sequence over a set is one over a wider set.
LEMMA WiderSeq ==
    ASSUME NEW V, NEW W, V \subseteq W, NEW s \in Seq(V)
    PROVE  s \in Seq(W)
<1>1. Len(s) \in Nat /\ s = [i \in 1..Len(s) |-> s[i]] /\ \A i \in 1..Len(s) : s[i] \in V
  OBVIOUS
<1>2. s \in [1..Len(s) -> W]
  BY <1>1
<1> QED  BY <1>1, <1>2

\* The greatest, and the least, of two integers.
LEMMA MaxOfTwo ==
    ASSUME NEW x \in Int, NEW y \in Int
    PROVE  Max({x, y}) \in {x, y} /\ x <= Max({x, y}) /\ y <= Max({x, y})
<1>1. \E m \in {x, y} : \A n \in {x, y} : m >= n
  BY x <= y \/ y <= x
<1> QED  BY <1>1 DEF Max

LEMMA MinOfTwo ==
    ASSUME NEW x \in Int, NEW y \in Int
    PROVE  Min({x, y}) \in {x, y} /\ Min({x, y}) <= x /\ Min({x, y}) <= y
<1>1. \E m \in {x, y} : \A n \in {x, y} : m <= n
  BY x <= y \/ y <= x
<1> QED  BY <1>1 DEF Min

-----------------------------------------------------------------------------
(* Lists in order of recency, oldest first, as caches and stores keep them.  *)

\* A sequence without one of its elements.
LEMMA EntryRemoved ==
    ASSUME NEW V, NEW s \in Seq(V), NEW i \in 1..Len(s)
    PROVE  /\ RemoveAt(s, i) \in Seq(V) /\ Len(RemoveAt(s, i)) = Len(s) - 1
           /\ DOMAIN RemoveAt(s, i) = 1..(Len(s) - 1)
           /\ \A k \in 1..(Len(s) - 1) : RemoveAt(s, i)[k] = s[IF k < i THEN k ELSE k + 1]
<1>1. PICK n \in Nat : n = Len(s) /\ DOMAIN s = 1..n
  OBVIOUS
<1> DEFINE a == SubSeq(s, 1, i - 1)
           b == SubSeq(s, i + 1, n)
<1>2. a \in Seq(V) /\ Len(a) = i - 1 /\ \A k \in 1..(i - 1) : a[k] = s[k]
  BY <1>1
<1>3. b \in Seq(V) /\ Len(b) = n - i /\ \A k \in 1..(n - i) : b[k] = s[i + k]
  BY <1>1
<1>4. RemoveAt(s, i) = a \o b
  BY <1>1 DEF RemoveAt
<1> HIDE DEF a, b
<1>5. /\ a \o b \in Seq(V) /\ Len(a \o b) = n - 1
      /\ \A k \in 1..(n - 1) : (a \o b)[k] = IF k <= i - 1 THEN a[k] ELSE b[k - (i - 1)]
  <2>1. /\ a \o b \in Seq(V) /\ Len(a \o b) = Len(a) + Len(b)
        /\ \A k \in 1..(Len(a) + Len(b)) :
              (a \o b)[k] = IF k <= Len(a) THEN a[k] ELSE b[k - Len(a)]
    <3>1. a \o b \in Seq(V) /\ Len(a \o b) = Len(a) + Len(b)
      BY <1>2, <1>3, SMTT(30)
    <3>2. \A k \in 1..Len(a) : (a \o b)[k] = a[k]
      BY <1>2, <1>3
    <3>3. \A k \in 1..Len(b) : (a \o b)[Len(a) + k] = b[k]
      BY <1>2, <1>3
    <3>4. Len(a) \in Nat /\ Len(b) \in Nat
      BY <1>2, <1>3
    <3>5. ASSUME NEW k \in 1..(Len(a) + Len(b)), ~(k <= Len(a))
          PROVE  (a \o b)[k] = b[k - Len(a)]
      <4>1. k - Len(a) \in 1..Len(b) /\ k = Len(a) + (k - Len(a))
        BY <3>4, <3>5
      <4> QED  BY <3>3, <4>1
    <3> QED  BY <3>1, <3>2, <3>4, <3>5
  <2>2. Len(a) + Len(b) = n - 1 /\ Len(a) = i - 1
    BY <1>1, <1>2, <1>3
  <2> QED  BY <2>1, <2>2
<1>6. \A k \in 1..(n - 1) : (a \o b)[k] = s[IF k < i THEN k ELSE k + 1]
  <2>1. ASSUME NEW k \in 1..(n - 1), k < i PROVE (a \o b)[k] = s[k]
    BY <1>1, <1>2, <1>5, <2>1
  <2>2. ASSUME NEW k \in 1..(n - 1), ~(k < i) PROVE (a \o b)[k] = s[k + 1]
    <3>1. k - (i - 1) \in 1..(n - i) /\ i + (k - (i - 1)) = k + 1
      BY <1>1, <2>2
    <3>2. b[k - (i - 1)] = s[k + 1]
      BY <1>3, <3>1
    <3> QED  BY <1>1, <1>5, <2>2, <3>2
  <2> QED  BY <2>1, <2>2
<1> QED  BY <1>1, <1>4, <1>5, <1>6

\* A list of distinct entries has as many of them.
LEMMA EntriesCount ==
    ASSUME NEW V, NEW s \in Seq(V), IsInjective(s)
    PROVE  IsFiniteSet(ToSet(s)) /\ Cardinality(ToSet(s)) = Len(s)
<1>1. Len(s) \in Nat /\ DOMAIN s = 1..Len(s) /\ s \in [1..Len(s) -> ToSet(s)]
  <2>1. Len(s) \in Nat /\ DOMAIN s = 1..Len(s) /\ s = [i \in 1..Len(s) |-> s[i]]
    OBVIOUS
  <2> QED  BY <2>1 DEF ToSet
<1>2. IsFiniteSet(1..Len(s)) /\ Cardinality(1..Len(s)) = Len(s)
  BY <1>1, FS_Interval, SMTT(30)
<1>3. s \in Bijection(1..Len(s), ToSet(s))
  <2>1. \A a, b \in 1..Len(s) : s[a] = s[b] => a = b
    BY <1>1 DEF IsInjective
  <2>2. \A t \in ToSet(s) : \E k \in 1..Len(s) : s[k] = t
    BY <1>1 DEF ToSet
  <2> QED  BY <1>1, <2>1, <2>2 DEF Bijection, Injection, Surjection
<1> QED  BY <1>2, <1>3, FS_Bijection DEF ExistsBijection

\* Nothing of young is older than anything else.
Aged(list, young) == \A j, k \in 1..Len(list) : j < k /\ list[j] \in young => list[k] \in young

\* pop of a key, and an entry that comes in at the young end.
Dropped(list, x) ==
    IF Contains(list, x) THEN RemoveAt(list, CHOOSE i \in DOMAIN list : list[i] = x) ELSE list

\* What is dropped is gone, and the others keep their order.
LEMMA DroppedIs ==
    ASSUME NEW V, NEW list \in Seq(V), IsInjective(list), NEW x
    PROVE  /\ Dropped(list, x) \in Seq(V) /\ IsInjective(Dropped(list, x))
           /\ ToSet(Dropped(list, x)) = ToSet(list) \ {x}
           /\ Len(Dropped(list, x)) = Len(list) - (IF x \in ToSet(list) THEN 1 ELSE 0)
           /\ \A young : Aged(list, young) => Aged(Dropped(list, x), young)
<1>1. Len(list) \in Nat /\ DOMAIN list = 1..Len(list)
  OBVIOUS
<1>2. Contains(list, x) <=> x \in ToSet(list)
  BY <1>1 DEF Contains, ToSet
<1>3. CASE x \notin ToSet(list)
  <2>1. Dropped(list, x) = list
    BY <1>2, <1>3 DEF Dropped
  <2> QED  BY <1>1, <1>3, <2>1
<1>4. CASE x \in ToSet(list)
  <2>1. PICK i : i = CHOOSE k \in DOMAIN list : list[k] = x
    OBVIOUS
  <2>2. i \in 1..Len(list) /\ list[i] = x
    BY <1>1, <1>4, <2>1 DEF ToSet
  <2>3. PICK less : less = Dropped(list, x)
    OBVIOUS
  <2>4. less = RemoveAt(list, i)
    BY <1>2, <1>4, <2>1, <2>3 DEF Dropped
  <2>5. PICK n \in Nat : n = Len(list)
    BY <1>1, Zenon
  <2> DEFINE at(k) == IF k < i THEN k ELSE k + 1
  <2>6. /\ less \in Seq(V) /\ Len(less) = n - 1 /\ DOMAIN less = 1..(n - 1)
        /\ \A k \in 1..(n - 1) : less[k] = list[at(k)]
    BY <2>2, <2>4, <2>5, EntryRemoved
  <2>7. /\ \A k \in 1..(n - 1) : at(k) \in 1..n /\ at(k) # i
        /\ \A j, k \in 1..(n - 1) : (j < k => at(j) < at(k)) /\ (at(j) = at(k) => j = k)
        /\ \A k \in 1..n : k # i => \E j \in 1..(n - 1) : at(j) = k
    <3>1. ASSUME NEW k \in 1..n, k # i PROVE \E j \in 1..(n - 1) : at(j) = k
      <4>1. CASE k < i
        <5>1. k \in 1..(n - 1) /\ at(k) = k
          BY <2>2, <2>5, <4>1
        <5> QED  BY <5>1
      <4>2. CASE ~(k < i)
        <5>1. k - 1 \in 1..(n - 1) /\ at(k - 1) = k
          BY <2>2, <2>5, <3>1, <4>2
        <5> QED  BY <5>1
      <4> QED  BY <4>1, <4>2
    <3> QED  BY <2>2, <2>5, <3>1
  <2>8. \A j, k \in 1..n : list[j] = list[k] => j = k
    BY <1>1, <2>5 DEF IsInjective
  <2> HIDE DEF at
  <2>9. IsInjective(less)
    <3>1. ASSUME NEW j \in 1..(n - 1), NEW k \in 1..(n - 1), less[j] = less[k] PROVE j = k
      <4>1. at(j) \in 1..n /\ at(k) \in 1..n /\ list[at(j)] = list[at(k)]
        BY <2>6, <2>7, <3>1
      <4>2. at(j) = at(k)
        BY <2>8, <4>1
      <4> QED  BY <2>7, <4>2
    <3> QED  BY <2>6, <3>1 DEF IsInjective
  <2>10. ToSet(less) = ToSet(list) \ {x}
    <3>1. ASSUME NEW y \in ToSet(less) PROVE y \in ToSet(list) \ {x}
      <4>1. PICK k \in 1..(n - 1) : y = list[at(k)]
        BY <2>6 DEF ToSet
      <4> QED  BY <1>1, <2>2, <2>5, <2>7, <2>8, <4>1 DEF ToSet
    <3>2. ASSUME NEW y \in ToSet(list) \ {x} PROVE y \in ToSet(less)
      <4>1. PICK k \in 1..n : y = list[k] /\ k # i
        BY <1>1, <2>2, <2>5 DEF ToSet
      <4>2. PICK j \in 1..(n - 1) : at(j) = k
        BY <2>7, <4>1
      <4> QED  BY <2>6, <4>1, <4>2 DEF ToSet
    <3> QED  BY <3>1, <3>2
  <2>11. ASSUME NEW young, Aged(list, young) PROVE Aged(less, young)
    <3>1. ASSUME NEW j \in 1..(n - 1), NEW k \in 1..(n - 1), j < k, less[j] \in young
          PROVE  less[k] \in young
      BY <2>5, <2>6, <2>7, <2>11, <3>1 DEF Aged
    <3> QED  BY <2>6, <3>1 DEF Aged
  <2> QED  BY <1>4, <2>3, <2>5, <2>6, <2>9, <2>10, <2>11
<1> QED  BY <1>3, <1>4

\* What comes in is the youngest.
LEMMA CameInIs ==
    ASSUME NEW V, NEW list \in Seq(V), IsInjective(list), NEW x \in V, x \notin ToSet(list)
    PROVE  /\ Append(list, x) \in Seq(V) /\ IsInjective(Append(list, x))
           /\ ToSet(Append(list, x)) = ToSet(list) \cup {x}
           /\ Len(Append(list, x)) = Len(list) + 1
           /\ \A young : Aged(list, young) => Aged(Append(list, x), young \cup {x})
<1>1. PICK n \in Nat : n = Len(list) /\ DOMAIN list = 1..n
  OBVIOUS
<1>2. PICK more : more = Append(list, x)
  OBVIOUS
<1>3. /\ more \in Seq(V) /\ Len(more) = n + 1 /\ DOMAIN more = 1..(n + 1)
      /\ more[n + 1] = x /\ \A i \in 1..n : more[i] = list[i]
  BY <1>1, <1>2
<1>4. ToSet(more) = ToSet(list) \cup {x}
  BY <1>2, AppendIs
<1>5. \A i \in 1..n : list[i] # x
  BY <1>1 DEF ToSet
<1>6. IsInjective(more)
  <2>1. ASSUME NEW a \in 1..(n + 1), NEW b \in 1..(n + 1), more[a] = more[b] PROVE a = b
    <3>1. CASE a \in 1..n /\ b \in 1..n
      BY <1>1, <1>3, <2>1, <3>1 DEF IsInjective
    <3>2. CASE a = n + 1 \/ b = n + 1
      BY <1>3, <1>5, <2>1, <3>2
    <3> QED  BY <3>1, <3>2
  <2> QED  BY <1>3, <2>1 DEF IsInjective
<1>7. ASSUME NEW young, Aged(list, young) PROVE Aged(more, young \cup {x})
  <2>1. ASSUME NEW j \in 1..(n + 1), NEW k \in 1..(n + 1), j < k, more[j] \in young \cup {x}
        PROVE  more[k] \in young \cup {x}
    <3>1. CASE k = n + 1
      BY <1>3, <3>1
    <3>2. CASE k # n + 1
      <4>1. j \in 1..n /\ k \in 1..n
        BY <2>1, <3>2
      <4>2. list[j] \in young
        BY <1>3, <1>5, <2>1, <4>1
      <4> QED  BY <1>1, <1>3, <1>7, <2>1, <4>1, <4>2 DEF Aged
    <3> QED  BY <3>1, <3>2
  <2> QED  BY <1>3, <2>1 DEF Aged
<1> QED  BY <1>1, <1>2, <1>3, <1>4, <1>6, <1>7

LEMMA UpToIs == ASSUME NEW m \in Nat PROVE IsFiniteSet(1..m) /\ Cardinality(1..m) = m
BY FS_Interval

\* What an entry does to a list of at most capacity entries: it moves to the young
\* end, or comes in there, in the place of the oldest that is not fresh.
Filed(st, x, capacity) ==
    LET old  == {i \in DOMAIN st.list : st.list[i] \notin st.fresh}
        full == Len(st.list) >= capacity
    IN  IF Contains(st.list, x) THEN [st EXCEPT !.list = Append(Dropped(@, x), x)]
        ELSE IF full /\ old = {} THEN st
        ELSE [list  |-> Append(IF full THEN Dropped(st.list, st.list[Min(old)])
                               ELSE st.list, x),
              fresh |-> st.fresh \cup {x}]

\* What is young and leaves room stays, and is younger than the rest with x.
Sparing(list, fresh, capacity, more, x) ==
    \A young : fresh \subseteq young /\ young \subseteq ToSet(list)
              /\ Aged(list, young) /\ IsFiniteSet(young) /\ Cardinality(young) < capacity
              => young \cup {x} \subseteq ToSet(more) /\ Aged(more, young \cup {x})

\* The list stays within its capacity, and without repetition.
LEMMA FiledFits ==
    ASSUME NEW V, NEW capacity \in Nat \ {0}, NEW list \in Seq(V), IsInjective(list),
           Len(list) <= capacity, NEW fresh, NEW x \in V
    PROVE  LET r == Filed([list |-> list, fresh |-> fresh], x, capacity)
           IN  /\ r = [list |-> r.list, fresh |-> r.fresh]
               /\ r.list \in Seq(V) /\ IsInjective(r.list) /\ Len(r.list) <= capacity
               /\ r.fresh \subseteq fresh \cup {x}
               /\ Sparing(list, fresh, capacity, r.list, x)
<1>1. PICK n \in Nat : n = Len(list) /\ DOMAIN list = 1..n
  OBVIOUS
<1>2. PICK st : st = [list |-> list, fresh |-> fresh]
  OBVIOUS
<1>3. PICK r : r = Filed(st, x, capacity)
  OBVIOUS
<1>4. PICK old : old = {i \in 1..n : list[i] \notin fresh}
  OBVIOUS
<1>5. Contains(list, x) <=> x \in ToSet(list)
  BY <1>1 DEF Contains, ToSet
<1> DEFINE Spares(more) == Sparing(list, fresh, capacity, more, x)
           Good == /\ r = [list |-> r.list, fresh |-> r.fresh]
                   /\ r.list \in Seq(V) /\ IsInjective(r.list) /\ Len(r.list) <= capacity
                   /\ r.fresh \subseteq fresh \cup {x}
                   /\ Spares(r.list)
<1>6. r = IF Contains(list, x) THEN [st EXCEPT !.list = Append(Dropped(list, x), x)]
          ELSE IF n >= capacity /\ old = {} THEN st
          ELSE [list  |-> Append(IF n >= capacity THEN Dropped(list, list[Min(old)])
                                 ELSE list, x),
                fresh |-> fresh \cup {x}]
  <2>1. st.list = list /\ st.fresh = fresh
    BY <1>2
  <2> QED  BY <1>1, <1>3, <1>4, <2>1 DEF Filed
<1>7. ASSUME NEW y PROVE
         /\ Dropped(list, y) \in Seq(V) /\ IsInjective(Dropped(list, y))
         /\ ToSet(Dropped(list, y)) = ToSet(list) \ {y}
         /\ Len(Dropped(list, y)) = n - (IF y \in ToSet(list) THEN 1 ELSE 0)
         /\ \A young : Aged(list, young) => Aged(Dropped(list, y), young)
  BY <1>1, DroppedIs
<1>8. CASE Contains(list, x)
  <2>1. PICK less : less = Dropped(list, x)
    OBVIOUS
  <2>2. PICK more : more = Append(less, x)
    OBVIOUS
  <2>3. /\ less \in Seq(V) /\ IsInjective(less) /\ ToSet(less) = ToSet(list) \ {x}
        /\ Len(less) = n - 1 /\ \A young : Aged(list, young) => Aged(less, young)
    BY <1>5, <1>7, <1>8, <2>1
  <2>4. /\ more \in Seq(V) /\ IsInjective(more) /\ ToSet(more) = ToSet(less) \cup {x}
        /\ Len(more) = Len(less) + 1
        /\ \A young : Aged(less, young) => Aged(more, young \cup {x})
    BY <2>2, <2>3, CameInIs
  <2>5. r = [list |-> more, fresh |-> fresh]
    BY <1>2, <1>6, <1>8, <2>1, <2>2
  <2>6. Spares(more)
    BY <2>3, <2>4 DEF Sparing
  <2> QED  BY <1>1, <1>2, <1>3, <2>3, <2>4, <2>5, <2>6
<1>9. CASE ~Contains(list, x) /\ n >= capacity /\ old = {}
  <2>1. r = st
    BY <1>6, <1>9
  <2>2. ToSet(list) \subseteq fresh
    BY <1>1, <1>4, <1>9 DEF ToSet
  <2>3. ASSUME NEW young, fresh \subseteq young, young \subseteq ToSet(list),
               Cardinality(young) < capacity
        PROVE  FALSE
    <3>1. young = ToSet(list)
      BY <2>2, <2>3
    <3>2. Cardinality(young) = n
      BY <1>1, <3>1, EntriesCount
    <3> QED  BY <1>9, <2>3, <3>2
  <2>4. Spares(list)
    BY <2>3 DEF Sparing
  <2> QED  BY <1>2, <1>3, <2>1, <2>4
<1>10. CASE ~Contains(list, x) /\ n >= capacity /\ old # {}
  <2>1. PICK v : v = Min(old)
    OBVIOUS
  <2>2. v \in old /\ \A i \in old : v <= i
    <3>1. IsFiniteSet(1..n) /\ old \in SUBSET (1..n)
      BY <1>4, UpToIs
    <3>2. \E m \in old : \A i \in old : m <= i
      <4>1. IsFiniteSet(old)
        BY <3>1, FS_Subset
      <4>2. old \subseteq Int
        BY <3>1
      <4> QED  BY <1>10, <4>1, <4>2, LeastExists
    <3> QED  BY <2>1, <3>2 DEF Min
  <2>3. PICK less : less = Dropped(list, list[v])
    OBVIOUS
  <2>4. PICK more : more = Append(less, x)
    OBVIOUS
  <2>5. list[v] \in ToSet(list) /\ x # list[v] /\ x \notin ToSet(list)
    BY <1>1, <1>4, <1>5, <1>10, <2>2 DEF ToSet
  <2>6. /\ less \in Seq(V) /\ IsInjective(less) /\ ToSet(less) = ToSet(list) \ {list[v]}
        /\ Len(less) = n - 1 /\ \A young : Aged(list, young) => Aged(less, young)
    BY <1>7, <2>3, <2>5
  <2>7. x \notin ToSet(less)
    BY <2>5, <2>6
  <2>8. /\ more \in Seq(V) /\ IsInjective(more) /\ ToSet(more) = ToSet(less) \cup {x}
        /\ Len(more) = Len(less) + 1
        /\ \A young : Aged(less, young) => Aged(more, young \cup {x})
    BY <2>4, <2>6, <2>7, CameInIs
  <2>9. r = [list |-> more, fresh |-> fresh \cup {x}]
    BY <1>6, <1>10, <2>1, <2>3, <2>4
  <2>10. ASSUME NEW young, fresh \subseteq young, young \subseteq ToSet(list),
                Aged(list, young), Cardinality(young) < capacity
         PROVE  young \cup {x} \subseteq ToSet(more) /\ Aged(more, young \cup {x})
    <3>1. young # ToSet(list)
      <4>1. Cardinality(ToSet(list)) = n
        BY <1>1, EntriesCount
      <4> QED  BY <1>1, <1>10, <2>10, <4>1
    <3>2. PICK k \in 1..n : list[k] \notin young
      BY <1>1, <2>10, <3>1 DEF ToSet
    <3>3. list[v] \notin young
      <4>1. k \in old
        BY <1>4, <2>10, <3>2
      <4>2. v \in 1..n /\ v <= k
        BY <1>4, <2>2, <4>1
      <4>3. CASE v = k
        BY <3>2, <4>3
      <4>4. CASE v < k
        BY <1>1, <2>10, <3>2, <4>2, <4>4 DEF Aged
      <4> QED  BY <4>2, <4>3, <4>4
    <3> QED  BY <2>6, <2>8, <2>10, <3>3
  <2>11. Spares(more)
    BY <2>10 DEF Sparing
  <2>12. Len(more) = n
    BY <2>6, <2>8
  <2> HIDE DEF Spares
  <2>13. Good
    BY <1>1, <2>8, <2>9, <2>11, <2>12
  <2> QED  BY <1>2, <1>3, <2>13 DEF Spares
<1>11. CASE ~Contains(list, x) /\ ~(n >= capacity)
  <2>1. PICK more : more = Append(list, x)
    OBVIOUS
  <2>2. /\ more \in Seq(V) /\ IsInjective(more) /\ ToSet(more) = ToSet(list) \cup {x}
        /\ Len(more) = n + 1 /\ \A young : Aged(list, young) => Aged(more, young \cup {x})
    BY <1>1, <1>5, <1>11, <2>1, CameInIs
  <2>3. r = [list |-> more, fresh |-> fresh \cup {x}]
    BY <1>6, <1>11, <2>1
  <2>4. Spares(more)
    BY <2>2 DEF Sparing
  <2> QED  BY <1>1, <1>2, <1>3, <1>11, <2>2, <2>3, <2>4
<1> QED  BY <1>8, <1>9, <1>10, <1>11

\* f files the entries of p one after another, into list.
Filing(f, list, p, capacity) ==
    /\ f[0] = [list |-> list, fresh |-> {}]
    /\ \A i \in 1..Len(p) : f[i] = Filed(f[i - 1], p[i], capacity)

\* The lists it comes to fit.
AllFit(f, n, V, capacity) ==
    \A i \in 0..n : /\ f[i] = [list |-> f[i].list, fresh |-> f[i].fresh]
                    /\ f[i].list \in Seq(V) /\ IsInjective(f[i].list)
                    /\ Len(f[i].list) <= capacity

\* Entries that are filed one after another, as many as the list may hold, are all
\* there in the end: none pushes out another.
LEMMA AllFiled ==
    ASSUME NEW V, NEW capacity \in Nat \ {0}, NEW list \in Seq(V), IsInjective(list),
           Len(list) <= capacity, NEW p \in Seq(V), IsInjective(p), NEW f,
           Filing(f, list, p, capacity)
    PROVE  /\ AllFit(f, Len(p), V, capacity)
           /\ Len(p) <= capacity => ToSet(p) \subseteq ToSet(f[Len(p)].list)
<1>0. /\ f[0] = [list |-> list, fresh |-> {}]
      /\ \A i \in 1..Len(p) : f[i] = Filed(f[i - 1], p[i], capacity)
  BY DEF Filing
<1>1. PICK n \in Nat : n = Len(p) /\ DOMAIN p = 1..n
  OBVIOUS
<1> DEFINE First(i) == {p[k] : k \in 1..i}
           Fits(st) == /\ st = [list |-> st.list, fresh |-> st.fresh]
                       /\ st.list \in Seq(V) /\ IsInjective(st.list)
                       /\ Len(st.list) <= capacity
           Holds(i) == /\ Fits(f[i])
                       /\ n <= capacity => /\ f[i].fresh \subseteq First(i)
                                           /\ First(i) \subseteq ToSet(f[i].list)
                                           /\ Aged(f[i].list, First(i))
           T == {i \in 1..n : Holds(i)}
<1>2. Holds(0)
  <2>1. First(0) = {}
    OBVIOUS
  <2>2. f[0].list = list /\ f[0].fresh = {}
    BY <1>0
  <2>3. Fits(f[0])
    BY <1>0, <2>2
  <2> QED  BY <2>1, <2>2, <2>3 DEF Aged
<1>3. ASSUME NEW i \in 1..n, Holds(i - 1) PROVE Holds(i)
  <2>1. PICK a, b : a = f[i - 1].list /\ b = f[i - 1].fresh
    OBVIOUS
  <2>2. f[i] = Filed([list |-> a, fresh |-> b], p[i], capacity) /\ p[i] \in V
    BY <1>0, <1>1, <1>3, <2>1
  <2>3. a \in Seq(V) /\ IsInjective(a) /\ Len(a) <= capacity
    BY <1>3, <2>1
  <2>4. /\ Fits(f[i]) /\ f[i].fresh \subseteq b \cup {p[i]}
        /\ Sparing(a, b, capacity, f[i].list, p[i])
    <3>1. PICK r : r = Filed([list |-> a, fresh |-> b], p[i], capacity)
      OBVIOUS
    <3>2. f[i] = r
      BY <2>2, <3>1
    <3>3. p[i] \in V
      BY <2>2
    <3>4. /\ Fits(r) /\ r.fresh \subseteq b \cup {p[i]}
          /\ Sparing(a, b, capacity, r.list, p[i])
      BY <2>3, <3>1, <3>3, FiledFits
    <3> QED  BY <3>2, <3>4
  <2>5. CASE n <= capacity
    <3>1. First(i) = First(i - 1) \cup {p[i]}
      <4>1. 1..i = (1..(i - 1)) \cup {i}
        BY <1>3
      <4> QED  BY <4>1
    <3>2. IsFiniteSet(First(i - 1)) /\ Cardinality(First(i - 1)) < capacity
      <4>1. IsFiniteSet(1..(i - 1)) /\ Cardinality(1..(i - 1)) = i - 1
        <5>1. PICK m \in Nat : m = i - 1
          OBVIOUS
        <5>2. IsFiniteSet(1..m) /\ Cardinality(1..m) = m
          BY UpToIs
        <5> QED  BY <5>1, <5>2
      <4>2. PICK m : m = [k \in 1..(i - 1) |-> p[k]]
        OBVIOUS
      <4>3. m \in Surjection(1..(i - 1), First(i - 1))
        BY <4>2 DEF Surjection
      <4>4. IsFiniteSet(First(i - 1)) /\ Cardinality(First(i - 1)) <= i - 1
        <5> HIDE DEF First
        <5> QED  BY <4>1, <4>3, FS_Surjection
      <4>5. Cardinality(First(i - 1)) \in Nat
        <5> HIDE DEF First
        <5> QED  BY <4>4, FS_CardinalityType
      <4> HIDE DEF First
      <4> QED  BY <1>1, <2>5, <4>4, <4>5
    <3>3. PICK young : young = First(i - 1)
      OBVIOUS
    <3>4. b \subseteq young /\ young \subseteq ToSet(a) /\ Aged(a, young)
      BY <1>3, <2>1, <2>5, <3>3
    <3>5. young \cup {p[i]} \subseteq ToSet(f[i].list) /\ Aged(f[i].list, young \cup {p[i]})
      BY <2>4, <3>2, <3>3, <3>4 DEF Sparing
    <3> HIDE DEF First
    <3> QED  BY <2>4, <3>1, <3>3, <3>4, <3>5
  <2> QED  BY <2>4, <2>5
<1> HIDE DEF Holds
<1>4. \A i \in 0..n : Holds(i)
  <2>1. ASSUME NEW i \in 1..n, \A j \in 1..(i - 1) : j \in T PROVE i \in T
    <3>1. CASE i = 1
      BY <1>2, <1>3, <3>1
    <3>2. CASE i # 1
      <4>1. i - 1 \in 1..(i - 1) /\ i - 1 \in 1..n
        BY <3>2
      <4> QED  BY <1>3, <2>1, <4>1
    <3> QED  BY <3>1, <3>2
  <2>2. 1..n \subseteq T
    <3> HIDE DEF T
    <3> QED  BY <2>1, IntervalInduction
  <2> QED  BY <1>2, <2>2
<1>5. Holds(n)
  BY <1>4
<1>6. ToSet(p) = First(n)
  BY <1>1 DEF ToSet
<1>7. AllFit(f, n, V, capacity)
  BY <1>4 DEF Holds, AllFit
<1> QED  BY <1>1, <1>5, <1>6, <1>7 DEF Holds

\* Two functions that make the same steps from the same start agree.
InStep(f, g, n) == /\ f[0] = g[0]
                   /\ \A i \in 1..n : f[i - 1] = g[i - 1] => f[i] = g[i]
LEMMA StepsAgree ==
    ASSUME NEW n \in Nat, NEW f, NEW g, InStep(f, g, n)
    PROVE  f[n] = g[n]
<1>0. f[0] = g[0] /\ \A i \in 1..n : f[i - 1] = g[i - 1] => f[i] = g[i]
  BY DEF InStep
<1> DEFINE T == {i \in 1..n : f[i] = g[i]}
<1>1. ASSUME NEW i \in 1..n, \A j \in 1..(i - 1) : j \in T PROVE i \in T
  <2>1. CASE i = 1
    BY <1>0, <2>1
  <2>2. CASE i # 1
    <3>1. i - 1 \in 1..(i - 1)
      BY <2>2
    <3>2. i - 1 \in T
      BY <1>1, <3>1
    <3> QED  BY <1>0, <3>2
  <2> QED  BY <2>1, <2>2
<1>2. 1..n \subseteq T
  <2> HIDE DEF T
  <2> QED  BY <1>1, IntervalInduction
<1> QED  BY <1>0, <1>2

\* There is a way to file the entries of p one after another.
LEMMA FilingExists ==
    ASSUME NEW V, NEW capacity \in Nat \ {0}, NEW list \in Seq(V), IsInjective(list),
           Len(list) <= capacity, NEW p \in Seq(V)
    PROVE  \E f : Filing(f, list, p, capacity)
<1>1. PICK n \in Nat : n = Len(p) /\ DOMAIN p = 1..n
  OBVIOUS
<1> DEFINE start == [list |-> list, fresh |-> {}]
           Good == {st \in [list : Seq(V), fresh : SUBSET V] :
                       IsInjective(st.list) /\ Len(st.list) <= capacity}
           step == [q \in (1..n) \X Good |-> Filed(q[2], p[q[1]], capacity)]
<1>2. start \in Good
  OBVIOUS
<1>3. ASSUME NEW i \in 1..n, NEW st \in Good
      PROVE  /\ Filed(st, p[i], capacity) \in Good
             /\ step[<<i, st>>] = Filed(st, p[i], capacity)
  <2>1. PICK a, b : st = [list |-> a, fresh |-> b] /\ a = st.list /\ b = st.fresh
    OBVIOUS
  <2>2. PICK r : r = Filed([list |-> a, fresh |-> b], p[i], capacity)
    OBVIOUS
  <2>3. a \in Seq(V) /\ IsInjective(a) /\ Len(a) <= capacity /\ b \in SUBSET V /\ p[i] \in V
    BY <1>1, <2>1
  <2>4. /\ r = [list |-> r.list, fresh |-> r.fresh] /\ r.list \in Seq(V)
        /\ IsInjective(r.list) /\ Len(r.list) <= capacity /\ r.fresh \subseteq b \cup {p[i]}
    BY <2>2, <2>3, FiledFits
  <2>5. r.fresh \in SUBSET V
    BY <2>3, <2>4
  <2>6. r \in Good
    BY <2>4, <2>5
  <2>7. <<i, st>> \in (1..n) \X Good
    OBVIOUS
  <2>8. step[<<i, st>>] = Filed(st, p[i], capacity)
    <3> HIDE DEF Good
    <3> QED  BY <2>7
  <2> QED  BY <2>1, <2>2, <2>6, <2>8
<1> HIDE DEF start, step, Good
<1>4. PICK f : Stepwise(f, n, start, step)
  BY StepsAreDefined
<1>5. f[0] = start /\ \A i \in 1..n : f[i] = step[<<i, f[i - 1]>>]
  BY <1>4 DEF Stepwise
<1>6. \A i \in 0..n : f[i] \in Good
  <2>1. ASSUME NEW i \in 1..n, f[i - 1] \in Good PROVE f[i] \in Good
    <3>1. PICK st : st = f[i - 1]
      OBVIOUS
    <3>2. step[<<i, st>>] \in Good
      BY <1>3, <2>1, <3>1
    <3> QED  BY <1>5, <3>1, <3>2
  <2> QED  BY <1>2, <1>5, <2>1, StepsStay
<1>7. ASSUME NEW i \in 1..n PROVE f[i] = Filed(f[i - 1], p[i], capacity)
  <2>1. i - 1 \in 0..n
    OBVIOUS
  <2>2. f[i - 1] \in Good
    BY <1>6, <2>1
  <2> QED  BY <1>3, <1>5, <2>2
<1>8. f[0] = [list |-> list, fresh |-> {}]
  BY <1>5 DEF start
<1>9. Filing(f, list, p, capacity)
  BY <1>1, <1>7, <1>8 DEF Filing
<1> QED  BY <1>9

\* The greatest of a finite set.
LEMMA MaxIs ==
    ASSUME NEW S, IsFiniteSet(S), S # {}, S \subseteq Int
    PROVE  Max(S) \in S /\ \A x \in S : x <= Max(S)
<1>1. \E m \in S : \A x \in S : x <= m
  BY GreatestExists
<1> QED  BY <1>1 DEF Max

\* The least score, and of equal scores the one of the least index.
LEMMA LeastScoreExists ==
    ASSUME NEW S, IsFiniteSet(S), S # {}, S \subseteq Int, NEW score,
           \A i \in S : score[i] \in Int
    PROVE  \E i \in S : \A k \in S \ {i} :
               score[i] < score[k] \/ (score[i] = score[k] /\ i < k)
<1>1. PICK values : values = {score[i] : i \in S}
  OBVIOUS
<1>2. IsFiniteSet(values) /\ values # {} /\ values \subseteq Int
  <2>1. IsFiniteSet({score[i] : i \in S})
    BY ImageIsFinite
  <2> QED  BY <1>1, <2>1
<1>3. PICK least \in values : \A v \in values : least <= v
  BY <1>2, LeastExists
<1>4. PICK first : first = {i \in S : score[i] = least}
  OBVIOUS
<1>5. IsFiniteSet(first) /\ first # {} /\ first \subseteq Int
  BY <1>1, <1>3, <1>4, FS_Subset
<1>6. PICK i \in first : \A k \in first : i <= k
  BY <1>5, LeastExists
<1>7. ASSUME NEW k \in S \ {i}, ~(score[i] < score[k])
      PROVE  score[i] = score[k] /\ i < k
  <2>1. score[i] = least /\ least <= score[k] /\ least \in Int /\ score[k] \in Int
    BY <1>1, <1>2, <1>3, <1>4
  <2>2. score[k] = least
    BY <1>7, <2>1
  <2>3. i <= k /\ i \in Int /\ k \in Int /\ i # k
    BY <1>4, <1>6, <2>2
  <2> QED  BY <2>1, <2>2, <2>3
<1> QED  BY <1>4, <1>7

\* The sum over an interval is the sum over its two parts.
SumsAddUp(f, n) ==
    \A a \in 0..n : \A b \in a..n : \A c \in b..n :
        /\ SumFunctionOnSet(f, (a + 1)..b) \in Nat
        /\ SumFunctionOnSet(f, (a + 1)..c)
             = SumFunctionOnSet(f, (a + 1)..b) + SumFunctionOnSet(f, (b + 1)..c)
LEMMA SumOfParts == ASSUME NEW n \in Nat, NEW f \in [1..n -> Nat] PROVE SumsAddUp(f, n)
<1> SUFFICES ASSUME NEW a \in 0..n, NEW b \in a..n, NEW c \in b..n
             PROVE  /\ SumFunctionOnSet(f, (a + 1)..b) \in Nat
                    /\ SumFunctionOnSet(f, (a + 1)..c)
                         = SumFunctionOnSet(f, (a + 1)..b) + SumFunctionOnSet(f, (b + 1)..c)
  BY DEF SumsAddUp
<1> DEFINE Sum(i, j) == SumFunctionOnSet(f, (i + 1)..j)
           T == {j \in 1..n : b <= j => Sum(a, j) = Sum(a, b) + Sum(b, j)}
<1>1. ASSUME NEW i \in 0..n, NEW j \in i..n PROVE Sum(i, j) \in Nat
  <2>1. IsFiniteSet((i + 1)..j)
    BY FS_Interval
  <2>2. \A k \in (i + 1)..j : f[k] \in Nat
    <3>1. \A k \in (i + 1)..j : k \in 1..n
      OBVIOUS
    <3> QED  BY <3>1
  <2> QED  BY <2>1, <2>2, SumOfNaturals
<1>2. Sum(b, b) = 0
  <2>1. (b + 1)..b = {}
    OBVIOUS
  <2> QED  BY <2>1, SumOfNone
<1>3. ASSUME NEW i \in 0..n, NEW j \in (i + 1)..n PROVE Sum(i, j) = f[j] + Sum(i, j - 1)
  <2>1. PICK S : S = (i + 1)..(j - 1)
    OBVIOUS
  <2>2. IsFiniteSet(S) /\ j \notin S /\ S \cup {j} = (i + 1)..j
    <3>1. i \in Int /\ j \in Int /\ i + 1 <= j
      OBVIOUS
    <3>2. IsFiniteSet(S)
      BY <2>1, <3>1, FS_Interval
    <3>3. (i + 1)..(j - 1) \cup {j} = (i + 1)..j
      BY <3>1
    <3> QED  BY <2>1, <3>1, <3>2, <3>3
  <2>3. \A k \in S \cup {j} : f[k] \in Int
    BY <2>2
  <2> QED  BY <2>1, <2>2, <2>3, SumPutsIn
<1>4. ASSUME NEW j \in 1..n, \A k \in 1..(j - 1) : k \in T PROVE j \in T
  <2>1. CASE b < j
    <3>1. Sum(a, j) = f[j] + Sum(a, j - 1) /\ Sum(b, j) = f[j] + Sum(b, j - 1)
      BY <1>3, <2>1
    <3>2. /\ Sum(a, j - 1) \in Nat /\ Sum(b, j - 1) \in Nat /\ Sum(a, b) \in Nat
          /\ f[j] \in Nat
      BY <1>1, <2>1
    <3>3. Sum(a, j - 1) = Sum(a, b) + Sum(b, j - 1)
      <4>1. CASE j - 1 = b
        BY <1>2, <3>2, <4>1
      <4>2. CASE j - 1 # b
        <5>1. j - 1 \in 1..(j - 1) /\ b <= j - 1
          BY <2>1, <4>2
        <5> QED  BY <1>4, <5>1
      <4> QED  BY <4>1, <4>2
    <3> HIDE DEF Sum
    <3> QED  BY <3>1, <3>2, <3>3
  <2>2. CASE b = j
    <3>1. Sum(a, j) \in Nat /\ Sum(b, j) = 0
      BY <1>1, <1>2, <2>2
    <3> HIDE DEF Sum
    <3> QED  BY <2>2, <3>1
  <2>3. CASE j < b
    BY <2>3
  <2> QED  BY <2>1, <2>2, <2>3
<1>5. Sum(a, c) = Sum(a, b) + Sum(b, c)
  <2>1. CASE c = 0
    <3>1. a = 0 /\ b = 0 /\ Sum(a, b) \in Nat
      BY <1>1, <2>1
    <3> QED  BY <1>2, <2>1, <3>1
  <2>2. CASE c # 0
    <3>1. 1..n \subseteq T
      <4> HIDE DEF T
      <4> QED  BY <1>4, IntervalInduction
    <3> QED  BY <2>2, <3>1
  <2> QED  BY <2>1, <2>2
<1> QED  BY <1>1, <1>5
=============================================================================
