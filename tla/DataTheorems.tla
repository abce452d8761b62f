---------------------------- MODULE DataTheorems ----------------------------
(* Facts about finite sets that the proofs share: what a fold of the        *)
(* community modules adds up, the layers of a strict order, and the runs of *)
(* equal values in what is sorted.  A statement about every finite set is   *)
(* proved from a least subset for which it would fail, one about every      *)
(* number from a least number.                                              *)
EXTENDS Integers, FiniteSets, Functions, FiniteSetsExt, WellFoundedInduction,
        FiniteSetTheorems, TLAPS

(***************************************************************************)
(* Sums over a finite set.                                                 *)
(***************************************************************************)
Pick(s) == CHOOSE x \in s : TRUE

(* g adds up f over every subset of u. *)
Adds(g, f, u) ==
  g = [s \in SUBSET u |-> IF s = {} THEN 0 ELSE f[Pick(s)] + g[s \ {Pick(s)}]]

(* The fold is the value, at the whole set, of the function that adds. *)
LEMMA SumIs ==
    ASSUME NEW f, NEW S
    PROVE  SumFunctionOnSet(f, S) = (CHOOSE g : Adds(g, f, S))[S]
BY DEF SumFunctionOnSet, FoldFunctionOnSet, MapThenFoldSet, Adds, Pick

(* The least subset. *)
LEMMA LeastSubset ==
    ASSUME NEW S, IsFiniteSet(S), NEW B, B \subseteq SUBSET S, B # {}
    PROVE  \E u \in B : \A v \in SUBSET u : v # u => v \notin B
<1> DEFINE R == StrictSubsetOrdering(S)
<1>1. IsWellFoundedOn(R, SUBSET S)
  BY FS_StrictSubsetOrderingWellFounded, FS_FiniteSubsetsOfFinite
<1> HIDE DEF R
<1>2. PICK u \in B : \A v \in B : ~(<<v, u>> \in R) BY <1>1, WFMin
<1>3. ASSUME NEW v \in SUBSET u, v # u, v \in B PROVE FALSE
  <2>1. <<v, u>> \in R
    BY <1>3 DEF R, StrictSubsetOrdering
  <2> QED BY <1>2, <1>3, <2>1
<1> QED BY <1>2, <1>3

(* No two functions add up the same numbers, *)
LEMMA AddsUnique ==
    ASSUME NEW f, NEW u, IsFiniteSet(u), NEW g, NEW h, Adds(g, f, u), Adds(h, f, u)
    PROVE  g = h
<1>1. g = [s \in SUBSET u |-> g[s]] /\ h = [s \in SUBSET u |-> h[s]]
  BY DEF Adds
<1>2. SUFFICES ASSUME g # h PROVE FALSE OBVIOUS
<1> DEFINE B == {s \in SUBSET u : g[s] # h[s]}
<1>3. B # {} BY <1>1, <1>2
<1>4. PICK s \in B : \A v \in SUBSET s : v # s => v \notin B
  <2> HIDE DEF B
  <2>1. B \subseteq SUBSET u BY DEF B
  <2> QED BY <1>3, <2>1, LeastSubset
<1>5. s \subseteq u /\ g[s] # h[s] OBVIOUS
<1>6. CASE s = {} BY <1>5, <1>6 DEF Adds
<1>7. CASE s # {}
  <2> DEFINE v == s \ {Pick(s)}
  <2>1. Pick(s) \in s BY <1>7 DEF Pick
  <2>2. v \in SUBSET s /\ v # s /\ v \in SUBSET u BY <1>5, <2>1
  <2>3. g[v] = h[v] BY <1>4, <2>2
  <2>4. g[s] = f[Pick(s)] + g[v] /\ h[s] = f[Pick(s)] + h[v] BY <1>5, <1>7 DEF Adds
  <2> QED BY <1>5, <2>3, <2>4
<1> QED BY <1>6, <1>7

(* A function that adds up over u does so over its subsets. *)
LEMMA AddsRestricted ==
    ASSUME NEW f, NEW u, NEW g, Adds(g, f, u), NEW v \in SUBSET u
    PROVE  Adds([s \in SUBSET v |-> g[s]], f, v)
<1> DEFINE h == [s \in SUBSET v |-> g[s]]
<1>1. ASSUME NEW s \in SUBSET v
      PROVE  h[s] = IF s = {} THEN 0 ELSE f[Pick(s)] + h[s \ {Pick(s)}]
  <2>1. h[s] = g[s] /\ s \in SUBSET u OBVIOUS
  <2>2. h[s \ {Pick(s)}] = g[s \ {Pick(s)}] OBVIOUS
  <2>3. g[s] = IF s = {} THEN 0 ELSE f[Pick(s)] + g[s \ {Pick(s)}]
    BY <2>1 DEF Adds
  <2> QED BY <2>1, <2>2, <2>3
<1>2. h = [s \in SUBSET v |-> h[s]] OBVIOUS
<1> HIDE DEF h
<1>3. h = [s \in SUBSET v |-> IF s = {} THEN 0 ELSE f[Pick(s)] + h[s \ {Pick(s)}]]
  BY <1>1, <1>2
<1> QED BY <1>3 DEF Adds, h

(* and there is one for every finite set. *)
LEMMA AddsExists ==
    ASSUME NEW f, NEW S, IsFiniteSet(S)
    PROVE  \E g : Adds(g, f, S)
<1> DEFINE B == {u \in SUBSET S : ~ \E g : Adds(g, f, u)}
<1>1. SUFFICES ASSUME B # {} PROVE FALSE BY DEF B
<1>2. PICK u \in B : \A v \in SUBSET u : v # u => v \notin B
  <2>1. B \subseteq SUBSET S OBVIOUS
  <2> HIDE DEF B
  <2> QED BY <1>1, <2>1, LeastSubset
<1>3. \A v \in SUBSET u : v # u => \E g : Adds(g, f, v) BY <1>2
<1>4. IsFiniteSet(u) /\ \A v \in SUBSET u : IsFiniteSet(v) BY FS_Subset
<1> DEFINE G(v) == CHOOSE g : Adds(g, f, v)
           h == [s \in SUBSET u |->
                  IF s = {} THEN 0 ELSE f[Pick(s)] + G(s \ {Pick(s)})[s \ {Pick(s)}]]
<1>5. \A v \in SUBSET u : v # u => Adds(G(v), f, v) BY <1>3
<1>6. ASSUME NEW s \in SUBSET u, s # u PROVE h[s] = G(s)[s]
  <2>1. Adds(G(s), f, s) BY <1>5, <1>6
  <2>2. CASE s = {}
    <3>1. G(s)[s] = 0
      <4> HIDE DEF G
      <4> QED BY <2>1, <2>2 DEF Adds
    <3> QED BY <2>2, <3>1
  <2>3. CASE s # {}
    <3> DEFINE v == s \ {Pick(s)}
    <3>1. Pick(s) \in s BY <2>3 DEF Pick
    <3>2. v \in SUBSET u /\ v \in SUBSET s /\ v # u BY <1>6, <3>1
    <3>3. Adds(G(v), f, v) BY <1>5, <3>2
    <3> HIDE DEF G
    <3>4. Adds([t \in SUBSET v |-> G(s)[t]], f, v) BY <2>1, <3>2, AddsRestricted
    <3>5. G(v) = [t \in SUBSET v |-> G(s)[t]]
      <4> HIDE DEF v
      <4> QED BY <1>4, <3>2, <3>3, <3>4, AddsUnique
    <3>6. G(v)[v] = G(s)[v] BY <3>5
    <3>7. G(s)[s] = f[Pick(s)] + G(s)[v] BY <2>1, <2>3 DEF Adds
    <3>8. h[s] = f[Pick(s)] + G(v)[v] BY <2>3
    <3> QED BY <3>6, <3>7, <3>8
  <2> QED BY <2>2, <2>3
<1>7. ASSUME NEW s \in SUBSET u
      PROVE  h[s] = IF s = {} THEN 0 ELSE f[Pick(s)] + h[s \ {Pick(s)}]
  <2>1. CASE s = {} BY <2>1
  <2>2. CASE s # {}
    <3> DEFINE v == s \ {Pick(s)}
    <3>1. Pick(s) \in s BY <2>2 DEF Pick
    <3>2. v \in SUBSET u /\ v # u BY <3>1
    <3>3. h[v] = G(v)[v] BY <1>6, <3>2
    <3>4. h[s] = f[Pick(s)] + G(v)[v] BY <2>2
    <3> HIDE DEF h, G
    <3> QED BY <2>2, <3>3, <3>4
  <2> QED BY <2>1, <2>2
<1>8. h = [s \in SUBSET u |-> h[s]] OBVIOUS
<1> HIDE DEF h
<1>9. Adds(h, f, u)
  BY <1>7, <1>8 DEF Adds
<1> QED BY <1>2, <1>9

(* The recursion equation of the sum. *)
LEMMA SumStep ==
    ASSUME NEW f, NEW S, IsFiniteSet(S)
    PROVE  /\ S = {} => SumFunctionOnSet(f, S) = 0
           /\ S # {} => SumFunctionOnSet(f, S)
                        = f[Pick(S)] + SumFunctionOnSet(f, S \ {Pick(S)})
<1> DEFINE G(v) == CHOOSE g : Adds(g, f, v)
           v == S \ {Pick(S)}
<1>1. Adds(G(S), f, S) /\ SumFunctionOnSet(f, S) = G(S)[S] BY AddsExists, SumIs
<1>2. IsFiniteSet(v) BY FS_Subset
<1>3. Adds(G(v), f, v) /\ SumFunctionOnSet(f, v) = G(v)[v]
  <2> HIDE DEF v
  <2> QED BY <1>2, AddsExists, SumIs
<1> HIDE DEF G
<1>4. S = {} => G(S)[S] = 0 BY <1>1 DEF Adds
<1>5. S # {} => G(S)[S] = f[Pick(S)] + G(S)[v] BY <1>1 DEF Adds
<1>6. Adds([t \in SUBSET v |-> G(S)[t]], f, v) BY <1>1, AddsRestricted
<1>7. G(v) = [t \in SUBSET v |-> G(S)[t]]
  <2> HIDE DEF v
  <2> QED BY <1>2, <1>3, <1>6, AddsUnique
<1>8. G(v)[v] = G(S)[v] BY <1>7
<1> QED BY <1>1, <1>3, <1>4, <1>5, <1>8

(* A sum of naturals is a natural. *)
LEMMA SumNat ==
    ASSUME NEW f, NEW S, IsFiniteSet(S), \A x \in S : f[x] \in Nat
    PROVE  SumFunctionOnSet(f, S) \in Nat
<1> DEFINE B == {u \in SUBSET S : SumFunctionOnSet(f, u) \notin Nat}
<1>1. SUFFICES ASSUME B # {} PROVE FALSE BY DEF B
<1>2. PICK u \in B : \A v \in SUBSET u : v # u => v \notin B
  <2>1. B \subseteq SUBSET S OBVIOUS
  <2> HIDE DEF B
  <2> QED BY <1>1, <2>1, LeastSubset
<1>3. u \in SUBSET S /\ SumFunctionOnSet(f, u) \notin Nat /\ IsFiniteSet(u) BY FS_Subset
<1>4. u # {}
  <2>1. u = {} => SumFunctionOnSet(f, u) = 0 BY <1>3, SumStep
  <2> QED BY <1>3, <2>1
<1> DEFINE v == u \ {Pick(u)}
<1>5. Pick(u) \in u BY <1>4 DEF Pick
<1>6. v \in SUBSET u /\ v \in SUBSET S /\ v # u BY <1>3, <1>5
<1>7. SumFunctionOnSet(f, v) \in Nat BY <1>2, <1>6
<1>8. SumFunctionOnSet(f, u) = f[Pick(u)] + SumFunctionOnSet(f, v) BY <1>3, <1>4, SumStep
<1> QED BY <1>3, <1>5, <1>7, <1>8

(* Any element may be taken out first. *)
LEMMA SumTake ==
    ASSUME NEW f, NEW S, IsFiniteSet(S), \A x \in S : f[x] \in Nat, NEW x \in S
    PROVE  SumFunctionOnSet(f, S) = f[x] + SumFunctionOnSet(f, S \ {x})
<1> DEFINE Sum(u) == SumFunctionOnSet(f, u)
           B == {u \in SUBSET S : \E y \in u : Sum(u) # f[y] + Sum(u \ {y})}
<1>1. SUFFICES ASSUME B # {} PROVE FALSE BY DEF B
<1>2. PICK u \in B : \A v \in SUBSET u : v # u => v \notin B
  <2>1. B \subseteq SUBSET S OBVIOUS
  <2> HIDE DEF B
  <2> QED BY <1>1, <2>1, LeastSubset
<1>3. u \in SUBSET S /\ IsFiniteSet(u) BY FS_Subset
<1>4. PICK y \in u : Sum(u) # f[y] + Sum(u \ {y}) BY <1>2
<1> DEFINE z == Pick(u)
<1>5. z \in u BY <1>4 DEF Pick
<1>6. Sum(u) = f[z] + Sum(u \ {z}) BY <1>3, <1>4, SumStep
<1> HIDE DEF Sum, z
<1>7. z # y BY <1>4, <1>6
<1>8. /\ Sum(u \ {z}) = f[y] + Sum((u \ {z}) \ {y})
      /\ Sum(u \ {y}) = f[z] + Sum((u \ {y}) \ {z})
  <2>1. u \ {z} \in SUBSET u /\ u \ {z} # u /\ u \ {z} \in SUBSET S BY <1>3, <1>5
  <2>2. u \ {y} \in SUBSET u /\ u \ {y} # u /\ u \ {y} \in SUBSET S BY <1>3, <1>4
  <2>3. u \ {z} \notin B /\ u \ {y} \notin B BY <1>2, <2>1, <2>2
  <2> QED BY <1>5, <1>7, <2>1, <2>2, <2>3
<1>9. (u \ {z}) \ {y} = (u \ {y}) \ {z} OBVIOUS
<1> DEFINE w == (u \ {z}) \ {y}
<1>10. Sum(w) \in Nat
  <2>1. w \in SUBSET S BY <1>3
  <2>2. IsFiniteSet(w) BY <2>1, FS_Subset
  <2> HIDE DEF w
  <2> QED BY <2>1, <2>2, SumNat DEF Sum
<1> HIDE DEF w
<1>11. f[y] \in Nat /\ f[z] \in Nat BY <1>3, <1>5
<1>12. Sum(u \ {z}) = f[y] + Sum(w) /\ Sum(u \ {y}) = f[z] + Sum(w) BY <1>8, <1>9 DEF w
<1>13. Sum(u) = f[z] + (f[y] + Sum(w)) BY <1>6, <1>12
<1>14. f[y] + Sum(u \ {y}) = f[y] + (f[z] + Sum(w)) BY <1>12
<1> QED BY <1>4, <1>10, <1>11, <1>13, <1>14

(* A sum over a set with one more member. *)
LEMMA SumWith ==
    ASSUME NEW f, NEW S, IsFiniteSet(S), NEW x, x \notin S,
           \A y \in S \cup {x} : f[y] \in Nat
    PROVE  SumFunctionOnSet(f, S \cup {x}) = SumFunctionOnSet(f, S) + f[x]
<1> DEFINE T == S \cup {x}
<1>1. IsFiniteSet(T) BY FS_AddElement
<1>2. x \in T /\ T \ {x} = S OBVIOUS
<1>3. SumFunctionOnSet(f, S) \in Nat BY SumNat
<1> HIDE DEF T
<1>4. \A y \in T : f[y] \in Nat BY DEF T
<1>5. SumFunctionOnSet(f, T) = f[x] + SumFunctionOnSet(f, S) BY <1>1, <1>2, <1>4, SumTake
<1>6. f[x] \in Nat BY <1>2, <1>4
<1> QED BY <1>3, <1>5, <1>6 DEF T

(* The same summands under other names. *)
LEMMA SumRenamed ==
    ASSUME NEW f, NEW S, IsFiniteSet(S), \A x \in S : f[x] \in Nat,
           NEW g, NEW P, NEW e \in Bijection(S, P), \A x \in S : g[e[x]] = f[x]
    PROVE  SumFunctionOnSet(g, P) = SumFunctionOnSet(f, S)
<1> DEFINE Im(u) == {e[x] : x \in u}
           B == {u \in SUBSET S : SumFunctionOnSet(g, Im(u)) # SumFunctionOnSet(f, u)}
<1>1. /\ \A x, y \in S : e[x] = e[y] => x = y
      /\ Im(S) = P /\ IsFiniteSet(P) /\ \A y \in P : g[y] \in Nat
  <2>1. IsFiniteSet(P) BY FS_Surjection DEF Bijection
  <2>2. /\ \A x, y \in S : e[x] = e[y] => x = y
        /\ \A x \in S : e[x] \in P
        /\ \A y \in P : \E x \in S : e[x] = y
    BY DEF Bijection, Injection, Surjection, IsInjective
  <2> QED BY <2>1, <2>2
<1>2. SUFFICES ASSUME B # {} PROVE FALSE BY <1>1 DEF B
<1>3. PICK u \in B : \A v \in SUBSET u : v # u => v \notin B
  <2>1. B \subseteq SUBSET S OBVIOUS
  <2> HIDE DEF B
  <2> QED BY <1>2, <2>1, LeastSubset
<1>4. u \in SUBSET S /\ IsFiniteSet(u) /\ SumFunctionOnSet(g, Im(u)) # SumFunctionOnSet(f, u)
  BY FS_Subset
<1>5. u # {}
  <2>1. SUFFICES ASSUME u = {} PROVE FALSE OBVIOUS
  <2>2. Im(u) = {} BY <2>1
  <2>3. IsFiniteSet({}) BY FS_EmptySet
  <2>4. SumFunctionOnSet(g, {}) = 0 /\ SumFunctionOnSet(f, {}) = 0 BY <2>3, SumStep
  <2> QED BY <1>4, <2>1, <2>2, <2>4
<1>6. PICK x \in u : TRUE BY <1>5
<1> DEFINE v == u \ {x}
<1>7. v \in SUBSET u /\ v # u /\ v \in SUBSET S BY <1>4, <1>6
<1>8. SumFunctionOnSet(g, Im(v)) = SumFunctionOnSet(f, v) BY <1>3, <1>7
<1>9. SumFunctionOnSet(f, u) = f[x] + SumFunctionOnSet(f, v) BY <1>4, SumTake
<1>10. SumFunctionOnSet(g, Im(u)) = g[e[x]] + SumFunctionOnSet(g, Im(v))
  <2>1. Im(u) \in SUBSET P BY <1>1, <1>4
  <2>2. IsFiniteSet(Im(u)) BY <1>1, <2>1, FS_Subset
  <2>3. Im(u) \ {e[x]} = Im(v) BY <1>1, <1>4
  <2>4. e[x] \in Im(u) /\ \A y \in Im(u) : g[y] \in Nat BY <1>1, <2>1
  <2> HIDE DEF Im, v
  <2>5. SumFunctionOnSet(g, Im(u)) = g[e[x]] + SumFunctionOnSet(g, Im(u) \ {e[x]})
    BY <2>2, <2>4, SumTake
  <2> QED BY <2>3, <2>5
<1>11. g[e[x]] = f[x] BY <1>4
<1> QED BY <1>4, <1>8, <1>9, <1>10, <1>11

-----------------------------------------------------------------------------
(***************************************************************************)
(* Least and greatest numbers.                                             *)
(***************************************************************************)
(* A set of naturals has a least member, *)
LEMMA LeastNat ==
    ASSUME NEW S \in SUBSET Nat, S # {}
    PROVE  \E x \in S : \A y \in S : x <= y
<1> DEFINE R == OpToRel(<, Nat)
<1>1. IsWellFoundedOn(R, Nat) BY NatLessThanWellFounded, Zenon
<1> HIDE DEF R
<1>2. PICK x \in S : \A y \in S : ~(<<y, x>> \in R) BY <1>1, WFMin
<1>3. \A y \in S : ~(y < x) BY <1>2, Zenon DEF R, OpToRel
<1>4. \A y \in S : x <= y BY <1>3
<1> QED BY <1>4

(* and a bounded one its greatest. *)
LEMMA MaxNat ==
    ASSUME NEW S \in SUBSET Nat, S # {}, NEW n \in Nat, \A y \in S : y <= n
    PROVE  Max(S) \in S /\ \A y \in S : y <= Max(S)
<1> DEFINE T == {n - y : y \in S}
<1>1. T \in SUBSET Nat /\ T # {}
  <2>1. \A y \in S : n - y \in Nat OBVIOUS
  <2>2. T \in SUBSET Nat BY <2>1
  <2>3. PICK y \in S : TRUE OBVIOUS
  <2>4. n - y \in T BY <2>3
  <2> QED BY <2>2, <2>4
<1>2. PICK t \in T : \A u \in T : t <= u BY <1>1, LeastNat
<1>3. PICK x \in S : t = n - x BY <1>2
<1>4. \A y \in S : y <= x
  <2> SUFFICES ASSUME NEW y \in S PROVE y <= x OBVIOUS
  <2>1. n - y \in T OBVIOUS
  <2>2. n - x <= n - y BY <1>2, <1>3, <2>1
  <2> QED BY <2>2
<1> QED BY <1>4 DEF Max

-----------------------------------------------------------------------------
(* A step repeated: there is a sequence of the values it goes through. *)
Iterates(g, m, x, F) == g = [k \in 1..m |-> IF k = 1 THEN x ELSE F[g[k - 1]]]

LEMMA Repeats ==
    ASSUME NEW S, NEW x \in S, NEW F \in [S -> S], NEW m \in Nat
    PROVE  \E g \in [1..m -> S] : Iterates(g, m, x, F)
<1> USE DEF Iterates
<1> DEFINE Good(i) == \E g \in [1..i -> S] :
                          g = [k \in 1..i |-> IF k = 1 THEN x ELSE F[g[k - 1]]]
           B == {i \in Nat : ~Good(i)}
<1>1. SUFFICES ASSUME B # {} PROVE FALSE OBVIOUS
<1>2. PICK n \in B : \A i \in B : n <= i BY <1>1, LeastNat
<1>3. n # 0
  <2>1. \A g \in [1..0 -> S] : g = [k \in 1..0 |-> IF k = 1 THEN x ELSE F[g[k - 1]]]
    OBVIOUS
  <2>2. [k \in 1..0 |-> x] \in [1..0 -> S] OBVIOUS
  <2>3. Good(0) BY <2>1, <2>2
  <2>4. ~Good(n) BY <1>2
  <2> HIDE DEF Good
  <2> QED BY <2>3, <2>4
<1>4. n - 1 \in Nat /\ n \in Nat BY <1>2, <1>3
<1>5. Good(n - 1) BY <1>2, <1>4
<1>6. PICK g \in [1..(n - 1) -> S] :
             g = [k \in 1..(n - 1) |-> IF k = 1 THEN x ELSE F[g[k - 1]]]
  BY <1>5
<1> DEFINE h == [k \in 1..n |-> IF k = 1 THEN x ELSE F[g[k - 1]]]
<1>7. \A k \in 1..n : k # 1 => k - 1 \in 1..(n - 1) BY <1>4
<1>8. \A k \in 1..(n - 1) : k \in 1..n /\ h[k] = g[k]
  <2> SUFFICES ASSUME NEW k \in 1..(n - 1) PROVE k \in 1..n /\ h[k] = g[k] OBVIOUS
  <2>1. k \in 1..n BY <1>4
  <2>2. g[k] = IF k = 1 THEN x ELSE F[g[k - 1]] BY <1>6
  <2> QED BY <2>1, <2>2
<1>9. h \in [1..n -> S] BY <1>6, <1>7
<1>10. h = [k \in 1..n |-> IF k = 1 THEN x ELSE F[h[k - 1]]]
  <2>1. \A k \in 1..n : h[k] = IF k = 1 THEN x ELSE F[h[k - 1]]
    <3> SUFFICES ASSUME NEW k \in 1..n PROVE h[k] = IF k = 1 THEN x ELSE F[h[k - 1]]
      OBVIOUS
    <3>1. CASE k = 1 BY <3>1
    <3>2. CASE k # 1
      <4>1. h[k - 1] = g[k - 1] BY <1>7, <1>8, <3>2
      <4>2. h[k] = F[g[k - 1]] BY <3>2
      <4> QED BY <3>2, <4>1, <4>2
    <3> QED BY <3>1, <3>2
  <2> HIDE DEF h
  <2> QED BY <1>9, <2>1
<1>11. Good(n) BY <1>9, <1>10
<1> QED BY <1>2, <1>11

-----------------------------------------------------------------------------
(***************************************************************************)
(* Layers of a strict order r on a finite set p.                           *)
(***************************************************************************)
StrictOrder(r, p) ==
    /\ \A a \in p : <<a, a>> \notin r
    /\ \A a, b, c \in p : <<a, b>> \in r /\ <<b, c>> \in r => <<a, c>> \in r

(* A set of members that is not empty has one that none of them precedes. *)
LEMMA HasFirst ==
    ASSUME NEW p, IsFiniteSet(p), NEW r, StrictOrder(r, p), NEW S \in SUBSET p, S # {}
    PROVE  \E c \in S : \A d \in S : <<d, c>> \notin r
<1> DEFINE B == {u \in SUBSET S : u # {} /\ \A c \in u : \E d \in u : <<d, c>> \in r}
<1>1. SUFFICES ASSUME S \in B PROVE FALSE OBVIOUS
<1>2. IsFiniteSet(S) BY FS_Subset
<1>3. PICK u \in B : \A v \in SUBSET u : v # u => v \notin B
  <2>1. B \subseteq SUBSET S /\ B # {} BY <1>1
  <2> HIDE DEF B
  <2> QED BY <1>2, <2>1, LeastSubset
<1>4. PICK x \in u : TRUE BY <1>3
<1> DEFINE v == {d \in u : <<d, x>> \in r}
<1>5. x \in p /\ u \subseteq p BY <1>3, <1>4
<1>6. v # {} BY <1>3, <1>4
<1>7. v \in SUBSET u /\ v # u BY <1>4, <1>5 DEF StrictOrder
<1>8. \A c \in v : \E d \in v : <<d, c>> \in r
  <2> SUFFICES ASSUME NEW c \in v PROVE \E d \in v : <<d, c>> \in r OBVIOUS
  <2>1. PICK d \in u : <<d, c>> \in r BY <1>3
  <2>2. <<d, x>> \in r BY <1>5, <2>1 DEF StrictOrder
  <2> QED BY <2>1, <2>2
<1>9. v \in B BY <1>3, <1>6, <1>7, <1>8
<1> QED BY <1>3, <1>7, <1>9

(* Nor does one precede all: there is one that precedes none of them. *)
LEMMA HasLast ==
    ASSUME NEW p, IsFiniteSet(p), NEW r, StrictOrder(r, p), NEW S \in SUBSET p, S # {}
    PROVE  \E c \in S : \A d \in S : <<c, d>> \notin r
<1> DEFINE q == {x \in p \X p : <<x[2], x[1]>> \in r}
<1>1. \A a, b \in p : <<a, b>> \in q <=> <<b, a>> \in r OBVIOUS
<1> HIDE DEF q
<1>2. StrictOrder(q, p) BY <1>1 DEF StrictOrder
<1>3. PICK c \in S : \A d \in S : <<d, c>> \notin q BY <1>2, HasFirst
<1> QED BY <1>1, <1>3

Before(r, p, c) == {d \in p : <<d, c>> \in r}
IsChain(r, C) == \A a, b \in C : a = b \/ <<a, b>> \in r \/ <<b, a>> \in r
ChainsBefore(r, p, c) == {C \in SUBSET Before(r, p, c) : IsChain(r, C)}
Undominated(r, rest) == {c \in rest : ~\E d \in rest : <<d, c>> \in r}

(* What peeling leaves after k - 1 layers are the members that a chain of *)
(* at least k - 1 precedes.                                               *)
LEMMA PeelStep ==
    ASSUME NEW p, IsFiniteSet(p), NEW r, StrictOrder(r, p), NEW j \in Nat \ {0},
           NEW rest, rest = {c \in p : \E C \in ChainsBefore(r, p, c) : Cardinality(C) >= j - 1}
    PROVE  rest \ Undominated(r, rest)
             = {c \in p : \E C \in ChainsBefore(r, p, c) : Cardinality(C) >= j}
<1>0. \A C \in SUBSET p : IsFiniteSet(C) /\ Cardinality(C) \in Nat
  BY FS_Subset, FS_CardinalityType
<1>1. rest \ Undominated(r, rest) = {c \in rest : \E d \in rest : <<d, c>> \in r}
  BY DEF Undominated
<1>2. ASSUME NEW c \in rest, NEW d \in rest, <<d, c>> \in r
      PROVE  \E C \in ChainsBefore(r, p, c) : Cardinality(C) >= j
  <2>1. PICK C \in ChainsBefore(r, p, d) : Cardinality(C) >= j - 1 OBVIOUS
  <2>2. c \in p /\ d \in p OBVIOUS
  <2>3. C \subseteq p /\ d \notin C /\ IsChain(r, C) /\ \A e \in C : <<e, d>> \in r
    BY <2>1, <2>2 DEF ChainsBefore, Before, StrictOrder
  <2>4. IsFiniteSet(C) /\ Cardinality(C) \in Nat /\ Cardinality(C \cup {d}) = Cardinality(C) + 1
    BY <1>0, <2>3, FS_AddElement
  <2>5. C \cup {d} \subseteq Before(r, p, c)
    BY <1>2, <2>2, <2>3 DEF Before, StrictOrder
  <2>6. IsChain(r, C \cup {d}) BY <2>3 DEF IsChain
  <2>7. C \cup {d} \in ChainsBefore(r, p, c) BY <2>5, <2>6 DEF ChainsBefore
  <2>8. Cardinality(C \cup {d}) >= j BY <2>1, <2>4
  <2> QED BY <2>7, <2>8
<1>3. ASSUME NEW c \in p, NEW C \in ChainsBefore(r, p, c), Cardinality(C) >= j
      PROVE  c \in rest /\ \E d \in rest : <<d, c>> \in r
  <2>1. C \subseteq p /\ IsChain(r, C) /\ (\A e \in C : <<e, c>> \in r)
        /\ IsFiniteSet(C) /\ Cardinality(C) \in Nat
    BY <1>0 DEF ChainsBefore, Before
  <2>2. C # {} BY <1>3, <2>1, FS_EmptySet
  <2>3. PICK e \in C : \A d \in C : <<e, d>> \notin r BY <2>1, <2>2, HasLast
  <2>4. \A d \in C \ {e} : <<d, e>> \in r BY <2>1, <2>3 DEF IsChain
  <2>5. C \ {e} \in ChainsBefore(r, p, e)
    BY <2>1, <2>4 DEF ChainsBefore, Before, IsChain
  <2>6. Cardinality(C \ {e}) = Cardinality(C) - 1 BY <2>1, <2>3, FS_RemoveElement
  <2>7. Cardinality(C \ {e}) >= j - 1 BY <1>3, <2>1, <2>6
  <2>8. e \in rest BY <2>1, <2>3, <2>5, <2>7
  <2>9. Cardinality(C) >= j - 1 BY <1>3, <2>1
  <2>10. c \in rest BY <1>3, <2>9
  <2> QED BY <2>1, <2>3, <2>8, <2>10
<1> QED BY <1>1, <1>2, <1>3

(* So the layer of a member is one more than the longest chain before it. *)
LEMMA Layers ==
    ASSUME NEW p, IsFiniteSet(p), NEW r, StrictOrder(r, p),
           NEW g, g[1] = p,
           \A k \in 2..(Cardinality(p) + 1) : g[k] = g[k - 1] \ Undominated(r, g[k - 1]),
           NEW c \in p
    PROVE  LET longest == Max({Cardinality(C) : C \in ChainsBefore(r, p, c)})
           IN  /\ longest \in Nat /\ longest + 1 \in 1..Cardinality(p)
               /\ \A k \in 1..Cardinality(p) :
                      c \in Undominated(r, g[k]) <=> k = longest + 1
<1> DEFINE n == Cardinality(p)
           At(k) == {d \in p : \E C \in ChainsBefore(r, p, d) : Cardinality(C) >= k - 1}
           B == {k \in 1..(n + 1) : g[k] # At(k)}
           sizes == {Cardinality(C) : C \in ChainsBefore(r, p, c)}
<1>0. n \in Nat /\ \A C \in SUBSET p : IsFiniteSet(C) /\ Cardinality(C) \in Nat
  BY FS_Subset, FS_CardinalityType
<1>1. IsFiniteSet({}) /\ Cardinality({}) = 0 BY FS_EmptySet
<1>2. \A d \in p : {} \in ChainsBefore(r, p, d) BY DEF ChainsBefore, IsChain
<1>3. B = {}
  <2> SUFFICES ASSUME B # {} PROVE FALSE OBVIOUS
  <2>1. B \in SUBSET Nat BY <1>0
  <2>2. PICK k \in B : \A i \in B : k <= i BY <2>1, LeastNat
  <2>3. k \in 1..(n + 1) /\ g[k] # At(k) BY <2>2
  <2>4. k # 1
    <3>1. At(1) = p BY <1>1, <1>2
    <3> QED BY <2>3, <3>1
  <2>5. k - 1 \in 1..(n + 1) /\ k \in 2..(n + 1) /\ k - 1 \in Nat \ {0} BY <1>0, <2>3, <2>4
  <2>6. k - 1 \notin B BY <2>2, <2>5
  <2>7. g[k - 1] = At(k - 1) BY <2>5, <2>6
  <2>8. g[k - 1] \ Undominated(r, g[k - 1])
          = {d \in p : \E C \in ChainsBefore(r, p, d) : Cardinality(C) >= k - 1}
    BY <2>5, <2>7, PeelStep
  <2> QED BY <2>3, <2>5, <2>8
<1>4. \A k \in 1..(n + 1) : g[k] = At(k) BY <1>3
<1>5. sizes \in SUBSET Nat /\ sizes # {} /\ \A s \in sizes : s <= n - 1
  <2> SUFFICES ASSUME NEW C \in ChainsBefore(r, p, c)
               PROVE  Cardinality(C) \in Nat /\ Cardinality(C) <= n - 1
    BY <1>2
  <2>1. C \subseteq p \ {c} BY DEF ChainsBefore, Before, StrictOrder
  <2>2. IsFiniteSet(p \ {c}) /\ Cardinality(p \ {c}) = n - 1 BY FS_RemoveElement
  <2>3. Cardinality(C) <= Cardinality(p \ {c}) BY <2>1, <2>2, FS_Subset
  <2> QED BY <1>0, <2>1, <2>2, <2>3
<1> DEFINE longest == Max(sizes)
<1>6. longest \in sizes /\ \A s \in sizes : s <= longest
  <2>1. \A s \in sizes : s <= n BY <1>0, <1>5
  <2> QED BY <1>0, <1>5, <2>1, MaxNat
<1>7. longest \in Nat /\ longest + 1 \in 1..n BY <1>0, <1>5, <1>6
<1>8. ASSUME NEW k \in 1..(n + 1) PROVE c \in g[k] <=> longest >= k - 1
  <2>1. c \in g[k] <=> \E s \in sizes : s >= k - 1 BY <1>4
  <2>2. sizes \in SUBSET Nat /\ longest \in Nat BY <1>5, <1>6
  <2> HIDE DEF sizes, longest, At
  <2> QED BY <1>0, <1>6, <2>1, <2>2
<1>9. ASSUME NEW k \in 1..n PROVE c \in Undominated(r, g[k]) <=> k = longest + 1
  <2>1. k \in 1..(n + 1) /\ k + 1 \in 2..(n + 1) /\ k + 1 \in 1..(n + 1) /\ (k + 1) - 1 = k
    BY <1>0
  <2>2. g[k + 1] = g[k] \ Undominated(r, g[k]) BY <2>1
  <2>3. c \in Undominated(r, g[k]) <=> c \in g[k] /\ c \notin g[k + 1] BY <2>2 DEF Undominated
  <2>4. (c \in g[k] <=> longest >= k - 1) /\ (c \in g[k + 1] <=> longest >= k) BY <1>8, <2>1
  <2>5. longest \in Nat BY <1>5, <1>6
  <2> QED BY <2>3, <2>4, <2>5
<1> QED BY <1>7, <1>9

-----------------------------------------------------------------------------
(***************************************************************************)
(* Sorting, and the runs of equal values in what is sorted.                *)
(***************************************************************************)
Preorder(le, p) ==
    /\ \A a, b \in p : <<a, b>> \in le \/ <<b, a>> \in le
    /\ \A a, b, c \in p : <<a, b>> \in le /\ <<b, c>> \in le => <<a, c>> \in le

Sorts(s, le, p) ==
    /\ s \in [1..Cardinality(p) -> p]
    /\ \A x \in p : \E i \in 1..Cardinality(p) : s[i] = x
    /\ \A i, j \in 1..Cardinality(p) : i < j => <<s[i], s[j]>> \in le

(* There is a member that all others are at most. *)
LEMMA HasGreatest ==
    ASSUME NEW p, IsFiniteSet(p), NEW le, Preorder(le, p), NEW S \in SUBSET p, S # {}
    PROVE  \E c \in S : \A d \in S : <<d, c>> \in le
<1> DEFINE q == {x \in p \X p : x \notin le}
<1>1. \A a, b \in p : <<a, b>> \in q <=> <<a, b>> \notin le OBVIOUS
<1> HIDE DEF q
<1>2. StrictOrder(q, p) BY <1>1 DEF StrictOrder, Preorder
<1>3. PICK c \in S : \A d \in S : <<d, c>> \notin q BY <1>2, HasFirst
<1> QED BY <1>1, <1>3

(* A finite set of naturals has a maximum. *)
LEMMA MaxFinite ==
    ASSUME NEW S \in SUBSET Nat, IsFiniteSet(S), S # {}
    PROVE  Max(S) \in S /\ \A y \in S : y <= Max(S)
<1> DEFINE le == {x \in S \X S : x[1] <= x[2]}
<1>1. \A a, b \in S : <<a, b>> \in le <=> a <= b OBVIOUS
<1> HIDE DEF le
<1>2. Preorder(le, S) BY <1>1 DEF Preorder
<1>3. \E x \in S : \A y \in S : <<y, x>> \in le BY <1>2, HasGreatest
<1> QED BY <1>1, <1>3 DEF Max

(* Every finite set can be sorted. *)
LEMMA CanSort ==
    ASSUME NEW p, IsFiniteSet(p), NEW le, Preorder(le, p)
    PROVE  \E s : Sorts(s, le, p)
<1> DEFINE B == {u \in SUBSET p : ~\E s : Sorts(s, le, u)}
<1>1. SUFFICES ASSUME B # {} PROVE FALSE OBVIOUS
<1>2. PICK u \in B : \A v \in SUBSET u : v # u => v \notin B
  <2>1. B \subseteq SUBSET p OBVIOUS
  <2> HIDE DEF B
  <2> QED BY <1>1, <2>1, LeastSubset
<1>3. u \in SUBSET p /\ IsFiniteSet(u) /\ Cardinality(u) \in Nat
  BY <1>2, FS_Subset, FS_CardinalityType
<1>4. u # {}
  <2> SUFFICES ASSUME u = {} PROVE FALSE OBVIOUS
  <2>1. Cardinality(u) = 0 BY FS_EmptySet
  <2>2. Sorts([i \in 1..0 |-> i], le, u) BY <2>1 DEF Sorts
  <2> QED BY <1>2, <2>2
<1>5. PICK x \in u : \A d \in u : <<d, x>> \in le BY <1>3, <1>4, HasGreatest
<1> DEFINE v == u \ {x}
           n == Cardinality(u)
<1>6. v \in SUBSET u /\ v # u /\ v \in SUBSET p BY <1>3, <1>5
<1>7. PICK t : Sorts(t, le, v) BY <1>2, <1>6
<1>8. Cardinality(v) = n - 1 /\ n \in Nat \ {0}
  BY <1>3, <1>4, <1>5, FS_RemoveElement, FS_EmptySet
<1> DEFINE s == [i \in 1..n |-> IF i = n THEN x ELSE t[i]]
<1>9. /\ t \in [1..(n - 1) -> v]
      /\ \A y \in v : \E i \in 1..(n - 1) : t[i] = y
      /\ \A i, j \in 1..(n - 1) : i < j => <<t[i], t[j]>> \in le
  BY <1>7, <1>8 DEF Sorts
<1> HIDE DEF v, n
<1>10. \A i \in 1..n : i # n => i \in 1..(n - 1) BY <1>8
<1>11. \A i \in 1..(n - 1) : i \in 1..n /\ i # n BY <1>8
<1>12. s \in [1..n -> u] BY <1>5, <1>6, <1>9, <1>10
<1>13. \A y \in u : \E i \in 1..n : s[i] = y
  <2> SUFFICES ASSUME NEW y \in u PROVE \E i \in 1..n : s[i] = y OBVIOUS
  <2>1. CASE y = x BY <1>8, <2>1
  <2>2. CASE y # x
    <3>1. y \in v BY <2>2 DEF v
    <3>2. PICK i \in 1..(n - 1) : t[i] = y BY <1>9, <3>1
    <3> QED BY <1>11, <3>2
  <2> QED BY <2>1, <2>2
<1>14. \A i, j \in 1..n : i < j => <<s[i], s[j]>> \in le
  <2> SUFFICES ASSUME NEW i \in 1..n, NEW j \in 1..n, i < j PROVE <<s[i], s[j]>> \in le
    OBVIOUS
  <2>1. i # n /\ i \in 1..(n - 1) BY <1>8
  <2>2. CASE j = n BY <1>5, <1>12, <2>2
  <2>3. CASE j # n BY <1>9, <1>10, <2>1, <2>3
  <2> QED BY <2>2, <2>3
<1>15. Sorts(s, le, u)
  <2> HIDE DEF s
  <2> QED BY <1>12, <1>13, <1>14 DEF Sorts, n
<1> QED BY <1>2, <1>15

(* A part of what is sorted has as many members as places. *)
LEMMA PlacesCount ==
    ASSUME NEW p, IsFiniteSet(p), NEW le, NEW s, Sorts(s, le, p),
           NEW a \in Nat \ {0}, NEW b \in Nat, a <= b + 1, b <= Cardinality(p)
    PROVE  Cardinality({s[i] : i \in a..b}) = b + 1 - a
<1> DEFINE n == Cardinality(p)
           T == {s[i] : i \in a..b}
           f == [i \in a..b |-> s[i]]
<1>1. n \in Nat BY FS_CardinalityType
<1>2. s \in [1..n -> p] /\ s \in Surjection(1..n, p) BY DEF Sorts, Surjection
<1>3. IsFiniteSet(1..n) /\ Cardinality(1..n) = n
  <2> HIDE DEF n
  <2>1. IsFiniteSet(1..n) /\ Cardinality(1..n) = IF 1 > n THEN 0 ELSE n - 1 + 1
    BY <1>1, FS_Interval
  <2> QED BY <1>1, <2>1
<1>4. s \in Injection(1..n, p)
  BY <1>2, <1>3, FS_SurjSameCardinalityImpliesInj
<1>5. \A i \in a..b : i \in 1..n BY <1>1
<1>6. f \in Bijection(a..b, T)
  <2>1. f \in [a..b -> T] OBVIOUS
  <2>2. \A i, j \in a..b : f[i] = f[j] => i = j BY <1>2, <1>4, <1>5 DEF Injection, IsInjective
  <2>3. \A y \in T : \E i \in a..b : f[i] = y OBVIOUS
  <2> HIDE DEF T, f
  <2> QED BY <2>1, <2>2, <2>3 DEF Bijection, Injection, Surjection, IsInjective
<1>7. IsFiniteSet(a..b) /\ Cardinality(a..b) = IF a > b THEN 0 ELSE b - a + 1
  BY FS_Interval
<1> HIDE DEF T, f
<1>8. Cardinality(T) = Cardinality(a..b) BY <1>6, <1>7, FS_Bijection DEF ExistsBijection
<1>9. Cardinality(T) = b + 1 - a BY <1>7, <1>8
<1> QED BY <1>9 DEF T

Equal(le, a, b) == <<a, b>> \in le /\ <<b, a>> \in le
RunEnd(s, le, n, start) == Max({t \in start..n : \A u \in start..t : Equal(le, s[u], s[start])})
RunStart(s, le, start) == \A q \in 1..(start - 1) : <<s[start], s[q]>> \notin le

(* Beyond the end of a run the values are greater. *)
LEMMA RunIs ==
    ASSUME NEW p, IsFiniteSet(p), NEW le, Preorder(le, p), NEW s, Sorts(s, le, p),
           NEW start \in 1..Cardinality(p)
    PROVE  LET n == Cardinality(p)
               e == RunEnd(s, le, n, start)
           IN  /\ e \in start..n
               /\ \A u \in start..e : Equal(le, s[u], s[start])
               /\ \A q \in (e + 1)..n : <<s[q], s[start]>> \notin le
<1> DEFINE n == Cardinality(p)
           e == RunEnd(s, le, n, start)
           T == {t \in start..n : \A u \in start..t : Equal(le, s[u], s[start])}
<1>1. n \in Nat BY FS_CardinalityType
<1>2. /\ s \in [1..n -> p]
      /\ \A i, j \in 1..n : i < j => <<s[i], s[j]>> \in le
  BY DEF Sorts
<1> HIDE DEF n
<1>3. start \in 1..n BY DEF n
<1>4. Equal(le, s[start], s[start]) BY <1>2, <1>3 DEF Equal, Preorder
<1>5. start \in T
  <2>1. start \in start..n /\ \A u \in start..start : u = start BY <1>1, <1>3
  <2> QED BY <1>4, <2>1
<1>6. T \in SUBSET Nat /\ \A t \in T : t <= n BY <1>1, <1>3
<1>7. Max(T) \in T /\ \A t \in T : t <= Max(T)
  <2> HIDE DEF T
  <2> QED BY <1>1, <1>5, <1>6, MaxNat
<1>8. e = Max(T) BY DEF RunEnd
<1>9. e \in start..n /\ \A u \in start..e : Equal(le, s[u], s[start]) BY <1>7, <1>8
<1> HIDE DEF e
<1>10. ASSUME NEW q \in (e + 1)..n, <<s[q], s[start]>> \in le PROVE FALSE
  <2>1. e \in Nat /\ q \in 1..n /\ e + 1 \in 1..n /\ e + 1 \in start..n /\ start < e + 1
    BY <1>1, <1>3, <1>9
  <2>2. <<s[e + 1], s[q]>> \in le \/ e + 1 = q
    BY <1>2, <2>1
  <2>3. <<s[e + 1], s[start]>> \in le
    BY <1>2, <1>3, <1>10, <2>1, <2>2 DEF Preorder
  <2>4. Equal(le, s[e + 1], s[start]) BY <1>2, <1>3, <2>1, <2>3 DEF Equal
  <2>5. \A u \in start..(e + 1) : u \in start..e \/ u = e + 1 BY <1>3, <2>1
  <2>6. e + 1 \in T BY <1>9, <2>1, <2>4, <2>5
  <2>7. e + 1 <= e BY <1>7, <1>8, <2>6
  <2> QED BY <2>1, <2>7
<1> QED BY <1>9, <1>10 DEF e, n

(* The next run starts behind it. *)
LEMMA NextRun ==
    ASSUME NEW p, IsFiniteSet(p), NEW le, Preorder(le, p), NEW s, Sorts(s, le, p),
           NEW start \in 1..Cardinality(p), NEW e, e = RunEnd(s, le, Cardinality(p), start),
           e + 1 <= Cardinality(p)
    PROVE  RunStart(s, le, e + 1)
<1> DEFINE n == Cardinality(p)
<1>1. n \in Nat BY FS_CardinalityType
<1>2. /\ s \in [1..n -> p]
      /\ \A i, j \in 1..n : i < j => <<s[i], s[j]>> \in le
  BY DEF Sorts
<1>3. /\ e \in start..n /\ \A u \in start..e : Equal(le, s[u], s[start])
      /\ \A q \in (e + 1)..n : <<s[q], s[start]>> \notin le
  BY RunIs
<1> HIDE DEF n
<1>4. start \in 1..n /\ e + 1 <= n BY DEF n
<1>5. e \in Nat /\ e + 1 \in 1..n /\ e + 1 \in (e + 1)..n BY <1>1, <1>3, <1>4
<1>6. SUFFICES ASSUME NEW q \in 1..((e + 1) - 1), <<s[e + 1], s[q]>> \in le PROVE FALSE
  BY DEF RunStart
<1>7. q \in 1..n /\ (q \in start..e \/ q < start) BY <1>1, <1>4, <1>5
<1>8. <<s[q], s[start]>> \in le BY <1>2, <1>3, <1>4, <1>7 DEF Equal
<1>9. <<s[e + 1], s[start]>> \in le BY <1>2, <1>4, <1>5, <1>6, <1>7, <1>8 DEF Preorder
<1> QED BY <1>3, <1>5, <1>9

(* The middle of a run, doubled, is the mean place of the values equal to   *)
(* its own.                                                                 *)
LEMMA RunCounts ==
    ASSUME NEW p, IsFiniteSet(p), NEW le, Preorder(le, p), NEW s, Sorts(s, le, p),
           NEW start \in 1..Cardinality(p), RunStart(s, le, start),
           NEW e, e = RunEnd(s, le, Cardinality(p), start), NEW i \in start..e
    PROVE  2 * Cardinality({d \in p : <<d, s[i]>> \in le /\ <<s[i], d>> \notin le})
             + Cardinality({d \in p : Equal(le, d, s[i])}) + 1 = start + e
<1> DEFINE n == Cardinality(p)
           c == s[i]
<1>1. n \in Nat BY FS_CardinalityType
<1>2. /\ s \in [1..n -> p] /\ \A x \in p : \E q \in 1..n : s[q] = x
      /\ \A a, b \in 1..n : a < b => <<s[a], s[b]>> \in le
  BY DEF Sorts
<1>3. /\ e \in start..n /\ \A u \in start..e : Equal(le, s[u], s[start])
      /\ \A q \in (e + 1)..n : <<s[q], s[start]>> \notin le
  BY RunIs
<1>4. start \in 1..n OBVIOUS
<1>p. \A a \in Nat \ {0}, b \in Nat :
          a <= b + 1 /\ b <= n => Cardinality({s[q] : q \in a..b}) = b + 1 - a
  BY PlacesCount
<1>5. Cardinality({s[q] : q \in 1..(start - 1)}) = start - 1
  <2>1. 1 \in Nat \ {0} /\ start - 1 \in Nat /\ 1 <= (start - 1) + 1 /\ start - 1 <= n
    BY <1>1, <1>4
  <2>2. Cardinality({s[q] : q \in 1..(start - 1)}) = (start - 1) + 1 - 1
    BY <1>p, <2>1
  <2> QED BY <1>1, <1>4, <2>2
<1>6. Cardinality({s[q] : q \in start..e}) = e + 1 - start
  <2>1. start \in Nat \ {0} /\ e \in Nat /\ start <= e + 1 /\ e <= n BY <1>1, <1>3, <1>4
  <2> HIDE DEF n
  <2> QED BY <1>p, <2>1
<1> HIDE DEF n
<1>7. i \in 1..n /\ e \in Nat /\ c \in p BY <1>1, <1>2, <1>3, <1>4
<1>8. <<c, s[start]>> \in le /\ <<s[start], c>> \in le BY <1>3 DEF Equal
<1>9. ASSUME NEW q \in 1..(start - 1)
      PROVE  q \in 1..n /\ <<s[q], c>> \in le /\ <<c, s[q]>> \notin le
  <2>1. q \in 1..n /\ q < start BY <1>1, <1>4
  <2>2. <<s[q], s[start]>> \in le /\ <<s[start], s[q]>> \notin le
    BY <1>2, <1>4, <2>1 DEF RunStart
  <2> QED BY <1>2, <1>4, <1>7, <1>8, <2>1, <2>2 DEF Preorder
<1>10. ASSUME NEW q \in start..e PROVE q \in 1..n /\ Equal(le, s[q], c)
  <2>1. q \in 1..n BY <1>1, <1>3, <1>4
  <2>2. Equal(le, s[q], s[start]) BY <1>3
  <2> QED BY <1>2, <1>4, <1>7, <1>8, <2>1, <2>2 DEF Preorder, Equal
<1>11. ASSUME NEW q \in (e + 1)..n PROVE q \in 1..n /\ <<s[q], c>> \notin le
  <2>1. q \in 1..n BY <1>1, <1>3, <1>4
  <2>2. <<s[q], s[start]>> \notin le BY <1>3
  <2> QED BY <1>2, <1>4, <1>7, <1>8, <2>1, <2>2 DEF Preorder
<1>12. \A q \in 1..n : q \in 1..(start - 1) \/ q \in start..e \/ q \in (e + 1)..n
  BY <1>1, <1>3, <1>4
<1>13. {d \in p : <<d, c>> \in le /\ <<c, d>> \notin le} = {s[q] : q \in 1..(start - 1)}
  BY <1>2, <1>9, <1>10, <1>11, <1>12 DEF Equal
<1>14. {d \in p : Equal(le, d, c)} = {s[q] : q \in start..e}
  BY <1>2, <1>9, <1>10, <1>11, <1>12 DEF Equal
<1>15. /\ Cardinality({d \in p : <<d, c>> \in le /\ <<c, d>> \notin le}) = start - 1
       /\ Cardinality({d \in p : Equal(le, d, c)}) = e + 1 - start
  BY <1>5, <1>6, <1>13, <1>14
<1>16. start \in Nat /\ e \in Nat BY <1>4, <1>7
<1>17. 2 * (start - 1) + (e + 1 - start) + 1 = start + e BY <1>16
<1> QED BY <1>15, <1>17

(* The walk from run to run meets every place. *)
LEMMA RunsMeetAll ==
    ASSUME NEW p, IsFiniteSet(p), NEW le, Preorder(le, p), NEW s, Sorts(s, le, p),
           NEW n, n = Cardinality(p), NEW g, n > 0 => g[1] = 1,
           \A k \in 2..(n + 1) :
               g[k] = IF g[k - 1] > n THEN g[k - 1] ELSE RunEnd(s, le, n, g[k - 1]) + 1
    PROVE  /\ \A k \in 1..n : g[k] \in 1..n => RunStart(s, le, g[k])
           /\ \A i \in 1..n : \E k \in 1..n :
                  g[k] \in 1..n /\ i \in g[k]..RunEnd(s, le, n, g[k])
<1>1. n \in Nat BY FS_CardinalityType
<1>2. ASSUME NEW a \in 1..n
      PROVE  RunEnd(s, le, n, a) \in a..n
  BY <1>2, RunIs
<1> SUFFICES ASSUME n > 0
             PROVE  /\ \A k \in 1..n : g[k] \in 1..n => RunStart(s, le, g[k])
                    /\ \A i \in 1..n : \E k \in 1..n :
                           g[k] \in 1..n /\ i \in g[k]..RunEnd(s, le, n, g[k])
  BY <1>1
<1> DEFINE Good(k) == /\ g[k] \in 1..(n + 1) /\ g[k] >= k
                      /\ g[k] <= n => RunStart(s, le, g[k])
           B == {k \in 1..(n + 1) : ~Good(k)}
<1>3. B = {}
  <2> SUFFICES ASSUME B # {} PROVE FALSE OBVIOUS
  <2>1. B \in SUBSET Nat BY <1>1
  <2>2. PICK k \in B : \A i \in B : k <= i BY <2>1, LeastNat
  <2>3. k \in 1..(n + 1) /\ ~Good(k) BY <2>2
  <2>4. k # 1
    <3>1. Good(1) BY <1>1 DEF RunStart
    <3> HIDE DEF Good
    <3> QED BY <2>3, <3>1
  <2>5. k - 1 \in 1..(n + 1) /\ k \in 2..(n + 1) /\ k \in Nat BY <1>1, <2>3, <2>4
  <2>6. Good(k - 1)
    <3>1. k - 1 \notin B BY <2>2, <2>5
    <3> HIDE DEF Good
    <3> QED BY <2>5, <3>1
  <2>7. g[k - 1] \in 1..(n + 1) /\ g[k - 1] >= k - 1 BY <2>6
  <2>8. CASE g[k - 1] > n
    <3>1. g[k] = g[k - 1] /\ g[k - 1] = n + 1 BY <1>1, <2>5, <2>7, <2>8
    <3> QED BY <1>1, <2>3, <3>1
  <2>9. CASE ~(g[k - 1] > n)
    <3>1. g[k - 1] \in 1..n BY <1>1, <2>7, <2>9
    <3> DEFINE e == RunEnd(s, le, n, g[k - 1])
    <3>2. g[k] = e + 1 BY <2>5, <2>9
    <3>3. e \in g[k - 1]..n BY <1>2, <3>1
    <3>4. e + 1 <= n => RunStart(s, le, e + 1) BY <3>1, NextRun
    <3> HIDE DEF e
    <3>5. g[k] \in 1..(n + 1) /\ g[k] >= k BY <1>1, <2>5, <2>7, <3>1, <3>2, <3>3
    <3> QED BY <2>3, <3>2, <3>4, <3>5
  <2> QED BY <2>8, <2>9
<1>4. \A k \in 1..(n + 1) : Good(k)
  <2> HIDE DEF Good
  <2> QED BY <1>3
<1>5. ASSUME NEW i \in 1..n
      PROVE  \E k \in 1..n : g[k] \in 1..n /\ i \in g[k]..RunEnd(s, le, n, g[k])
  <2> DEFINE K == {k \in 1..n : g[k] <= i}
             k == Max(K)
  <2>1. 1 \in K BY <1>1
  <2>2. K \in SUBSET Nat /\ \A j \in K : j <= n BY <1>1
  <2>3. Max(K) \in K /\ \A j \in K : j <= Max(K)
    <3> HIDE DEF K
    <3> QED BY <1>1, <2>1, <2>2, MaxNat
  <2>4. k \in 1..n /\ g[k] <= i /\ k \in 1..(n + 1) BY <1>1, <2>3
  <2>5. k + 1 \notin K
    <3> HIDE DEF K
    <3> QED BY <2>3, <2>4
  <2> HIDE DEF k
  <2>6. g[k] \in 1..n BY <1>1, <1>4, <2>4
  <2>7. k + 1 \in 2..(n + 1) /\ k + 1 \in 1..(n + 1) /\ (k + 1) - 1 = k BY <1>1, <2>4
  <2>8. g[k + 1] > i
    <3>1. CASE k + 1 \in 1..n BY <1>1, <1>4, <2>5, <2>7, <3>1
    <3>2. CASE k + 1 \notin 1..n
      <4>1. k + 1 = n + 1 BY <1>1, <2>7, <3>2
      <4> QED BY <1>1, <1>4, <2>7, <4>1
    <3> QED BY <3>1, <3>2
  <2> DEFINE e == RunEnd(s, le, n, g[k])
  <2>9. g[k + 1] = e + 1 BY <1>1, <2>6, <2>7
  <2>10. e \in g[k]..n BY <1>2, <2>6
  <2> HIDE DEF e
  <2>11. i \in g[k]..e BY <1>1, <2>4, <2>6, <2>8, <2>9, <2>10
  <2> QED BY <2>4, <2>6, <2>11 DEF e
<1>6. ASSUME NEW k \in 1..n, g[k] \in 1..n PROVE RunStart(s, le, g[k])
  <2>1. k \in 1..(n + 1) /\ g[k] <= n BY <1>1, <1>6
  <2> QED BY <1>4, <2>1
<1> QED BY <1>5, <1>6
=============================================================================
