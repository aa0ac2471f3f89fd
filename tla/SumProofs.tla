----------------------------- MODULE SumProofs -----------------------------
(***************************************************************************)
(* Proofs about sums over finite sets (SumFunctionOnSet of the community   *)
(* module Functions): a sum can be taken element by element, in any order. *)
(*                                                                         *)
(* The sum is defined by recursion over subsets, so these are proofs by    *)
(* induction. The library's induction theorems take an operator that the   *)
(* provers cannot instantiate; the two inductions here are over a set Q of *)
(* the numbers or the subsets that have a property, and follow from the    *)
(* fact that a well-founded order has minimal elements.                    *)
(***************************************************************************)
EXTENDS Functions, FiniteSetTheorems, WellFoundedInduction, TLAPS

-----------------------------------------------------------------------------
(* Induction *)

LEMMA NumberInduction ==
  ASSUME NEW Q, 0 \in Q, \A n \in Nat : n \in Q => n + 1 \in Q
  PROVE  \A n \in Nat : n \in Q
<1> DEFINE R   == OpToRel(<, Nat)
           Bad == {n \in Nat : n \notin Q}
<1>1. \A a, b \in Nat : a < b => <<a, b>> \in R
  BY DEF OpToRel
<1>2. IsWellFoundedOn(R, Nat)
  BY NatLessThanWellFounded
<1> HIDE DEF R
<1>3. ASSUME Bad # {}
      PROVE  FALSE
  <2>1. PICK m \in Bad : \A n \in Bad : ~ (<<n, m>> \in R)
    BY <1>2, <1>3, WFMin
  <2>2. m - 1 \in Nat /\ m - 1 < m /\ (m - 1) + 1 = m
    BY <2>1
  <2>3. m - 1 \notin Bad
    BY <1>1, <2>1, <2>2
  <2> QED BY <2>1, <2>2, <2>3
<1> QED BY <1>3

LEMMA SubsetInduction ==
  ASSUME NEW S, IsFiniteSet(S), NEW Q,
         \A s \in SUBSET S : (\A x \in s : s \ {x} \in Q) => s \in Q
  PROVE  \A s \in SUBSET S : s \in Q
<1> DEFINE R   == StrictSubsetOrdering(S)
           Bad == {s \in SUBSET S : s \notin Q}
<1>1. ASSUME NEW s \in SUBSET S, NEW x \in s
      PROVE  <<s \ {x}, s>> \in R
  BY DEF StrictSubsetOrdering
<1>2. IsWellFoundedOn(R, SUBSET S)
  BY FS_StrictSubsetOrderingWellFounded, FS_FiniteSubsetsOfFinite
<1> HIDE DEF R
<1>3. ASSUME Bad # {}
      PROVE  FALSE
  <2>1. PICK m \in Bad : \A n \in Bad : ~ (<<n, m>> \in R)
    BY <1>2, <1>3, WFMin
  <2>2. ASSUME NEW x \in m
        PROVE  m \ {x} \in Q
    <3>1. <<m \ {x}, m>> \in R /\ m \ {x} \in SUBSET S
      BY <1>1
    <3> QED BY <2>1, <3>1
  <2> QED BY <2>1, <2>2
<1> QED BY <1>3

(* A finite set of integers has a largest. *)
LEMMA HasLast ==
  ASSUME NEW S, IsFiniteSet(S), S \subseteq Int, S # {}
  PROVE  \E m \in S : \A j \in S : j <= m
<1> DEFINE Q == {s \in SUBSET S : s # {} => \E m \in s : \A j \in s : j <= m}
<1>1. ASSUME NEW s \in SUBSET S, \A x \in s : s \ {x} \in Q
      PROVE  s \in Q
  <2>1. ASSUME s # {} PROVE \E m \in s : \A j \in s : j <= m
    <3>1. PICK x \in s : TRUE
      BY <2>1
    <3>2. CASE s \ {x} = {}
      BY <3>1, <3>2
    <3>3. CASE s \ {x} # {}
      <4>1. PICK m \in s \ {x} : \A j \in s \ {x} : j <= m
        BY <1>1, <3>1, <3>3
      <4>2. CASE x <= m
        BY <4>1, <4>2
      <4>3. CASE ~(x <= m)
        <5>1. \A j \in s : j <= x
          BY <3>1, <4>1, <4>3
        <5> QED BY <3>1, <5>1
      <4> QED BY <4>2, <4>3
    <3> QED BY <3>2, <3>3
  <2> QED BY <2>1
<1>2. \A s \in SUBSET S : s \in Q
  <2> HIDE DEF Q
  <2> QED BY <1>1, SubsetInduction
<1> QED BY <1>2

-----------------------------------------------------------------------------
(* The recursion behind a sum *)

Pick(s) == CHOOSE x \in s : TRUE

(* g adds up f over every set of D. *)
Adds(g, f, D) ==
  g = [s \in D |-> IF s = {} THEN 0 ELSE f[Pick(s)] + g[s \ {Pick(s)}]]

LEMMA SumIsChosen ==
  ASSUME NEW f, NEW S
  PROVE  SumFunctionOnSet(f, S) = (CHOOSE g : Adds(g, f, SUBSET S))[S]
BY DEF SumFunctionOnSet, FoldFunctionOnSet, MapThenFoldSet, Adds, Pick

LEMMA Picked == \A s : s # {} => Pick(s) \in s
BY DEF Pick

(* There is such a g, first for the small subsets, then for all. *)
LEMMA SomeFunctionAdds ==
  ASSUME NEW f, NEW S, IsFiniteSet(S)
  PROVE  \E g : Adds(g, f, SUBSET S)
<1> DEFINE Small(n) == {s \in SUBSET S : Cardinality(s) <= n}
           Q        == {n \in Nat : \E g : Adds(g, f, Small(n))}
<1>1. \A s \in SUBSET S : IsFiniteSet(s) /\ Cardinality(s) \in Nat
  BY FS_Subset, FS_CardinalityType
<1>2. 0 \in Q
  <2> DEFINE g == [s \in Small(0) |-> 0]
  <2>1. \A s \in Small(0) : s = {}
    BY <1>1, FS_EmptySet
  <2>2. Adds(g, f, Small(0))
    BY <2>1 DEF Adds
  <2> QED BY <2>2
<1>3. ASSUME NEW n \in Nat, n \in Q
      PROVE  n + 1 \in Q
  <2>1. PICK g : Adds(g, f, Small(n))
    BY <1>3
  <2> DEFINE D == Small(n + 1)
             h == [s \in D |-> IF s = {} THEN 0 ELSE f[Pick(s)] + g[s \ {Pick(s)}]]
  <2>2. Small(n) \subseteq D
    BY <1>1
  <2>3. ASSUME NEW s \in D, s # {}
        PROVE  s \ {Pick(s)} \in Small(n)
    <3>1. Pick(s) \in s /\ s \ {Pick(s)} \in SUBSET S
      BY <2>3, Picked
    <3>2. Cardinality(s \ {Pick(s)}) = Cardinality(s) - 1
      BY <1>1, <3>1, FS_RemoveElement
    <3> QED BY <1>1, <3>1, <3>2
  <2> HIDE DEF Small
  <2>4. ASSUME NEW s \in Small(n)
        PROVE  h[s] = g[s]
    <3>1. g[s] = IF s = {} THEN 0 ELSE f[Pick(s)] + g[s \ {Pick(s)}]
      BY <2>1 DEF Adds
    <3> QED BY <2>2, <3>1
  <2>5. Adds(h, f, D)
    <3>1. \A s \in D : s # {} => g[s \ {Pick(s)}] = h[s \ {Pick(s)}]
      BY <2>3, <2>4
    <3>2. h = [s \in D |-> IF s = {} THEN 0 ELSE f[Pick(s)] + h[s \ {Pick(s)}]]
      <4> DEFINE k == [s \in D |-> IF s = {} THEN 0 ELSE f[Pick(s)] + h[s \ {Pick(s)}]]
      <4>1. \A s \in D : h[s] = k[s]
        BY <3>1
      <4>2. h = [s \in D |-> h[s]] /\ k = [s \in D |-> k[s]]
        OBVIOUS
      <4> HIDE DEF h, k
      <4>3. h = k
        BY <4>1, <4>2
      <4> QED BY <4>3 DEF k
    <3> HIDE DEF h
    <3> QED BY <3>2 DEF Adds
  <2> QED BY <2>5
<1>4. \A n \in Nat : n \in Q
  BY <1>2, <1>3, NumberInduction
<1>5. Small(Cardinality(S)) = SUBSET S
  BY <1>1, FS_Subset
<1>6. Cardinality(S) \in Q
  BY <1>1, <1>4
<1> QED BY <1>5, <1>6

(* Functions that add up f agree where both are defined. *)
LEMMA AddsAgree ==
  ASSUME NEW f, NEW S, IsFiniteSet(S), NEW T, T \subseteq S,
         NEW g, NEW h, Adds(g, f, SUBSET S), Adds(h, f, SUBSET T)
  PROVE  \A s \in SUBSET T : g[s] = h[s]
<1> DEFINE Q == {s \in SUBSET T : g[s] = h[s]}
<1>1. IsFiniteSet(T)
  BY FS_Subset
<1>2. ASSUME NEW s \in SUBSET T, \A x \in s : s \ {x} \in Q
      PROVE  s \in Q
  <2>1. /\ g[s] = IF s = {} THEN 0 ELSE f[Pick(s)] + g[s \ {Pick(s)}]
        /\ h[s] = IF s = {} THEN 0 ELSE f[Pick(s)] + h[s \ {Pick(s)}]
    <3>1. s \in SUBSET S
      OBVIOUS
    <3> QED BY <3>1 DEF Adds
  <2>2. CASE s = {}
    BY <2>1, <2>2
  <2>3. CASE s # {}
    <3>1. s \ {Pick(s)} \in Q
      BY <1>2, <2>3, Picked
    <3> QED BY <2>1, <2>3, <3>1
  <2> QED BY <2>2, <2>3
<1>3. \A s \in SUBSET T : s \in Q
  <2> HIDE DEF Q
  <2> QED BY <1>1, <1>2, SubsetInduction
<1> QED BY <1>3

(* So the sum follows its recursion. *)
LEMMA SumUnfolds ==
  ASSUME NEW f, NEW S, IsFiniteSet(S)
  PROVE  SumFunctionOnSet(f, S) =
           IF S = {} THEN 0 ELSE f[Pick(S)] + SumFunctionOnSet(f, S \ {Pick(S)})
<1>1. PICK T : T = S \ {Pick(S)}
  OBVIOUS
<1>2. IsFiniteSet(T)
  BY <1>1, FS_RemoveElement
<1>3. PICK g : Adds(g, f, SUBSET S) /\ SumFunctionOnSet(f, S) = g[S]
  BY SomeFunctionAdds, SumIsChosen
<1>4. PICK h : Adds(h, f, SUBSET T) /\ SumFunctionOnSet(f, T) = h[T]
  BY <1>2, SomeFunctionAdds, SumIsChosen
<1>5. g[T] = h[T]
  <2>1. T \subseteq S
    BY <1>1
  <2>2. Adds(g, f, SUBSET S) /\ Adds(h, f, SUBSET T)
    BY <1>3, <1>4
  <2>3. \A s \in SUBSET T : g[s] = h[s]
    BY <2>1, <2>2, AddsAgree
  <2> QED BY <2>3
<1>6. g[S] = IF S = {} THEN 0 ELSE f[Pick(S)] + g[T]
  BY <1>1, <1>3 DEF Adds
<1> QED BY <1>1, <1>3, <1>4, <1>5, <1>6

-----------------------------------------------------------------------------
(* Sums *)

THEOREM SumOfNothing == ASSUME NEW f PROVE SumFunctionOnSet(f, {}) = 0
BY SumUnfolds, FS_EmptySet

(* A sum of integers is one. *)
THEOREM SumIsInteger ==
  ASSUME NEW S, IsFiniteSet(S), NEW f, \A x \in S : f[x] \in Int
  PROVE  SumFunctionOnSet(f, S) \in Int
<1> DEFINE Q == {s \in SUBSET S : SumFunctionOnSet(f, s) \in Int}
<1>1. ASSUME NEW s \in SUBSET S, \A x \in s : s \ {x} \in Q
      PROVE  s \in Q
  <2>1. IsFiniteSet(s)
    BY FS_Subset
  <2>2. SumFunctionOnSet(f, s) =
          IF s = {} THEN 0 ELSE f[Pick(s)] + SumFunctionOnSet(f, s \ {Pick(s)})
    BY <2>1, SumUnfolds
  <2>3. s # {} => /\ f[Pick(s)] \in Int
                  /\ SumFunctionOnSet(f, s \ {Pick(s)}) \in Int
    BY <1>1, Picked
  <2> QED BY <2>2, <2>3
<1>2. \A s \in SUBSET S : s \in Q
  <2> HIDE DEF Q
  <2> QED BY <1>1, SubsetInduction
<1> QED BY <1>2

(* Any element can be taken out of it. *)
THEOREM SumTakesOut ==
  ASSUME NEW S, IsFiniteSet(S), NEW f, \A x \in S : f[x] \in Int, NEW y \in S
  PROVE  SumFunctionOnSet(f, S) = f[y] + SumFunctionOnSet(f, S \ {y})
<1> DEFINE Sum(s) == SumFunctionOnSet(f, s)
           Q == {s \in SUBSET S : \A z \in s : Sum(s) = f[z] + Sum(s \ {z})}
<1>1. \A s \in SUBSET S : IsFiniteSet(s)
  BY FS_Subset
<1>2. ASSUME NEW s \in SUBSET S, s # {}
      PROVE  Pick(s) \in s /\ Sum(s) = f[Pick(s)] + Sum(s \ {Pick(s)})
  <2>1. SumFunctionOnSet(f, s) =
          IF s = {} THEN 0 ELSE f[Pick(s)] + SumFunctionOnSet(f, s \ {Pick(s)})
    BY <1>1, SumUnfolds
  <2> QED BY <1>2, <2>1, Picked
<1>3. ASSUME NEW s \in SUBSET S
      PROVE  Sum(s) \in Int
  <2>1. \A x \in s : f[x] \in Int
    OBVIOUS
  <2> QED BY <1>1, <2>1, SumIsInteger
<1> HIDE DEF Sum
<1>4. ASSUME NEW s \in SUBSET S, \A x \in s : s \ {x} \in Q
      PROVE  s \in Q
  <2>1. ASSUME NEW z \in s
        PROVE  Sum(s) = f[z] + Sum(s \ {z})
    <3> DEFINE x == Pick(s)
               t == (s \ {x}) \ {z}
    <3>1. x \in s /\ Sum(s) = f[x] + Sum(s \ {x})
      BY <1>2
    <3> HIDE DEF x
    <3>2. CASE z = x
      BY <3>1, <3>2
    <3>3. CASE z # x
      <4>1. Sum(s \ {x}) = f[z] + Sum(t)
        BY <1>4, <3>1, <3>3
      <4>2. t = (s \ {z}) \ {x}
        OBVIOUS
      <4>3. Sum(s \ {z}) = f[x] + Sum((s \ {z}) \ {x})
        BY <1>4, <3>1, <3>3
      <4>4. f[x] \in Int /\ f[z] \in Int /\ Sum(t) \in Int
        BY <1>3, <3>1
      <4> HIDE DEF t
      <4> QED BY <3>1, <4>1, <4>2, <4>3, <4>4
    <3> QED BY <3>2, <3>3
  <2> QED BY <2>1
<1>5. \A s \in SUBSET S : s \in Q
  <2> HIDE DEF Q
  <2> QED BY <1>4, SubsetInduction
<1>6. S \in Q
  BY <1>5
<1> QED BY <1>6 DEF Sum

(* The sum depends on the values at the elements and nothing else. *)
THEOREM SumAgrees ==
  ASSUME NEW S, IsFiniteSet(S), NEW f, NEW g, \A x \in S : f[x] = g[x]
  PROVE  SumFunctionOnSet(f, S) = SumFunctionOnSet(g, S)
<1> DEFINE Q == {s \in SUBSET S : SumFunctionOnSet(f, s) = SumFunctionOnSet(g, s)}
<1>1. ASSUME NEW s \in SUBSET S, \A x \in s : s \ {x} \in Q
      PROVE  s \in Q
  <2>1. IsFiniteSet(s)
    BY FS_Subset
  <2>2. SumFunctionOnSet(f, s) =
          IF s = {} THEN 0 ELSE f[Pick(s)] + SumFunctionOnSet(f, s \ {Pick(s)})
    BY <2>1, SumUnfolds
  <2>3. SumFunctionOnSet(g, s) =
          IF s = {} THEN 0 ELSE g[Pick(s)] + SumFunctionOnSet(g, s \ {Pick(s)})
    BY <2>1, SumUnfolds
  <2>4. s # {} => s \ {Pick(s)} \in Q /\ f[Pick(s)] = g[Pick(s)]
    BY <1>1, Picked
  <2> QED BY <2>2, <2>3, <2>4
<1>2. \A s \in SUBSET S : s \in Q
  <2> HIDE DEF Q
  <2> QED BY <1>1, SubsetInduction
<1> QED BY <1>2

(* One more element adds its value. *)
THEOREM SumPutsIn ==
  ASSUME NEW S, IsFiniteSet(S), NEW y, y \notin S,
         NEW f, \A x \in S \cup {y} : f[x] \in Int
  PROVE  SumFunctionOnSet(f, S \cup {y}) = f[y] + SumFunctionOnSet(f, S)
<1>1. IsFiniteSet(S \cup {y}) /\ y \in S \cup {y} /\ (S \cup {y}) \ {y} = S
  BY FS_AddElement
<1>2. SumFunctionOnSet(f, S \cup {y}) = f[y] + SumFunctionOnSet(f, (S \cup {y}) \ {y})
  BY <1>1, SumTakesOut
<1> QED BY <1>1, <1>2

-----------------------------------------------------------------------------
(* Comparing sums *)

LEMMA Distributes == \A u, x, y \in Int : u * (x + y) = u * x + u * y
OBVIOUS

(* Up to c, u times f is at most v times g, value for value. *)
Scaled(S, f, g, u, v, c) ==
    \A x \in S : f[x] \in Int /\ g[x] \in Int /\ u * f[x] <= v * g[x] + c

(* A bound on every value, each scaled, bounds the scaled sum. *)
THEOREM SumScales ==
  ASSUME NEW S, IsFiniteSet(S), NEW f, NEW g, NEW u \in Int, NEW v \in Int, NEW c \in Int,
         Scaled(S, f, g, u, v, c)
  PROVE  u * SumFunctionOnSet(f, S) <= v * SumFunctionOnSet(g, S) + c * Cardinality(S)
<1> DEFINE F(s) == SumFunctionOnSet(f, s)
           G(s) == SumFunctionOnSet(g, s)
           Q == {s \in SUBSET S : u * F(s) <= v * G(s) + c * Cardinality(s)}
<1> \A x \in S : f[x] \in Int /\ g[x] \in Int /\ u * f[x] <= v * g[x] + c
  BY DEF Scaled
<1>1. ASSUME NEW s \in SUBSET S
      PROVE  IsFiniteSet(s) /\ F(s) \in Int /\ G(s) \in Int /\ Cardinality(s) \in Nat
  <2>1. IsFiniteSet(s)
    BY FS_Subset
  <2>2. \A x \in s : f[x] \in Int /\ g[x] \in Int
    OBVIOUS
  <2> QED BY <2>1, <2>2, SumIsInteger, FS_CardinalityType
<1>2. ASSUME NEW s \in SUBSET S, \A x \in s : s \ {x} \in Q
      PROVE  s \in Q
  <2>1. CASE s = {}
    <3>1. F({}) = 0 /\ G({}) = 0 /\ Cardinality({}) = 0
      BY SumOfNothing, FS_EmptySet
    <3>2. u * 0 = 0 /\ v * 0 = 0 /\ c * 0 = 0
      OBVIOUS
    <3> HIDE DEF F, G
    <3> QED BY <2>1, <3>1, <3>2
  <2>2. CASE s # {}
    <3>1. PICK y \in s : TRUE
      BY <2>2
    <3> DEFINE t == s \ {y}
    <3>2. F(s) = f[y] + F(t) /\ G(s) = g[y] + G(t) /\ Cardinality(t) = Cardinality(s) - 1
      <4>1. \A x \in s : f[x] \in Int /\ g[x] \in Int
        OBVIOUS
      <4> QED BY <1>1, <4>1, SumTakesOut, FS_RemoveElement
    <3>3. t \in Q
      BY <1>2
    <3> HIDE DEF F, G, t
    <3>4. u * F(t) <= v * G(t) + c * Cardinality(t)
      BY <3>3
    <3>5. F(t) \in Int /\ G(t) \in Int /\ Cardinality(t) \in Int /\ f[y] \in Int /\ g[y] \in Int
      BY <1>1, <3>3
    <3>6. Cardinality(s) = 1 + Cardinality(t)
      BY <1>1, <3>2, <3>5
    <3>7. /\ u * F(s) = u * f[y] + u * F(t)
          /\ v * G(s) = v * g[y] + v * G(t)
          /\ c * Cardinality(s) = c + c * Cardinality(t)
      <4> DEFINE a == f[y]
                 b == g[y]
                 n == Cardinality(t)
      <4>1. a \in Int /\ b \in Int /\ n \in Int
        BY <3>5
      <4>2. F(s) = a + F(t) /\ G(s) = b + G(t) /\ Cardinality(s) = 1 + n
        BY <3>2, <3>6
      <4> HIDE DEF a, b, n
      <4>3. u * (a + F(t)) = u * a + u * F(t)
        BY <3>5, <4>1, Distributes
      <4>4. v * (b + G(t)) = v * b + v * G(t)
        BY <3>5, <4>1, Distributes
      <4>5. c * (1 + n) = c * 1 + c * n /\ c * 1 = c
        BY <4>1, Distributes
      <4>6. /\ u * F(s) = u * a + u * F(t)
            /\ v * G(s) = v * b + v * G(t)
            /\ c * Cardinality(s) = c + c * n
        BY <4>2, <4>3, <4>4, <4>5
      <4> QED BY <4>6 DEF a, b, n
    <3>8. u * f[y] <= v * g[y] + c
      OBVIOUS
    <3>9. /\ u * f[y] \in Int /\ u * F(t) \in Int /\ v * g[y] \in Int /\ v * G(t) \in Int
          /\ c * Cardinality(t) \in Int
      BY <3>5
    <3>10. u * F(s) <= v * G(s) + c * Cardinality(s)
      BY <3>4, <3>7, <3>8, <3>9
    <3> QED BY <3>10
  <2> QED BY <2>1, <2>2
<1>3. \A s \in SUBSET S : s \in Q
  <2> HIDE DEF Q
  <2> QED BY <1>2, SubsetInduction
<1>4. S \in Q
  BY <1>3
<1> QED BY <1>4 DEF F, G

(* Two functions that differ at one element only. *)
THEOREM SumDiffers ==
  ASSUME NEW S, IsFiniteSet(S), NEW f, NEW g, NEW y \in S,
         \A x \in S : f[x] \in Int /\ g[x] \in Int,
         \A x \in S \ {y} : f[x] = g[x]
  PROVE  SumFunctionOnSet(g, S) = SumFunctionOnSet(f, S) + (g[y] - f[y])
<1>1. IsFiniteSet(S \ {y})
  BY FS_RemoveElement
<1>2. SumFunctionOnSet(f, S \ {y}) = SumFunctionOnSet(g, S \ {y})
  BY <1>1, SumAgrees
<1>3. /\ SumFunctionOnSet(f, S) = f[y] + SumFunctionOnSet(f, S \ {y})
      /\ SumFunctionOnSet(g, S) = g[y] + SumFunctionOnSet(g, S \ {y})
  BY SumTakesOut
<1>4. SumFunctionOnSet(f, S \ {y}) \in Int /\ f[y] \in Int /\ g[y] \in Int
  BY <1>1, SumIsInteger
<1> QED BY <1>2, <1>3, <1>4

(* A sum of zeros is zero. *)
THEOREM SumOfZeros ==
  ASSUME NEW S, IsFiniteSet(S), NEW f, \A x \in S : f[x] = 0
  PROVE  SumFunctionOnSet(f, S) = 0
<1> DEFINE Q == {s \in SUBSET S : SumFunctionOnSet(f, s) = 0}
<1>1. ASSUME NEW s \in SUBSET S, \A x \in s : s \ {x} \in Q
      PROVE  s \in Q
  <2>1. IsFiniteSet(s)
    BY FS_Subset
  <2>2. SumFunctionOnSet(f, s) =
          IF s = {} THEN 0 ELSE f[Pick(s)] + SumFunctionOnSet(f, s \ {Pick(s)})
    BY <2>1, SumUnfolds
  <2> QED BY <1>1, <2>2, Picked
<1>2. \A s \in SUBSET S : s \in Q
  <2> HIDE DEF Q
  <2> QED BY <1>1, SubsetInduction
<1> QED BY <1>2

(* A sum may be taken group by group. *)
THEOREM SumByKey ==
  ASSUME NEW S, IsFiniteSet(S), NEW K, IsFiniteSet(K), NEW f, NEW key,
         \A x \in S : f[x] \in Int /\ key[x] \in K
  PROVE  SumFunctionOnSet([k \in K |-> SumFunctionOnSet(f, {x \in S : key[x] = k})], K)
           = SumFunctionOnSet(f, S)
<1> DEFINE Group(s, k) == {x \in s : key[x] = k}
           Sums(s)     == [k \in K |-> SumFunctionOnSet(f, Group(s, k))]
           Q == {s \in SUBSET S : SumFunctionOnSet(Sums(s), K) = SumFunctionOnSet(f, s)}
<1>1. ASSUME NEW s \in SUBSET S, NEW k \in K
      PROVE  IsFiniteSet(Group(s, k)) /\ Sums(s)[k] \in Int
  <2>1. IsFiniteSet(Group(s, k)) /\ \A x \in Group(s, k) : f[x] \in Int
    BY FS_Subset
  <2> QED BY <2>1, SumIsInteger
<1>2. ASSUME NEW s \in SUBSET S, \A x \in s : s \ {x} \in Q
      PROVE  s \in Q
  <2>1. CASE s = {}
    <3>1. ASSUME NEW k \in K
          PROVE  Sums(s)[k] = 0
      <4>1. Group(s, k) = {}
        BY <2>1
      <4> QED BY <4>1, SumOfNothing
    <3> HIDE DEF Sums
    <3>2. SumFunctionOnSet(Sums(s), K) = 0
      BY <3>1, SumOfZeros
    <3> QED BY <2>1, <3>2, SumOfNothing
  <2>2. CASE s # {}
    <3>1. PICK y \in s : TRUE
      BY <2>2
    <3> DEFINE t == s \ {y}
               n == key[y]
    <3>2. t \in Q /\ n \in K /\ t \in SUBSET S
      BY <1>2
    <3>3. ASSUME NEW k \in K \ {n}
          PROVE  Sums(t)[k] = Sums(s)[k]
      <4>1. Group(t, k) = Group(s, k)
        OBVIOUS
      <4> QED BY <4>1
    <3>4. Sums(s)[n] = f[y] + Sums(t)[n]
      <4>1. /\ y \in Group(s, n) /\ Group(t, n) = Group(s, n) \ {y}
            /\ \A x \in Group(s, n) : f[x] \in Int
        OBVIOUS
      <4>2. IsFiniteSet(Group(s, n))
        BY <1>1, <3>2
      <4> HIDE DEF Group
      <4>3. SumFunctionOnSet(f, Group(s, n)) = f[y] + SumFunctionOnSet(f, Group(s, n) \ {y})
        BY <4>1, <4>2, SumTakesOut
      <4> QED BY <3>2, <4>1, <4>3
    <3>5. SumFunctionOnSet(f, s) = f[y] + SumFunctionOnSet(f, t)
      <4>1. IsFiniteSet(s) /\ \A x \in s : f[x] \in Int
        BY FS_Subset
      <4> QED BY <4>1, SumTakesOut
    <3>6. SumFunctionOnSet(f, t) \in Int /\ f[y] \in Int
      <4>1. IsFiniteSet(t) /\ \A x \in t : f[x] \in Int
        BY FS_Subset
      <4> QED BY <4>1, SumIsInteger
    <3>7. \A k \in K : Sums(s)[k] \in Int /\ Sums(t)[k] \in Int
      BY <1>1, <3>2
    <3> HIDE DEF Sums, t, n
    <3>8. SumFunctionOnSet(Sums(s), K)
            = SumFunctionOnSet(Sums(t), K) + (Sums(s)[n] - Sums(t)[n])
      BY <3>2, <3>3, <3>7, SumDiffers
    <3>9. SumFunctionOnSet(Sums(t), K) = SumFunctionOnSet(f, t)
      BY <3>2
    <3>10. SumFunctionOnSet(Sums(s), K) = SumFunctionOnSet(f, s)
      BY <3>2, <3>4, <3>5, <3>6, <3>7, <3>8, <3>9
    <3> QED BY <3>10
  <2> QED BY <2>1, <2>2
<1>3. \A s \in SUBSET S : s \in Q
  <2> HIDE DEF Q
  <2> QED BY <1>2, SubsetInduction
<1>4. S \in Q
  BY <1>3
<1> QED BY <1>4 DEF Sums, Group

(* A sum of naturals is one. *)
THEOREM SumIsNatural ==
  ASSUME NEW S, IsFiniteSet(S), NEW f, \A x \in S : f[x] \in Nat
  PROVE  SumFunctionOnSet(f, S) \in Nat
<1>1. SumFunctionOnSet(f, S) \in Int /\ Cardinality(S) \in Int
  BY SumIsInteger, FS_CardinalityType
<1>2. PICK u \in Int, v \in Int : u = -1 /\ v = 0
  OBVIOUS
<1>3. \A x \in S : f[x] \in Int /\ u * f[x] <= v * f[x] + v
  BY <1>2
<1>4. u * SumFunctionOnSet(f, S) <= v * SumFunctionOnSet(f, S) + v * Cardinality(S)
  BY <1>3, SumScales DEF Scaled
<1> QED BY <1>1, <1>2, <1>4

(* A larger function has a larger sum. *)
THEOREM SumGrows ==
  ASSUME NEW S, IsFiniteSet(S), NEW f, NEW g,
         \A x \in S : f[x] \in Int /\ g[x] \in Int /\ f[x] <= g[x]
  PROVE  SumFunctionOnSet(f, S) <= SumFunctionOnSet(g, S)
<1>1. /\ SumFunctionOnSet(f, S) \in Int /\ SumFunctionOnSet(g, S) \in Int
      /\ Cardinality(S) \in Int
  BY SumIsInteger, FS_CardinalityType
<1>2. PICK u \in Int, v \in Int : u = 1 /\ v = 0
  OBVIOUS
<1>3. \A x \in S : f[x] \in Int /\ g[x] \in Int /\ u * f[x] <= u * g[x] + v
  BY <1>2
<1>4. u * SumFunctionOnSet(f, S) <= u * SumFunctionOnSet(g, S) + v * Cardinality(S)
  BY <1>3, SumScales DEF Scaled
<1> QED BY <1>1, <1>2, <1>4

(* What is added up by values that each stand for one of another sum, and  *)
(* no two for the same, is no more than that sum.                          *)
THEOREM SumInjects ==
  ASSUME NEW S, IsFiniteSet(S), NEW T, IsFiniteSet(T), NEW f, NEW g, NEW key,
         \A x \in S : key[x] \in T /\ f[x] = g[key[x]],
         \A x, y \in S : key[x] = key[y] => x = y,
         \A t \in T : g[t] \in Nat
  PROVE  SumFunctionOnSet(f, S) <= SumFunctionOnSet(g, T)
<1> DEFINE Group(t) == {x \in S : key[x] = t}
           h == [t \in T |-> SumFunctionOnSet(f, Group(t))]
<1>1. \A x \in S : f[x] \in Int /\ key[x] \in T
  OBVIOUS
<1>2. SumFunctionOnSet(h, T) = SumFunctionOnSet(f, S)
  BY <1>1, SumByKey
<1>3. ASSUME NEW t \in T
      PROVE  h[t] \in Int /\ h[t] <= g[t]
  <2>1. CASE Group(t) = {}
    <3>1. h[t] = 0
      BY <2>1, SumOfNothing
    <3> QED BY <3>1
  <2>2. CASE Group(t) # {}
    <3>1. PICK x \in S : key[x] = t
      BY <2>2
    <3>2. Group(t) = {x} /\ f[x] = g[t] /\ f[x] \in Int
      BY <3>1
    <3>3. IsFiniteSet({x}) /\ {x} \ {x} = {}
      BY FS_Singleton
    <3>4. \A z \in {x} : f[z] \in Int
      BY <3>2
    <3>5. SumFunctionOnSet(f, {x}) = f[x] + SumFunctionOnSet(f, {})
      BY <3>3, <3>4, SumTakesOut
    <3>6. h[t] = SumFunctionOnSet(f, {x})
      BY <3>2
    <3> HIDE DEF h
    <3>7. h[t] = f[x] + 0
      BY <3>5, <3>6, SumOfNothing
    <3> QED BY <3>2, <3>7
  <2> QED BY <2>1, <2>2
<1> HIDE DEF h
<1>4. SumFunctionOnSet(h, T) <= SumFunctionOnSet(g, T)
  BY <1>3, SumGrows
<1> QED BY <1>2, <1>4

(* The same for a function that names the groups and one of their sums. *)
Grouped(f, S, sums, K, key, group) ==
  /\ IsFiniteSet(S) /\ IsFiniteSet(K)
  /\ \A x \in S : f[x] \in Int /\ key[x] \in K
  /\ \A k \in K : /\ group[k] \subseteq S
                  /\ \A x \in S : x \in group[k] <=> key[x] = k
                  /\ sums[k] = SumFunctionOnSet(f, group[k])

THEOREM SumByGroup ==
  ASSUME NEW f, NEW S, NEW sums, NEW K, NEW key, NEW group, Grouped(f, S, sums, K, key, group)
  PROVE  SumFunctionOnSet(sums, K) = SumFunctionOnSet(f, S)
<1>1. /\ IsFiniteSet(S) /\ IsFiniteSet(K)
      /\ \A x \in S : f[x] \in Int /\ key[x] \in K
  BY DEF Grouped
<1>2. \A k \in K : /\ group[k] \subseteq S
                   /\ \A x \in S : x \in group[k] <=> key[x] = k
                   /\ sums[k] = SumFunctionOnSet(f, group[k])
  BY DEF Grouped
<1> DEFINE h == [k \in K |-> SumFunctionOnSet(f, {x \in S : key[x] = k})]
<1>3. SumFunctionOnSet(h, K) = SumFunctionOnSet(f, S)
  BY <1>1, SumByKey
<1>4. ASSUME NEW k \in K
      PROVE  h[k] = sums[k]
  <2>1. group[k] = {x \in S : key[x] = k}
    BY <1>2, Zenon
  <2>2. h[k] = SumFunctionOnSet(f, {x \in S : key[x] = k})
    OBVIOUS
  <2> HIDE DEF h
  <2> QED BY <1>2, <2>1, <2>2
<1> HIDE DEF h
<1>5. SumFunctionOnSet(h, K) = SumFunctionOnSet(sums, K)
  BY <1>1, <1>4, SumAgrees
<1> QED BY <1>3, <1>5
=============================================================================
