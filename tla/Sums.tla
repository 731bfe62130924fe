-------------------------------- MODULE Sums --------------------------------
(***************************************************************************)
(* What FoldFunction(+, 0, f) computes, for every finite domain: the       *)
(* subtotal of an invoice and the counts of the attendance reports are     *)
(* such sums.                                                              *)
(*                                                                         *)
(* The library defines the fold by recursion over the subsets of the       *)
(* domain.  Each lemma about it is an induction, written as the search for *)
(* a smallest counterexample (WFMin), which needs no operator as a         *)
(* parameter.                                                              *)
(***************************************************************************)
EXTENDS Integers, FiniteSets, Functions, FiniteSetTheorems, WellFoundedInduction, TLAPS

\* The sum of the values of f.
Total(f) == FoldFunction(+, 0, f)

\* The element the fold takes from s first.
Pick(s) == CHOOSE x \in s : TRUE

\* One unfolding of the sum of f over the set s, with g for the smaller sets.
Unfold(f, g, s) == IF s = {} THEN 0 ELSE f[Pick(s)] + g[s \ {Pick(s)}]

\* g is the table of the sums of f over the subsets of D.
IsSum(g, f, D) == g = [s \in SUBSET D |-> Unfold(f, g, s)]

\* The fold is read off the table that its recursion chooses.
LEMMA FoldIsChosen ==
    ASSUME NEW f
    PROVE  Total(f) = (CHOOSE g : IsSum(g, f, DOMAIN f))[DOMAIN f]
BY DEF Total, FoldFunction, FoldFunctionOnSet, MapThenFoldSet, IsSum, Unfold, Pick

\* A set of naturals that is not empty has a least element.
LEMMA Least ==
    ASSUME NEW T \in SUBSET Nat, T # {}
    PROVE  \E n \in T : \A m \in T : n <= m
<1>1. PICK n \in T : \A m \in T : ~(<<m, n>> \in OpToRel(<, Nat))
  BY NatLessThanWellFounded, WFMin
<1>2. \A m \in T : ~(m < n)
  BY <1>1 DEF OpToRel
<1> QED BY <1>2

\* Among subsets of a finite set there is one with the fewest elements.
LEMMA Smallest ==
    ASSUME NEW D, IsFiniteSet(D), NEW T \in SUBSET SUBSET D, T # {}
    PROVE  \E s \in T : \A t \in T : Cardinality(s) <= Cardinality(t)
<1> DEFINE C == {Cardinality(t) : t \in T}
<1>1. \A t \in T : Cardinality(t) \in Nat
  BY FS_Subset, FS_CardinalityType
<1>2. C \in SUBSET Nat /\ C # {}
  BY <1>1
<1>3. PICK n \in C : \A m \in C : n <= m
  <2> HIDE DEF C
  <2> QED BY <1>2, Least
<1> QED BY <1>3

\* Taking the first element of a set leaves a set that is smaller by one.
LEMMA Removed ==
    ASSUME NEW D, IsFiniteSet(D), NEW s \in SUBSET D, s # {}
    PROVE  /\ Pick(s) \in s
           /\ s \ {Pick(s)} \in SUBSET D
           /\ Cardinality(s) \in Nat
           /\ Cardinality(s \ {Pick(s)}) \in Nat
           /\ Cardinality(s \ {Pick(s)}) = Cardinality(s) - 1
<1>1. Pick(s) \in s
  BY DEF Pick
<1>2. IsFiniteSet(s)
  BY FS_Subset
<1> QED BY <1>1, <1>2, FS_RemoveElement, FS_CardinalityType

\* The subsets of D of at most n elements.
Level(D, n) == {s \in SUBSET D : Cardinality(s) <= n}

\* The recursion of the fold has a solution over any finite domain: it is built
\* for the subsets of at most n elements, one n after the other.
LEMMA SumExists ==
    ASSUME NEW f, NEW D, IsFiniteSet(D)
    PROVE  \E g : IsSum(g, f, D)
<1> DEFINE Has(n) == \E g : g = [s \in Level(D, n) |-> Unfold(f, g, s)]
           Bad == {n \in Nat : ~Has(n)}
<1>1. Has(0)
  <2> DEFINE g == [s \in Level(D, 0) |-> 0]
  <2>1. ASSUME NEW s \in Level(D, 0) PROVE s = {}
    <3> SUFFICES ASSUME s # {} PROVE FALSE
      OBVIOUS
    <3>1. s \in SUBSET D /\ Cardinality(s) <= 0
      BY DEF Level
    <3>2. Cardinality(s) \in Nat /\ Cardinality(s) - 1 \in Nat
      BY <3>1, Removed
    <3> QED BY <3>1, <3>2
  <2>2. g = [s \in Level(D, 0) |-> Unfold(f, g, s)]
    BY <2>1 DEF Unfold
  <2> QED BY <2>2
<1>2. ASSUME NEW n \in Nat, Has(n) PROVE Has(n + 1)
  <2>1. PICK g : g = [s \in Level(D, n) |-> Unfold(f, g, s)]
    BY <1>2
  <2> DEFINE h == [s \in Level(D, n + 1) |-> Unfold(f, g, s)]
  <2>2. ASSUME NEW s \in Level(D, n + 1) PROVE Unfold(f, g, s) = Unfold(f, h, s)
    <3>1. CASE s = {}
      BY <3>1 DEF Unfold
    <3>2. CASE s # {}
      <4> DEFINE r == s \ {Pick(s)}
      <4>1. r \in Level(D, n) /\ r \in Level(D, n + 1)
        BY <3>2, Removed DEF Level
      <4>2. g[r] = h[r]
        BY <2>1, <4>1
      <4> QED BY <3>2, <4>2 DEF Unfold
    <3> QED BY <3>1, <3>2
  <2>3. h = [s \in Level(D, n + 1) |-> Unfold(f, h, s)]
    <3> HIDE DEF h
    <3>1. h = [s \in Level(D, n + 1) |-> Unfold(f, g, s)]
      BY DEF h
    <3> QED BY <2>2, <3>1
  <2> QED BY <2>3
<1>3. Bad = {}
  <2> SUFFICES ASSUME Bad # {} PROVE FALSE
    OBVIOUS
  <2> HIDE DEF Has
  <2>1. PICK n \in Bad : \A m \in Bad : n <= m
    BY Least
  <2>2. n # 0
    BY <1>1
  <2>3. n - 1 \in Nat /\ n - 1 \notin Bad
    BY <2>1, <2>2
  <2> QED BY <2>3, <1>2
<1>4. Has(Cardinality(D))
  BY <1>3, FS_CardinalityType
<1>5. Level(D, Cardinality(D)) = SUBSET D
  BY FS_Subset DEF Level
<1> QED BY <1>4, <1>5 DEF IsSum

\* The table that the fold chooses satisfies the equation of the recursion.
LEMMA FoldIsSum ==
    ASSUME NEW f, IsFiniteSet(DOMAIN f)
    PROVE  \E g : IsSum(g, f, DOMAIN f) /\ Total(f) = g[DOMAIN f]
BY FoldIsChosen, SumExists

\* Naturals add up to a natural.
LEMMA SumType ==
    ASSUME NEW D, IsFiniteSet(D), NEW f \in [D -> Nat]
    PROVE  Total(f) \in Nat
<1>1. PICK g : IsSum(g, f, D) /\ Total(f) = g[D]
  BY FoldIsSum
<1> DEFINE Bad == {s \in SUBSET D : g[s] \notin Nat}
<1>2. ASSUME Bad # {} PROVE FALSE
  <2>1. PICK s \in Bad : \A t \in Bad : Cardinality(s) <= Cardinality(t)
    BY <1>2, Smallest
  <2>2. g[s] = Unfold(f, g, s)
    BY <1>1 DEF IsSum
  <2>3. s # {}
    BY <2>2 DEF Unfold
  <2>4. g[s \ {Pick(s)}] \in Nat
    BY <2>1, <2>3, Removed
  <2>5. f[Pick(s)] \in Nat
    BY <2>3, Removed
  <2>6. g[s] = f[Pick(s)] + g[s \ {Pick(s)}]
    BY <2>2, <2>3 DEF Unfold
  <2> QED BY <2>4, <2>5, <2>6
<1> QED BY <1>1, <1>2

\* A sum of one value is that value.
LEMMA SumOfOne ==
    ASSUME NEW f, NEW d, DOMAIN f = {d}, f[d] \in Nat
    PROVE  Total(f) = f[d]
<1>0. IsFiniteSet(DOMAIN f)
  BY FS_Singleton
<1>1. PICK g : IsSum(g, f, {d}) /\ Total(f) = g[{d}]
  BY <1>0, FoldIsSum
<1>2. g[{}] = 0 /\ Pick({d}) = d /\ {d} \ {d} = {}
  BY <1>1 DEF IsSum, Unfold, Pick
<1>3. g[{d}] = Unfold(f, g, {d})
  BY <1>1 DEF IsSum
<1> QED BY <1>1, <1>2, <1>3 DEF Unfold

\* The sizes of disjoint finite sets add up to the size of their union.
LEMMA SumCounts ==
    ASSUME NEW D, IsFiniteSet(D), NEW F,
           \A d \in D : IsFiniteSet(F[d]),
           \A d, e \in D : d # e => F[d] \cap F[e] = {},
           NEW f, DOMAIN f = D, \A d \in D : f[d] = Cardinality(F[d])
    PROVE  Total(f) = Cardinality(UNION {F[d] : d \in D})
<1>1. PICK g : IsSum(g, f, D) /\ Total(f) = g[D]
  BY FoldIsSum
<1> DEFINE Of(s) == UNION {F[d] : d \in s}
           Right(s) == IsFiniteSet(Of(s)) /\ g[s] = Cardinality(Of(s))
           Bad == {s \in SUBSET D : ~Right(s)}
<1>2. ASSUME Bad # {} PROVE FALSE
  <2>1. PICK s \in Bad : \A t \in Bad : Cardinality(s) <= Cardinality(t)
    <3> HIDE DEF Right
    <3> QED BY <1>2, Smallest
  <2>2. g[s] = Unfold(f, g, s)
    BY <1>1 DEF IsSum
  <2>3. s # {}
    <3> SUFFICES ASSUME s = {} PROVE FALSE
      OBVIOUS
    <3>1. Of(s) = {}
      OBVIOUS
    <3>2. g[s] = 0
      BY <2>2 DEF Unfold
    <3> QED BY <3>1, <3>2, FS_EmptySet
  <2> DEFINE p == Pick(s)
             r == s \ {p}
  <2>4. p \in s /\ r \in SUBSET D
    BY <2>3, Removed
  <2>5. Right(r)
    <3> HIDE DEF Right
    <3> QED BY <2>1, <2>3, Removed
  <2>6. Of(s) = F[p] \cup Of(r) /\ F[p] \cap Of(r) = {}
    BY <2>4
  <2> HIDE DEF Of
  <2>7. IsFiniteSet(F[p]) /\ IsFiniteSet(Of(r))
    BY <2>4, <2>5
  <2>8. /\ IsFiniteSet(Of(s))
        /\ Cardinality(Of(s)) = Cardinality(F[p]) + Cardinality(Of(r)) - Cardinality(F[p] \cap Of(r))
    <3> HIDE DEF p, r
    <3>1. /\ IsFiniteSet(F[p] \cup Of(r))
          /\ Cardinality(F[p] \cup Of(r))
               = Cardinality(F[p]) + Cardinality(Of(r)) - Cardinality(F[p] \cap Of(r))
      BY <2>7, FS_Union
    <3> QED BY <2>6, <3>1
  <2>9. Cardinality(F[p]) \in Nat /\ Cardinality(Of(r)) \in Nat /\ Cardinality(F[p] \cap Of(r)) = 0
    BY <2>6, <2>7, FS_CardinalityType, FS_EmptySet
  <2>10. g[s] = f[p] + g[r]
    BY <2>2, <2>3 DEF Unfold
  <2> QED BY <2>4, <2>5, <2>8, <2>9, <2>10
<1>3. Right(D)
  BY <1>2
<1> QED BY <1>1, <1>3

=============================================================================
