------------------------------ MODULE FiniteSums ------------------------------
(***************************************************************************)
(* What the sums of the component modules are.  MapThenSumSet adds natural *)
(* numbers up along some order of a finite set; the sum counts the units   *)
(* <<x, n>>, n < v[x], behind the numbers, so that the laws of sums are    *)
(* laws of cardinality.                                                    *)
(***************************************************************************)
EXTENDS Integers, FiniteSets, FiniteSetsExt, FiniteSetTheorems, WellFoundedInduction, TLAPS

First(s) == CHOOSE x \in s : TRUE

\* The equation of the recursive function inside MapThenSumSet.
SumEquation(v, S, f) ==
    f = [s \in SUBSET S |-> IF s = {} THEN 0 ELSE v[First(s)] + f[s \ {First(s)}]]

Units(v, S) == {u \in S \X Nat : u[2] < v[u[1]]}
Sum(v, S)   == Cardinality(Units(v, S))

-----------------------------------------------------------------------------
(* The laws of Sum. *)

\* One element has as many units as its number says.
LEMMA UnitsOfOne ==
    ASSUME NEW x, NEW v, v[x] \in Nat
    PROVE  IsFiniteSet(Units(v, {x})) /\ Sum(v, {x}) = v[x]
<1> DEFINE I == 0 .. v[x] - 1
<1>1. 0 \in Int /\ v[x] - 1 \in Int
  OBVIOUS
<1>2. IsFiniteSet(I) /\ Cardinality(I) = IF 0 > v[x] - 1 THEN 0 ELSE v[x] - 1 - 0 + 1
  BY <1>1, FS_Interval
<1>3. Cardinality(I) = v[x]
  BY <1>2
<1>4. IsFiniteSet({x}) /\ Cardinality({x}) = 1
  BY FS_Singleton
<1>5. Units(v, {x}) = {x} \X I
  BY DEF Units
<1> HIDE DEF I
<1>6. IsFiniteSet({x} \X I) /\ Cardinality({x} \X I) = Cardinality({x}) * Cardinality(I)
  BY <1>2, <1>4, FS_Product
<1>7. Cardinality({x}) * Cardinality(I) = v[x]
  BY <1>3, <1>4
<1> QED
  BY <1>5, <1>6, <1>7 DEF Sum

\* A finite set of numbers has finitely many units.
LEMMA UnitsFinite ==
    ASSUME NEW S, IsFiniteSet(S), NEW v, \A x \in S : v[x] \in Nat
    PROVE  IsFiniteSet(Units(v, S)) /\ Sum(v, S) \in Nat
<1> DEFINE U == {Units(v, {x}) : x \in S}
<1>1. IsFiniteSet(U)
  <2> DEFINE f == [x \in S |-> Units(v, {x})]
  <2>1. f \in Surjection(S, U)
    BY DEF Surjection
  <2> QED
    BY <2>1, FS_Surjection
<1>2. \A u \in U : IsFiniteSet(u)
  BY UnitsOfOne
<1>3. IsFiniteSet(UNION U)
  BY <1>1, <1>2, FS_UNION
<1>4. Units(v, S) = UNION U
  BY DEF Units
<1> QED
  BY <1>3, <1>4, FS_CardinalityType DEF Sum

\* The sum over two disjoint sets.
LEMMA SumUnion ==
    ASSUME NEW S, IsFiniteSet(S), NEW T, IsFiniteSet(T), S \cap T = {},
           NEW v, \A x \in S \cup T : v[x] \in Nat
    PROVE  Sum(v, S \cup T) = Sum(v, S) + Sum(v, T)
<1>1. Units(v, S \cup T) = Units(v, S) \cup Units(v, T) /\ Units(v, S) \cap Units(v, T) = {}
  BY DEF Units
<1>2. IsFiniteSet(Units(v, S)) /\ IsFiniteSet(Units(v, T))
  BY UnitsFinite
<1>3. Cardinality(Units(v, S) \cap Units(v, T)) = 0
  BY <1>1, FS_EmptySet
<1>4. Sum(v, S) \in Nat /\ Sum(v, T) \in Nat
  BY UnitsFinite
<1> DEFINE A == Units(v, S)
           B == Units(v, T)
<1> HIDE DEF A, B
<1>5. Cardinality(A \cup B) = Cardinality(A) + Cardinality(B) - Cardinality(A \cap B)
  BY <1>2, FS_Union DEF A, B
<1> QED
  BY <1>1, <1>3, <1>4, <1>5 DEF Sum, A, B

\* The sum without one of the elements.
LEMMA SumRemove ==
    ASSUME NEW S, IsFiniteSet(S), NEW v, \A x \in S : v[x] \in Nat, NEW x \in S
    PROVE  Sum(v, S) = v[x] + Sum(v, S \ {x})
<1>1. IsFiniteSet(S \ {x}) /\ IsFiniteSet({x}) /\ S = {x} \cup (S \ {x}) /\ {x} \cap (S \ {x}) = {}
  BY FS_Subset, FS_Singleton
<1>2. Sum(v, {x} \cup (S \ {x})) = Sum(v, {x}) + Sum(v, S \ {x})
  BY <1>1, SumUnion
<1>3. Sum(v, {x}) = v[x]
  BY UnitsOfOne
<1> QED
  BY <1>1, <1>2, <1>3

\* Equal numbers have equal sums.
LEMMA SumEqual ==
    ASSUME NEW S, NEW v, NEW w, \A x \in S : v[x] = w[x]
    PROVE  Sum(v, S) = Sum(w, S)
BY DEF Sum, Units

\* Smaller numbers over fewer elements have a smaller sum.
LEMMA SumMonotone ==
    ASSUME NEW T, IsFiniteSet(T), NEW S \in SUBSET T, NEW v, NEW w,
           \A x \in T : v[x] \in Nat /\ w[x] \in Nat /\ v[x] =< w[x]
    PROVE  Sum(v, S) =< Sum(w, T)
<1>1. Units(v, S) \subseteq Units(w, T)
  BY DEF Units
<1>2. IsFiniteSet(Units(w, T))
  BY UnitsFinite
<1> QED
  BY <1>1, <1>2, FS_Subset DEF Sum

\* Nothing adds up to zero.
LEMMA SumEmpty == ASSUME NEW v PROVE Sum(v, {}) = 0
<1>1. Units(v, {}) = {}
  BY DEF Units
<1> QED
  BY <1>1, FS_EmptySet DEF Sum

-----------------------------------------------------------------------------
(* MapThenSumSet is Sum. *)

\* The sums of the subsets solve the equation ...
LEMMA SumSolves ==
    ASSUME NEW S, IsFiniteSet(S), NEW v, \A x \in S : v[x] \in Nat
    PROVE  SumEquation(v, S, [s \in SUBSET S |-> Sum(v, s)])
<1>1. ASSUME NEW s \in SUBSET S, s # {}
      PROVE  /\ s \ {First(s)} \in SUBSET S
             /\ Sum(v, s) = v[First(s)] + Sum(v, s \ {First(s)})
  <2>1. First(s) \in s
    BY <1>1 DEF First
  <2>2. IsFiniteSet(s)
    BY FS_Subset
  <2> QED
    BY <2>1, <2>2, SumRemove
<1> QED
  BY <1>1, SumEmpty DEF SumEquation

\* ... and nothing else does.
LEMMA SumUnique ==
    ASSUME NEW S, IsFiniteSet(S), NEW v, \A x \in S : v[x] \in Nat, NEW f, SumEquation(v, S, f)
    PROVE  f[S] = Sum(v, S)
<1> DEFINE T == {s \in SUBSET S : f[s] # Sum(v, s)}
<1>1. SUFFICES ASSUME T # {} PROVE FALSE
  OBVIOUS
<1>2. IsWellFoundedOn(StrictSubsetOrdering(S), SUBSET S)
  BY FS_StrictSubsetOrderingWellFounded, FS_FiniteSubsetsOfFinite
<1>3. PICK s \in T : \A t \in T : <<t, s>> \notin StrictSubsetOrdering(S)
  BY <1>1, <1>2, WFMin
<1>4. s # {}
  BY SumEmpty DEF SumEquation
<1>5. First(s) \in s
  BY <1>4 DEF First
<1> DEFINE t == s \ {First(s)}
<1>6. t \in SUBSET S /\ <<t, s>> \in StrictSubsetOrdering(S)
  BY <1>5 DEF StrictSubsetOrdering
<1>7. f[t] = Sum(v, t)
  BY <1>3, <1>6
<1>8. f[s] = v[First(s)] + f[t]
  BY <1>4 DEF SumEquation
<1>9. Sum(v, s) = v[First(s)] + Sum(v, t)
  BY <1>5, FS_Subset, SumRemove
<1> QED
  BY <1>7, <1>8, <1>9

\* So the library's fold over a finite set is the sum.
LEMMA FoldIsSum ==
    ASSUME NEW S, IsFiniteSet(S), NEW v, \A x \in S : v[x] \in Nat
    PROVE  MapThenSumSet(LAMBDA x : v[x], S) = Sum(v, S)
<1>1. MapThenSumSet(LAMBDA x : v[x], S) = (CHOOSE f : SumEquation(v, S, f))[S]
  BY DEF MapThenSumSet, MapThenFoldSet, SumEquation, First
<1>2. SumEquation(v, S, CHOOSE f : SumEquation(v, S, f))
  BY SumSolves
<1> QED
  BY <1>1, <1>2, SumUnique

=============================================================================
