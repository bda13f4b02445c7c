------------------------------- MODULE SumProofs -------------------------------
(***************************************************************************)
(* What sums of functions over finite sets add up to.  The folds of the    *)
(* community modules take the elements of a set in the order of CHOOSE; a  *)
(* sum does not depend on it.                                              *)
(***************************************************************************)
EXTENDS Functions, FiniteSets, Integers, FiniteSetTheorems, WellFoundedInduction, TLAPS

\* A set of subsets that contains a set whenever it contains all its proper subsets
\* contains every finite set.
LEMMA SubsetInduction ==
  ASSUME NEW S, IsFiniteSet(S), NEW Good,
         \A T \in SUBSET S : (\A U \in SUBSET T : U # T => U \in Good) => T \in Good
  PROVE  S \in Good
<1> DEFINE Bad == {T \in SUBSET S : T \notin Good}
<1>1. SUFFICES ASSUME S \notin Good PROVE FALSE OBVIOUS
<1>2. Bad \subseteq FiniteSubsetsOf(S)
  BY FS_Subset DEF FiniteSubsetsOf
<1>3. Bad # {} BY <1>1
<1>4. PICK T \in Bad : \A U \in Bad : ~(<<U, T>> \in StrictSubsetOrdering(S))
  <2>1. IsWellFoundedOn(StrictSubsetOrdering(S), FiniteSubsetsOf(S))
    BY FS_StrictSubsetOrderingWellFounded
  <2> HIDE DEF Bad
  <2> QED BY <1>2, <1>3, <2>1, WFMin
<1>5. \A U \in SUBSET T : U # T => U \in Good
  BY <1>4 DEF StrictSubsetOrdering
<1> QED BY <1>4, <1>5

Pick(s) == CHOOSE x \in s : TRUE

Summing(f, S, g) ==
  g = [s \in SUBSET S |-> IF s = {} THEN 0 ELSE f[Pick(s)] + g[s \ {Pick(s)}]]

Summed(f, S) == CHOOSE g : Summing(f, S, g)

LEMMA SumIsSummed ==
  ASSUME NEW f, NEW S
  PROVE  SumFunctionOnSet(f, S) = Summed(f, S)[S]
BY DEF SumFunctionOnSet, FoldFunctionOnSet, MapThenFoldSet, Summed, Summing, Pick

LEMMA LevelInduction ==
  ASSUME NEW Good, 0 \in Good, \A n \in Nat : n \in Good => n + 1 \in Good
  PROVE  \A n \in Nat : n \in Good
<1> DEFINE Bad == {n \in Nat : n \notin Good}
<1>1. SUFFICES ASSUME Bad # {} PROVE FALSE OBVIOUS
<1>2. PICK m \in Bad : \A n \in Bad : ~(<<n, m>> \in OpToRel(<, Nat))
  <2>1. IsWellFoundedOn(OpToRel(<, Nat), Nat) BY NatLessThanWellFounded
  <2>2. Bad \subseteq Nat OBVIOUS
  <2> HIDE DEF Bad
  <2> QED BY <1>1, <2>1, <2>2, WFMin
<1>3. m \in Nat /\ m # 0 BY <1>2
<1>4. m - 1 \in Nat /\ m - 1 < m /\ (m - 1) + 1 = m BY <1>3
<1>5. <<m - 1, m>> \in OpToRel(<, Nat) BY <1>3, <1>4 DEF OpToRel
<1>6. m - 1 \in Good BY <1>2, <1>4, <1>5
<1> QED BY <1>2, <1>4, <1>6

\* The equation of the fold has a solution: one for the sets of up to n elements
\* extends to those of n + 1.
LEMMA SummedExists ==
  ASSUME NEW f, NEW S, IsFiniteSet(S)
  PROVE  Summing(f, S, Summed(f, S))
<1> DEFINE Step(g, s) == IF s = {} THEN 0 ELSE f[Pick(s)] + g[s \ {Pick(s)}]
           UpTo(g, n) == /\ g = [s \in SUBSET S |-> g[s]]
                         /\ \A s \in SUBSET S : Cardinality(s) <= n => g[s] = Step(g, s)
           Good == {n \in Nat : \E g : UpTo(g, n)}
<1>1. \A s \in SUBSET S : /\ IsFiniteSet(s) /\ Cardinality(s) \in Nat
                          /\ Cardinality(s) <= Cardinality(S)
                          /\ Cardinality(s) = 0 <=> s = {}
  BY FS_Subset, FS_CardinalityType, FS_EmptySet
<1>2. \A s \in SUBSET S : s # {} =>
        /\ Pick(s) \in s /\ s \ {Pick(s)} \in SUBSET S
        /\ Cardinality(s \ {Pick(s)}) = Cardinality(s) - 1
  BY <1>1, FS_RemoveElement DEF Pick
<1>3. 0 \in Good
  <2> DEFINE g == [s \in SUBSET S |-> 0]
  <2>1. \A s \in SUBSET S : Cardinality(s) <= 0 => g[s] = Step(g, s)
    BY <1>1
  <2>2. UpTo(g, 0) BY <2>1
  <2> QED BY <2>2
<1>4. ASSUME NEW n \in Nat, n \in Good PROVE n + 1 \in Good
  <2>1. PICK g : UpTo(g, n) BY <1>4
  <2> DEFINE h == [s \in SUBSET S |-> IF Cardinality(s) <= n THEN g[s] ELSE Step(g, s)]
  <2>2. ASSUME NEW s \in SUBSET S, Cardinality(s) <= n + 1 PROVE h[s] = Step(h, s)
    <3>1. CASE s = {}
      <4>1. Cardinality(s) <= n BY <3>1, <1>1
      <4>2. g[s] = Step(g, s) BY <2>1, <4>1
      <4> QED BY <3>1, <4>1, <4>2
    <3>2. CASE s # {}
      <4> DEFINE t == s \ {Pick(s)}
      <4>1. t \in SUBSET S /\ Cardinality(t) = Cardinality(s) - 1 BY <1>2, <3>2
      <4>2. Cardinality(t) <= n BY <1>1, <2>2, <4>1
      <4>3. h[t] = g[t] BY <4>1, <4>2
      <4>4. h[s] = Step(g, s) BY <2>1
      <4>5. Step(g, s) = f[Pick(s)] + g[t] /\ Step(h, s) = f[Pick(s)] + h[t] BY <3>2
      <4> QED BY <4>3, <4>4, <4>5
    <3> QED BY <3>1, <3>2
  <2>3. UpTo(h, n + 1) BY <2>2
  <2>4. n + 1 \in Nat OBVIOUS
  <2> HIDE DEF h, UpTo
  <2> QED BY <2>3, <2>4
<1>5. Cardinality(S) \in Good
  <2>1. \A n \in Nat : n \in Good => n + 1 \in Good BY <1>4
  <2> HIDE DEF Good
  <2> QED BY <1>1, <1>3, <2>1, LevelInduction
<1>6. PICK g : UpTo(g, Cardinality(S)) BY <1>5
<1>7. \A s \in SUBSET S : g[s] = Step(g, s) BY <1>1, <1>6
<1>8. Summing(f, S, g)
  <2>1. g = [s \in SUBSET S |-> Step(g, s)] BY <1>6, <1>7
  <2> QED BY <2>1 DEF Summing
<1> QED BY <1>8 DEF Summed

\* It has one solution only, so that it is the same over a subset.
LEMMA SummingUnique ==
  ASSUME NEW f, NEW S, NEW T \in SUBSET S, IsFiniteSet(T),
         NEW g, Summing(f, S, g), NEW h, Summing(f, T, h)
  PROVE  g[T] = h[T]
<1> DEFINE Good == {U \in SUBSET T : g[U] = h[U]}
<1>1. ASSUME NEW U \in SUBSET T, \A V \in SUBSET U : V # U => V \in Good
      PROVE  U \in Good
  <2>1. CASE U = {} BY <2>1 DEF Summing
  <2>2. CASE U # {}
    <3> DEFINE V == U \ {Pick(U)}
    <3>1. Pick(U) \in U BY <2>2 DEF Pick
    <3>2. g[V] = h[V] BY <1>1, <3>1
    <3>3. g[U] = f[Pick(U)] + g[V] BY <2>2 DEF Summing
    <3>4. h[U] = f[Pick(U)] + h[V] BY <2>2 DEF Summing
    <3> QED BY <3>2, <3>3, <3>4
  <2> QED BY <2>1, <2>2
<1>2. T \in Good
  <2>1. \A U \in SUBSET T : (\A V \in SUBSET U : V # U => V \in Good) => U \in Good
    BY <1>1
  <2> HIDE DEF Good
  <2> QED BY <2>1, SubsetInduction
<1> QED BY <1>2

-------------------------------------------------------------------------------
LEMMA SumEmpty ==
  ASSUME NEW f
  PROVE  SumFunctionOnSet(f, {}) = 0
<1>1. IsFiniteSet({}) BY FS_EmptySet
<1>2. Summing(f, {}, Summed(f, {})) BY <1>1, SummedExists
<1> QED BY <1>2, SumIsSummed DEF Summing

LEMMA SumStep ==
  ASSUME NEW f, NEW S, IsFiniteSet(S), S # {}
  PROVE  SumFunctionOnSet(f, S) = f[Pick(S)] + SumFunctionOnSet(f, S \ {Pick(S)})
<1> DEFINE T == S \ {Pick(S)}
<1>1. IsFiniteSet(T) BY FS_RemoveElement
<1>2. Summing(f, S, Summed(f, S)) /\ Summing(f, T, Summed(f, T))
  BY <1>1, SummedExists
<1>3. Summed(f, S)[T] = Summed(f, T)[T] BY <1>1, <1>2, SummingUnique
<1>4. Summed(f, S)[S] = f[Pick(S)] + Summed(f, S)[T] BY <1>2 DEF Summing
<1> QED BY <1>3, <1>4, SumIsSummed
-------------------------------------------------------------------------------
\* A set of values that is closed under adding a term contains the sum.
LEMMA SumWithin ==
  ASSUME NEW S, IsFiniteSet(S), NEW f, NEW Values, 0 \in Values,
         \A x \in S, v \in Values : f[x] + v \in Values
  PROVE  SumFunctionOnSet(f, S) \in Values
<1> DEFINE Good == {T \in SUBSET S : SumFunctionOnSet(f, T) \in Values}
<1>1. ASSUME NEW T \in SUBSET S, \A U \in SUBSET T : U # T => U \in Good
      PROVE  T \in Good
  <2>1. CASE T = {} BY <2>1, SumEmpty
  <2>2. CASE T # {}
    <3>1. IsFiniteSet(T) BY FS_Subset
    <3>2. Pick(T) \in T BY <2>2 DEF Pick
    <3>3. T \ {Pick(T)} \in Good BY <1>1, <3>2
    <3>4. SumFunctionOnSet(f, T) = f[Pick(T)] + SumFunctionOnSet(f, T \ {Pick(T)})
      BY <2>2, <3>1, SumStep
    <3> QED BY <3>2, <3>3, <3>4
  <2> QED BY <2>1, <2>2
<1>2. S \in Good
  <2>1. \A T \in SUBSET S : (\A U \in SUBSET T : U # T => U \in Good) => T \in Good
    BY <1>1
  <2> HIDE DEF Good
  <2> QED BY <2>1, SubsetInduction
<1> QED BY <1>2

LEMMA SumType ==
  ASSUME NEW S, IsFiniteSet(S), NEW f, \A x \in S : f[x] \in Int
  PROVE  SumFunctionOnSet(f, S) \in Int
<1>1. \A x \in S, v \in Int : f[x] + v \in Int OBVIOUS
<1> QED BY <1>1, SumWithin

LEMMA SumNatural ==
  ASSUME NEW S, IsFiniteSet(S), NEW f, \A x \in S : f[x] \in Nat
  PROVE  SumFunctionOnSet(f, S) \in Nat
<1>1. \A x \in S, v \in Nat : f[x] + v \in Nat OBVIOUS
<1> QED BY <1>1, SumWithin

LEMMA SumZero ==
  ASSUME NEW S, IsFiniteSet(S), NEW f, \A x \in S : f[x] = 0
  PROVE  SumFunctionOnSet(f, S) = 0
<1>1. 0 \in {0} /\ \A x \in S, v \in {0} : f[x] + v \in {0} OBVIOUS
<1>2. SumFunctionOnSet(f, S) \in {0} BY <1>1, SumWithin
<1> QED BY <1>2

\* What SumStep says of the element that CHOOSE picks holds of every element.
LEMMA SumRemove ==
  ASSUME NEW S, IsFiniteSet(S), NEW f, \A x \in S : f[x] \in Int, NEW i \in S
  PROVE  SumFunctionOnSet(f, S) = f[i] + SumFunctionOnSet(f, S \ {i})
<1> DEFINE Sum(T) == SumFunctionOnSet(f, T)
           Good == {T \in SUBSET S : \A x \in T : Sum(T) = f[x] + Sum(T \ {x})}
<1>1. \A T \in SUBSET S : IsFiniteSet(T) /\ Sum(T) \in Int
  <2>1. \A T \in SUBSET S : IsFiniteSet(T) BY FS_Subset
  <2> QED BY <2>1, SumType
<1>2. \A T \in SUBSET S : T # {} =>
        Pick(T) \in T /\ Sum(T) = f[Pick(T)] + Sum(T \ {Pick(T)})
  BY <1>1, SumStep DEF Pick
<1> HIDE DEF Sum
<1>3. ASSUME NEW T \in SUBSET S, \A U \in SUBSET T : U # T => U \in Good
      PROVE  T \in Good
  <2>1. SUFFICES ASSUME NEW x \in T PROVE Sum(T) = f[x] + Sum(T \ {x}) OBVIOUS
  <2> DEFINE p == Pick(T)
             U == T \ {x}
             V == T \ {p}
  <2>2. p \in T /\ Sum(T) = f[p] + Sum(V) BY <1>2
  <2> HIDE DEF p
  <2>3. CASE x = p BY <2>2, <2>3
  <2>4. CASE x # p
    <3>1. U \in Good /\ V \in Good BY <1>3, <2>2
    <3>2. Sum(V) = f[x] + Sum(V \ {x}) BY <2>4, <3>1
    <3>3. Sum(U) = f[p] + Sum(U \ {p}) BY <2>2, <2>4, <3>1
    <3>4. U \ {p} = V \ {x} OBVIOUS
    <3> DEFINE w == Sum(V \ {x})
    <3>5. f[x] \in Int /\ f[p] \in Int /\ w \in Int BY <1>1, <2>2
    <3>6. Sum(U) = f[p] + w BY <3>3, <3>4
    <3>7. Sum(T) = f[p] + (f[x] + w) BY <2>2, <3>2
    <3>8. f[p] + (f[x] + w) = f[x] + (f[p] + w)
      <4> HIDE DEF w
      <4> QED BY <3>5
    <3> QED BY <3>6, <3>7, <3>8
  <2> QED BY <2>3, <2>4
<1>4. S \in Good
  <2>1. \A T \in SUBSET S : (\A U \in SUBSET T : U # T => U \in Good) => T \in Good
    BY <1>3
  <2> HIDE DEF Good
  <2> QED BY <2>1, SubsetInduction
<1> QED BY <1>4 DEF Sum

LEMMA SumCongruence ==
  ASSUME NEW S, IsFiniteSet(S), NEW f, NEW g, \A x \in S : f[x] = g[x]
  PROVE  SumFunctionOnSet(f, S) = SumFunctionOnSet(g, S)
<1> DEFINE Good == {T \in SUBSET S : SumFunctionOnSet(f, T) = SumFunctionOnSet(g, T)}
<1>1. ASSUME NEW T \in SUBSET S, \A U \in SUBSET T : U # T => U \in Good
      PROVE  T \in Good
  <2>1. CASE T = {} BY <2>1, SumEmpty
  <2>2. CASE T # {}
    <3>1. IsFiniteSet(T) BY FS_Subset
    <3>2. Pick(T) \in T BY <2>2 DEF Pick
    <3>3. T \ {Pick(T)} \in Good BY <1>1, <3>2
    <3>4. SumFunctionOnSet(f, T) = f[Pick(T)] + SumFunctionOnSet(f, T \ {Pick(T)})
      BY <2>2, <3>1, SumStep
    <3>5. SumFunctionOnSet(g, T) = g[Pick(T)] + SumFunctionOnSet(g, T \ {Pick(T)})
      BY <2>2, <3>1, SumStep
    <3>6. f[Pick(T)] = g[Pick(T)] BY <3>2
    <3> QED BY <3>3, <3>4, <3>5, <3>6
  <2> QED BY <2>1, <2>2
<1>2. S \in Good
  <2>1. \A T \in SUBSET S : (\A U \in SUBSET T : U # T => U \in Good) => T \in Good
    BY <1>1
  <2> HIDE DEF Good
  <2> QED BY <2>1, SubsetInduction
<1> QED BY <1>2

\* One term of a sum changes.
LEMMA SumUpdate ==
  ASSUME NEW S, IsFiniteSet(S), NEW f, NEW g, NEW i \in S,
         \A x \in S : f[x] \in Int /\ g[x] \in Int,
         \A x \in S \ {i} : f[x] = g[x]
  PROVE  SumFunctionOnSet(g, S) = SumFunctionOnSet(f, S) - f[i] + g[i]
<1>1. IsFiniteSet(S \ {i}) BY FS_RemoveElement
<1>2. SumFunctionOnSet(g, S \ {i}) = SumFunctionOnSet(f, S \ {i})
  BY <1>1, SumCongruence
<1>3. SumFunctionOnSet(f, S \ {i}) \in Int BY <1>1, SumType
<1>4. SumFunctionOnSet(f, S) = f[i] + SumFunctionOnSet(f, S \ {i}) BY SumRemove
<1>5. SumFunctionOnSet(g, S) = g[i] + SumFunctionOnSet(g, S \ {i}) BY SumRemove
<1> QED BY <1>2, <1>3, <1>4, <1>5

\* The sum over two sets without a common element is the sum of the two sums.
LEMMA SumDisjoint ==
  ASSUME NEW S, IsFiniteSet(S), NEW T, IsFiniteSet(T), S \cap T = {},
         NEW f, \A x \in S \cup T : f[x] \in Int
  PROVE  SumFunctionOnSet(f, S \cup T) = SumFunctionOnSet(f, S) + SumFunctionOnSet(f, T)
<1> DEFINE Sum(U) == SumFunctionOnSet(f, U)
           Good == {U \in SUBSET T : Sum(S \cup U) = Sum(S) + Sum(U)}
<1>1. \A U \in SUBSET T : IsFiniteSet(U) /\ IsFiniteSet(S \cup U)
  BY FS_Subset, FS_Union
<1>2. \A U \in SUBSET T : Sum(U) \in Int /\ Sum(S \cup U) \in Int
  <2>1. SUFFICES ASSUME NEW U \in SUBSET T PROVE Sum(U) \in Int /\ Sum(S \cup U) \in Int
    OBVIOUS
  <2>2. /\ IsFiniteSet(U) /\ IsFiniteSet(S \cup U)
        /\ \A x \in U : f[x] \in Int
        /\ \A x \in S \cup U : f[x] \in Int
    BY <1>1
  <2> QED BY <2>2, SumType
<1>3. Sum(S) \in Int
  <2>1. \A x \in S : f[x] \in Int OBVIOUS
  <2> QED BY <2>1, SumType
<1>4. ASSUME NEW U \in SUBSET T, \A V \in SUBSET U : V # U => V \in Good
      PROVE  U \in Good
  <2>1. CASE U = {}
    <3>1. Sum(U) = 0 BY <2>1, SumEmpty
    <3>2. S \cup U = S BY <2>1
    <3>3. Sum(S \cup U) = Sum(S) BY <3>2
    <3> HIDE DEF Sum
    <3>4. Sum(S \cup U) = Sum(S) + Sum(U) BY <1>3, <3>1, <3>3
    <3> QED BY <3>4
  <2>2. CASE U # {}
    <3>1. PICK x \in U : TRUE BY <2>2
    <3> DEFINE V == U \ {x}
    <3>2. V \in Good BY <1>4, <3>1
    <3>3. Sum(U) = f[x] + Sum(V)
      <4>1. IsFiniteSet(U) /\ \A y \in U : f[y] \in Int BY <1>1
      <4> QED BY <3>1, <4>1, SumRemove
    <3>4. Sum(S \cup U) = f[x] + Sum(S \cup V)
      <4>1. /\ IsFiniteSet(S \cup U) /\ \A y \in S \cup U : f[y] \in Int
            /\ x \in S \cup U /\ (S \cup U) \ {x} = S \cup V
        BY <1>1, <3>1
      <4>2. Sum(S \cup U) = f[x] + Sum((S \cup U) \ {x})
        BY <4>1, SumRemove
      <4> QED BY <4>1, <4>2
    <3>5. f[x] \in Int /\ V \in SUBSET T BY <3>1
    <3>6. Sum(V) \in Int /\ Sum(S \cup V) \in Int BY <1>2, <3>5
    <3>7. Sum(S \cup V) = Sum(S) + Sum(V) BY <3>2
    <3> HIDE DEF Sum, V
    <3> QED BY <1>3, <3>3, <3>4, <3>5, <3>6, <3>7
  <2> QED BY <2>1, <2>2
<1> HIDE DEF Good
<1>5. T \in Good BY <1>4, SubsetInduction
<1> QED BY <1>5 DEF Good

\* Naturals add up to no less over a larger set.
LEMMA SumSubset ==
  ASSUME NEW S, IsFiniteSet(S), NEW T \in SUBSET S, NEW f, \A x \in S : f[x] \in Nat
  PROVE  /\ SumFunctionOnSet(f, T) \in Nat
         /\ SumFunctionOnSet(f, S) \in Nat
         /\ SumFunctionOnSet(f, T) <= SumFunctionOnSet(f, S)
<1> DEFINE R == S \ T
<1>1. /\ IsFiniteSet(T) /\ IsFiniteSet(R) /\ T \cup R = S /\ T \cap R = {}
  BY FS_Subset
<1>2. /\ SumFunctionOnSet(f, T) \in Nat
      /\ SumFunctionOnSet(f, R) \in Nat
      /\ SumFunctionOnSet(f, S) \in Nat
  BY <1>1, SumNatural
<1>3. \A x \in T \cup R : f[x] \in Int BY <1>1
<1>4. SumFunctionOnSet(f, S) = SumFunctionOnSet(f, T) + SumFunctionOnSet(f, R)
  BY <1>1, <1>3, SumDisjoint
<1> QED BY <1>2, <1>4

\* What is 0 outside a set adds nothing outside it.
LEMMA SumRestricted ==
  ASSUME NEW S, IsFiniteSet(S), NEW T \in SUBSET S, NEW f, \A x \in S : f[x] \in Int,
         \A x \in S \ T : f[x] = 0
  PROVE  SumFunctionOnSet(f, S) = SumFunctionOnSet(f, T)
<1> DEFINE R == S \ T
<1>1. /\ IsFiniteSet(T) /\ IsFiniteSet(R) /\ T \cup R = S /\ T \cap R = {}
  BY FS_Subset
<1>2. SumFunctionOnSet(f, R) = 0 BY <1>1, SumZero
<1>3. \A x \in T \cup R : f[x] \in Int BY <1>1
<1>4. SumFunctionOnSet(f, S) = SumFunctionOnSet(f, T) + SumFunctionOnSet(f, R)
  BY <1>1, <1>3, SumDisjoint
<1>5. SumFunctionOnSet(f, T) \in Int BY <1>1, SumType
<1> QED BY <1>2, <1>4, <1>5

-------------------------------------------------------------------------------
(* Folds of other operations: the least and the greatest of some values.      *)

Folding(h, base, S, g) ==
  g = [s \in SUBSET S |-> IF s = {} THEN base ELSE h[<<Pick(s), g[s \ {Pick(s)}]>>]]

\* A fold has a value, whatever function of an element and of the rest it applies.
LEMMA FoldingExists ==
  ASSUME NEW h, NEW base, NEW S, IsFiniteSet(S)
  PROVE  \E g : Folding(h, base, S, g)
<1> DEFINE Step(g, s) == IF s = {} THEN base ELSE h[<<Pick(s), g[s \ {Pick(s)}]>>]
           UpTo(g, n) == /\ g = [s \in SUBSET S |-> g[s]]
                         /\ \A s \in SUBSET S : Cardinality(s) <= n => g[s] = Step(g, s)
           Good == {n \in Nat : \E g : UpTo(g, n)}
<1>1. \A s \in SUBSET S : /\ IsFiniteSet(s) /\ Cardinality(s) \in Nat
                          /\ Cardinality(s) <= Cardinality(S)
                          /\ Cardinality(s) = 0 <=> s = {}
  BY FS_Subset, FS_CardinalityType, FS_EmptySet
<1>2. \A s \in SUBSET S : s # {} =>
        /\ Pick(s) \in s /\ s \ {Pick(s)} \in SUBSET S
        /\ Cardinality(s \ {Pick(s)}) = Cardinality(s) - 1
  BY <1>1, FS_RemoveElement DEF Pick
<1>3. 0 \in Good
  <2> DEFINE g == [s \in SUBSET S |-> base]
  <2>1. \A s \in SUBSET S : Cardinality(s) <= 0 => g[s] = Step(g, s)
    BY <1>1
  <2>2. UpTo(g, 0) BY <2>1
  <2> QED BY <2>2
<1>4. ASSUME NEW n \in Nat, n \in Good PROVE n + 1 \in Good
  <2>1. PICK g : UpTo(g, n) BY <1>4
  <2> DEFINE k == [s \in SUBSET S |-> IF Cardinality(s) <= n THEN g[s] ELSE Step(g, s)]
  <2>2. ASSUME NEW s \in SUBSET S, Cardinality(s) <= n + 1 PROVE k[s] = Step(k, s)
    <3>1. CASE s = {}
      <4>1. Cardinality(s) <= n BY <3>1, <1>1
      <4>2. g[s] = Step(g, s) BY <2>1, <4>1
      <4> QED BY <3>1, <4>1, <4>2
    <3>2. CASE s # {}
      <4> DEFINE t == s \ {Pick(s)}
      <4>1. t \in SUBSET S /\ Cardinality(t) = Cardinality(s) - 1 BY <1>2, <3>2
      <4>2. Cardinality(t) <= n BY <1>1, <2>2, <4>1
      <4>3. k[t] = g[t] BY <4>1, <4>2
      <4>4. k[s] = Step(g, s) BY <2>1
      <4>5. Step(g, s) = h[<<Pick(s), g[t]>>] /\ Step(k, s) = h[<<Pick(s), k[t]>>] BY <3>2
      <4> QED BY <4>3, <4>4, <4>5
    <3> QED BY <3>1, <3>2
  <2>3. UpTo(k, n + 1) BY <2>2
  <2>4. n + 1 \in Nat OBVIOUS
  <2> HIDE DEF k, UpTo
  <2> QED BY <2>3, <2>4
<1>5. Cardinality(S) \in Good
  <2>1. \A n \in Nat : n \in Good => n + 1 \in Good BY <1>4
  <2> HIDE DEF Good
  <2> QED BY <1>1, <1>3, <2>1, LevelInduction
<1>6. PICK g : UpTo(g, Cardinality(S)) BY <1>5
<1>7. \A s \in SUBSET S : g[s] = Step(g, s) BY <1>1, <1>6
<1>8. g = [s \in SUBSET S |-> Step(g, s)] BY <1>6, <1>7
<1> QED BY <1>8 DEF Folding

\* A property of the sets that step by step comes from smaller sets.
LEMMA StepInduction ==
  ASSUME NEW S, IsFiniteSet(S), NEW g, NEW Values, g[{}] \in Values,
         \A s \in SUBSET S : s # {} /\ g[s \ {Pick(s)}] \in Values => g[s] \in Values
  PROVE  \A s \in SUBSET S : g[s] \in Values
<1>1. SUFFICES ASSUME NEW R \in SUBSET S PROVE g[R] \in Values OBVIOUS
<1> DEFINE Good == {T \in SUBSET R : g[T] \in Values}
<1>2. ASSUME NEW T \in SUBSET R, \A U \in SUBSET T : U # T => U \in Good
      PROVE  T \in Good
  <2>1. CASE T = {} BY <2>1
  <2>2. CASE T # {}
    <3>1. Pick(T) \in T BY <2>2 DEF Pick
    <3>2. T \ {Pick(T)} \in Good BY <1>2, <3>1
    <3> QED BY <2>2, <3>2
  <2> QED BY <2>1, <2>2
<1>3. R \in Good
  <2>1. \A T \in SUBSET R : (\A U \in SUBSET T : U # T => U \in Good) => T \in Good
    BY <1>2
  <2>2. IsFiniteSet(R) BY FS_Subset
  <2> HIDE DEF Good
  <2> QED BY <2>1, <2>2, SubsetInduction
<1> QED BY <1>3

LEMMA FoldWithin ==
  ASSUME NEW S, IsFiniteSet(S), NEW Values, NEW base \in Values,
         NEW h \in [S \X Values -> Values]
  PROVE  \E g \in [SUBSET S -> Values] : Folding(h, base, S, g)
<1>1. PICK g : Folding(h, base, S, g) BY FoldingExists
<1>2. g[{}] \in Values BY <1>1 DEF Folding
<1>3. \A s \in SUBSET S : s # {} /\ g[s \ {Pick(s)}] \in Values => g[s] \in Values
  BY <1>1 DEF Folding, Pick
<1>4. \A s \in SUBSET S : g[s] \in Values BY <1>2, <1>3, StepInduction
<1>5. g = [s \in SUBSET S |-> g[s]] BY <1>1 DEF Folding
<1> QED BY <1>1, <1>4, <1>5

LEMMA SumMonotone ==
  ASSUME NEW S, IsFiniteSet(S), NEW f, NEW g,
         \A x \in S : f[x] \in Int /\ g[x] \in Int /\ f[x] <= g[x]
  PROVE  SumFunctionOnSet(f, S) <= SumFunctionOnSet(g, S)
<1> DEFINE Good == {T \in SUBSET S : SumFunctionOnSet(f, T) <= SumFunctionOnSet(g, T)}
<1>1. ASSUME NEW T \in SUBSET S, \A U \in SUBSET T : U # T => U \in Good
      PROVE  T \in Good
  <2>1. CASE T = {} BY <2>1, SumEmpty
  <2>2. CASE T # {}
    <3> DEFINE R == T \ {Pick(T)}
    <3>1. IsFiniteSet(T) /\ IsFiniteSet(R) BY FS_Subset
    <3>2. Pick(T) \in T BY <2>2 DEF Pick
    <3>3. R \in Good BY <1>1, <3>2
    <3>4. SumFunctionOnSet(f, T) = f[Pick(T)] + SumFunctionOnSet(f, R)
      BY <2>2, <3>1, SumStep
    <3>5. SumFunctionOnSet(g, T) = g[Pick(T)] + SumFunctionOnSet(g, R)
      BY <2>2, <3>1, SumStep
    <3>6. SumFunctionOnSet(f, R) \in Int /\ SumFunctionOnSet(g, R) \in Int
      BY <3>1, SumType
    <3>7. f[Pick(T)] \in Int /\ g[Pick(T)] \in Int /\ f[Pick(T)] <= g[Pick(T)] BY <3>2
    <3> QED BY <3>3, <3>4, <3>5, <3>6, <3>7
  <2> QED BY <2>1, <2>2
<1>2. S \in Good
  <2>1. \A T \in SUBSET S : (\A U \in SUBSET T : U # T => U \in Good) => T \in Good
    BY <1>1
  <2> HIDE DEF Good
  <2> QED BY <2>1, SubsetInduction
<1> QED BY <1>2

\* Sums whose terms differ by at most one differ by at most their number.
LEMMA SumNear ==
  ASSUME NEW S, IsFiniteSet(S), NEW f, NEW g,
         \A x \in S : f[x] \in Int /\ g[x] \in Int /\ f[x] - g[x] \in -1..1
  PROVE  SumFunctionOnSet(f, S) - SumFunctionOnSet(g, S) \in -Cardinality(S)..Cardinality(S)
<1> DEFINE Near(T) ==
      SumFunctionOnSet(f, T) - SumFunctionOnSet(g, T) \in -Cardinality(T)..Cardinality(T)
           Good == {T \in SUBSET S : Near(T)}
<1>1. ASSUME NEW T \in SUBSET S, \A U \in SUBSET T : U # T => U \in Good
      PROVE  T \in Good
  <2>1. CASE T = {}
    <3>1. Cardinality(T) = 0 BY <2>1, FS_EmptySet
    <3> QED BY <2>1, <3>1, SumEmpty
  <2>2. CASE T # {}
    <3> DEFINE R == T \ {Pick(T)}
               a == f[Pick(T)]
               b == g[Pick(T)]
               x == SumFunctionOnSet(f, R)
               y == SumFunctionOnSet(g, R)
               c == Cardinality(T)
               d == Cardinality(R)
    <3>1. IsFiniteSet(T) /\ IsFiniteSet(R) BY FS_Subset
    <3>2. Pick(T) \in T BY <2>2 DEF Pick
    <3>3. x - y \in -d..d
      <4>1. R \in Good BY <1>1, <3>2
      <4> QED BY <4>1
    <3>4. SumFunctionOnSet(f, T) = a + x BY <2>2, <3>1, SumStep
    <3>5. SumFunctionOnSet(g, T) = b + y BY <2>2, <3>1, SumStep
    <3>6. x \in Int /\ y \in Int BY <3>1, SumType
    <3>7. a \in Int /\ b \in Int /\ a - b \in -1..1 BY <3>2
    <3>8. d = c - 1 /\ c \in Nat BY <3>1, <3>2, FS_RemoveElement, FS_CardinalityType
    <3> HIDE DEF a, b, x, y, c, d, R
    <3>9. (a + x) - (b + y) \in -c..c BY <3>3, <3>6, <3>7, <3>8
    <3> QED BY <3>4, <3>5, <3>9 DEF c
  <2> QED BY <2>1, <2>2
<1>2. S \in Good
  <2>1. \A T \in SUBSET S : (\A U \in SUBSET T : U # T => U \in Good) => T \in Good
    BY <1>1
  <2> HIDE DEF Good
  <2> QED BY <2>1, SubsetInduction
<1> QED BY <1>2
===============================================================================
