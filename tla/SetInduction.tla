---------------------------- MODULE SetInduction ----------------------------
(***************************************************************************)
(* What the proofs need that choose the first of something (the first      *)
(* connection with room for a symbol, the first item of a job) or that add *)
(* up amounts (the margins of an account, the units a sale consumes).      *)
(***************************************************************************)
EXTENDS Integers, FiniteSets, FiniteSetsExt,
        FiniteSetTheorems, WellFoundedInduction, TLAPS

\* A set of natural numbers that is not empty has a least element.
LEMMA Least ==
    ASSUME NEW S \in SUBSET Nat, S # {}
    PROVE  \E i \in S : \A j \in S : i <= j
  <1> DEFINE T == {1..i : i \in S}
  <1>1. T \subseteq FiniteSubsetsOf(Nat) /\ T # {}
    <2>1. ASSUME NEW i \in S
          PROVE  1..i \in SUBSET Nat /\ IsFiniteSet(1..i)
      BY FS_Interval
    <2>2. \A i \in S : 1..i \in FiniteSubsetsOf(Nat)
      BY <2>1 DEF FiniteSubsetsOf
    <2> QED
      BY <2>2
  <1>2. PICK x \in T : \A y \in T : ~(<<y, x>> \in StrictSubsetOrdering(Nat))
    BY <1>1, FS_StrictSubsetOrderingWellFounded, WFMin
  <1>3. PICK i \in S : x = 1..i
    BY <1>2
  <1>4. ASSUME NEW j \in S, j < i
        PROVE  FALSE
    <2>1. 1..j \in SUBSET Nat /\ 1..i \in SUBSET Nat /\ 1..j \subseteq 1..i /\ 1..j # 1..i
      BY <1>4
    <2>2. 1..j \in T
      OBVIOUS
    <2>3. <<1..j, 1..i>> \in StrictSubsetOrdering(Nat)
      BY <2>1 DEF StrictSubsetOrdering
    <2> QED
      BY <1>2, <1>3, <2>2, <2>3
  <1> QED
    BY <1>4

-----------------------------------------------------------------------------
(* Induction over the subsets of a finite set, in the order a sum takes *)

\* The element that the folds of the community modules take first.
First(s) == CHOOSE x \in s : TRUE

\* That element is one of the set.
LEMMA FirstIn == ASSUME NEW s, s # {} PROVE First(s) \in s
  BY DEF First

\* A set of subsets has them all that has the empty one and each whose rest,
\* without its first element, it has.
LEMMA AllSubsets ==
    ASSUME NEW S, IsFiniteSet(S), NEW G \in SUBSET (SUBSET S), {} \in G,
           \A s \in SUBSET S : s # {} /\ s \ {First(s)} \in G => s \in G
    PROVE  G = SUBSET S
  <1> DEFINE sizes == {Cardinality(s) : s \in (SUBSET S) \ G}
  <1>1. \A s \in SUBSET S : IsFiniteSet(s) /\ Cardinality(s) \in Nat
    BY FS_Subset, FS_CardinalityType
  <1>2. ASSUME sizes # {}
        PROVE  FALSE
    <2>1. sizes \in SUBSET Nat
      BY <1>1
    <2>2. PICK n \in sizes : \A m \in sizes : n <= m
      BY <1>2, <2>1, Least
    <2>3. PICK s \in (SUBSET S) \ G : n = Cardinality(s)
      BY <2>2
    <2>4. s # {} /\ First(s) \in s
      BY <2>3, FirstIn
    <2>5. Cardinality(s \ {First(s)}) = n - 1 /\ n \in Nat
      BY <1>1, <2>3, <2>4, FS_RemoveElement
    <2>6. s \ {First(s)} \in G
      BY <2>2, <2>5, <2>3
    <2> QED
      BY <2>3, <2>4, <2>6
  <1> QED
    BY <1>2

-----------------------------------------------------------------------------
(* Sums of a function over a finite domain *)

\* What the folds compute: the sum over every subset of S.
Step(f, g, s) == IF s = {} THEN 0 ELSE f[First(s)] + g[s \ {First(s)}]

Sums(f, S) == CHOOSE g : g = [s \in SUBSET S |-> Step(f, g, s)]

SumOf(f) == Sums(f, DOMAIN f)[DOMAIN f]

\* The fold of a function with + is that sum.
LEMMA FoldIsSum == ASSUME NEW f PROVE FoldFunction(+, 0, f) = SumOf(f)
  BY DEF FoldFunction, MapThenFoldSet, FoldFunctionOnSet, SumOf, Sums, Step, First

\* The sums exist: on the subsets of every size, since those of size n + 1
\* are given by those of size n.
LEMMA SumsExist ==
    ASSUME NEW S, IsFiniteSet(S), NEW f
    PROVE  Sums(f, S) = [s \in SUBSET S |-> Step(f, Sums(f, S), s)]
  <1> DEFINE upto(n) == {s \in SUBSET S : Cardinality(s) <= n}
             Given(n, g) == g = [s \in upto(n) |-> Step(f, g, s)]
             bad == {n \in Nat : ~\E g : Given(n, g)}
  <1>1. \A s \in SUBSET S : IsFiniteSet(s) /\ Cardinality(s) \in Nat
    BY FS_Subset, FS_CardinalityType
  <1>2. \E g : Given(0, g)
    <2> DEFINE g == [s \in upto(0) |-> 0]
    <2>1. \A s \in upto(0) : s = {}
      BY <1>1, FS_EmptySet
    <2>2. Given(0, g)
      BY <2>1 DEF Step
    <2> QED
      BY <2>2
  <1>3. ASSUME NEW n \in Nat, NEW g, Given(n, g)
        PROVE  \E h : Given(n + 1, h)
    <2> DEFINE h == [s \in upto(n + 1) |-> Step(f, g, s)]
    <2>1. ASSUME NEW s \in upto(n + 1), s # {}
          PROVE  /\ s \ {First(s)} \in upto(n)
                 /\ s \ {First(s)} \in upto(n + 1)
      BY <1>1, <2>1, FS_RemoveElement, FirstIn
    <2>2. ASSUME NEW s \in upto(n)
          PROVE  s \in upto(n + 1) /\ h[s] = g[s]
      BY <1>1, <1>3
    <2>3. ASSUME NEW s \in upto(n + 1)
          PROVE  Step(f, g, s) = Step(f, h, s)
      BY <2>1, <2>2 DEF Step
    <2>4. Given(n + 1, h)
      BY <2>3
    <2> QED
      BY <2>4
  <1>4. bad = {}
    <2> SUFFICES ASSUME bad # {} PROVE FALSE
      OBVIOUS
    <2>1. PICK n \in bad : \A m \in bad : n <= m
      <3>1. bad \in SUBSET Nat
        OBVIOUS
      <3> HIDE DEF bad
      <3> QED
        BY <3>1, Least
    <2>2. n # 0
      BY <1>2
    <2>3. n - 1 \in Nat /\ n - 1 \notin bad
      <3>1. n \in Nat
        OBVIOUS
      <3>2. n - 1 \in Nat /\ n - 1 < n
        BY <2>2, <3>1
      <3> HIDE DEF bad
      <3> QED
        BY <2>1, <3>1, <3>2
    <2>4. PICK g : Given(n - 1, g)
      BY <2>3
    <2>5. \E h : Given((n - 1) + 1, h)
      <3> HIDE DEF Given
      <3> QED
        BY <1>3, <2>3, <2>4
    <2>6. (n - 1) + 1 = n
      BY <2>3
    <2> QED
      BY <2>5, <2>6
  <1>5. Cardinality(S) \in Nat /\ upto(Cardinality(S)) = SUBSET S
    BY FS_Subset, FS_CardinalityType
  <1>6. PICK g : g = [s \in SUBSET S |-> Step(f, g, s)]
    <2>1. \E g : Given(Cardinality(S), g)
      BY <1>4, <1>5
    <2>2. PICK g : g = [s \in upto(Cardinality(S)) |-> Step(f, g, s)]
      BY <2>1
    <2>3. g = [s \in SUBSET S |-> Step(f, g, s)]
      <3> HIDE DEF upto
      <3> QED
        BY <1>5, <2>2
    <2> QED
      BY <2>3
  <1> QED
    BY <1>6 DEF Sums

\* The equations of the sums.
LEMMA SumStep ==
    ASSUME NEW S, IsFiniteSet(S), NEW f
    PROVE  /\ Sums(f, S)[{}] = 0
           /\ \A s \in SUBSET S : s # {} =>
                 /\ First(s) \in s /\ s \ {First(s)} \in SUBSET S
                 /\ Sums(f, S)[s] = f[First(s)] + Sums(f, S)[s \ {First(s)}]
  <1>1. \A s \in SUBSET S : Sums(f, S)[s] = Step(f, Sums(f, S), s)
    <2> DEFINE g == Sums(f, S)
    <2>1. g = [s \in SUBSET S |-> Step(f, g, s)]
      BY SumsExist
    <2> HIDE DEF g
    <2>2. \A s \in SUBSET S : g[s] = Step(f, g, s)
      BY <2>1, Zenon
    <2> QED
      BY <2>2 DEF g
  <1>2. \A s \in SUBSET S : s # {} => First(s) \in s /\ s \ {First(s)} \in SUBSET S
    BY FirstIn
  <1> QED
    BY <1>1, <1>2 DEF Step

\* A sum of integers is one.
LEMMA SumsType ==
    ASSUME NEW S, IsFiniteSet(S), NEW f \in [S -> Int]
    PROVE  \A s \in SUBSET S : Sums(f, S)[s] \in Int
  <1> DEFINE G == {s \in SUBSET S : Sums(f, S)[s] \in Int}
  <1>1. {} \in G
    BY SumStep
  <1>2. ASSUME NEW s \in SUBSET S, s # {}, s \ {First(s)} \in G
        PROVE  s \in G
    BY <1>2, SumStep
  <1>3. G = SUBSET S
    <2> HIDE DEF G
    <2>1. G \in SUBSET (SUBSET S)
      BY DEF G
    <2> QED
      BY <1>1, <1>2, <2>1, AllSubsets
  <1> QED
    BY <1>3

\* ... and so is the sum of all of them.
LEMMA SumType ==
    ASSUME NEW S, IsFiniteSet(S), NEW f \in [S -> Int]
    PROVE  SumOf(f) \in Int
  BY SumsType DEF SumOf

\* A sum of natural numbers is one, and no less than any of its terms.
LEMMA SumNat ==
    ASSUME NEW S, IsFiniteSet(S), NEW f \in [S -> Nat]
    PROVE  SumOf(f) \in Nat /\ \A x \in S : f[x] <= SumOf(f)
  <1> DEFINE G == {s \in SUBSET S : /\ Sums(f, S)[s] \in Nat
                                   /\ \A x \in s : f[x] <= Sums(f, S)[s]}
  <1>1. {} \in G
    BY SumStep
  <1>2. ASSUME NEW s \in SUBSET S, s # {}, s \ {First(s)} \in G
        PROVE  s \in G
    <2> DEFINE r == s \ {First(s)}
    <2>1. /\ First(s) \in s /\ Sums(f, S)[s] = f[First(s)] + Sums(f, S)[r]
          /\ Sums(f, S)[r] \in Nat /\ \A x \in r : f[x] <= Sums(f, S)[r]
      <3>1. First(s) \in s /\ Sums(f, S)[s] = f[First(s)] + Sums(f, S)[r]
        BY <1>2, SumStep
      <3>2. Sums(f, S)[r] \in Nat /\ \A x \in r : f[x] <= Sums(f, S)[r]
        BY <1>2
      <3> QED
        BY <3>1, <3>2
    <2>2. ASSUME NEW x \in s
          PROVE  f[x] <= Sums(f, S)[s]
      <3>1. f[x] \in Nat /\ f[First(s)] \in Nat
        BY <2>1
      <3>2. CASE x = First(s)
        BY <2>1, <3>1, <3>2
      <3>3. CASE x \in r
        BY <2>1, <3>1, <3>3
      <3> QED
        BY <3>2, <3>3
    <2> QED
      BY <2>1, <2>2
  <1>3. G = SUBSET S
    <2> HIDE DEF G
    <2>1. G \in SUBSET (SUBSET S)
      BY DEF G
    <2> QED
      BY <1>1, <1>2, <2>1, AllSubsets
  <1>4. S \in G
    BY <1>3
  <1> QED
    BY <1>4 DEF SumOf

\* A change of one term changes the sum by as much.
LEMMA SumUpdate ==
    ASSUME NEW S, IsFiniteSet(S), NEW f \in [S -> Int], NEW g \in [S -> Int],
           NEW x \in S, \A y \in S \ {x} : g[y] = f[y]
    PROVE  SumOf(g) = SumOf(f) + g[x] - f[x]
  <1> DEFINE d(s) == IF x \in s THEN g[x] - f[x] ELSE 0
             G == {s \in SUBSET S : Sums(g, S)[s] = Sums(f, S)[s] + d(s)}
  <1>1. {} \in G
    BY SumStep
  <1>2. ASSUME NEW s \in SUBSET S, s # {}, s \ {First(s)} \in G
        PROVE  s \in G
    <2> DEFINE i == First(s)
               r == s \ {i}
    <2>1. /\ i \in s /\ r \in SUBSET S
          /\ Sums(g, S)[s] = g[i] + Sums(g, S)[r]
          /\ Sums(f, S)[s] = f[i] + Sums(f, S)[r]
      BY <1>2, SumStep
    <2>2. Sums(g, S)[r] = Sums(f, S)[r] + d(r)
      BY <1>2
    <2>3. Sums(f, S)[r] \in Int /\ f[i] \in Int /\ g[i] \in Int /\ f[x] \in Int /\ g[x] \in Int
      BY <2>1, SumsType
    <2>4. CASE i = x
      <3>1. d(r) = 0 /\ d(s) = g[i] - f[i]
        BY <2>1, <2>4
      <3> HIDE DEF d, r, i
      <3>2. Sums(g, S)[s] = Sums(f, S)[s] + d(s)
        BY <2>1, <2>2, <2>3, <3>1
      <3> QED
        BY <3>2
    <2>5. CASE i # x
      <3>1. d(r) = d(s) /\ f[i] = g[i] /\ d(s) \in Int
        BY <2>1, <2>3, <2>5
      <3> HIDE DEF d, r, i
      <3>2. Sums(g, S)[s] = Sums(f, S)[s] + d(s)
        BY <2>1, <2>2, <2>3, <3>1
      <3> QED
        BY <3>2
    <2> QED
      BY <2>4, <2>5
  <1>3. G = SUBSET S
    <2> HIDE DEF G
    <2>1. G \in SUBSET (SUBSET S)
      BY DEF G
    <2> QED
      BY <1>1, <1>2, <2>1, AllSubsets
  <1>4. Sums(g, S)[S] = Sums(f, S)[S] + (g[x] - f[x])
    BY <1>3
  <1>5. Sums(f, S)[S] \in Int /\ f[x] \in Int /\ g[x] \in Int
    BY SumsType
  <1> QED
    BY <1>4, <1>5 DEF SumOf

\* A sum of zeros is zero.
LEMMA SumZero ==
    ASSUME NEW S, IsFiniteSet(S), NEW f \in [S -> Int], \A x \in S : f[x] = 0
    PROVE  SumOf(f) = 0
  <1> DEFINE G == {s \in SUBSET S : Sums(f, S)[s] = 0}
  <1>1. {} \in G
    BY SumStep
  <1>2. ASSUME NEW s \in SUBSET S, s # {}, s \ {First(s)} \in G
        PROVE  s \in G
    BY <1>2, SumStep
  <1>3. G = SUBSET S
    <2> HIDE DEF G
    <2>1. G \in SUBSET (SUBSET S)
      BY DEF G
    <2> QED
      BY <1>1, <1>2, <2>1, AllSubsets
  <1> QED
    BY <1>3 DEF SumOf

\* The sum of a function that is zero but at one point.
LEMMA SumSingle ==
    ASSUME NEW S, IsFiniteSet(S), NEW f \in [S -> Int], NEW x \in S,
           \A y \in S \ {x} : f[y] = 0
    PROVE  SumOf(f) = f[x]
  <1> DEFINE z == [y \in S |-> 0]
  <1>1. SumOf(z) = 0 /\ z \in [S -> Int]
    BY SumZero
  <1>2. \A y \in S \ {x} : f[y] = z[y]
    OBVIOUS
  <1>3. SumOf(f) = SumOf(z) + f[x] - z[x]
    <2> HIDE DEF z
    <2> QED
      BY <1>1, <1>2, SumUpdate
  <1>4. f[x] \in Int /\ z[x] = 0
    OBVIOUS
  <1> QED
    BY <1>1, <1>3, <1>4
=============================================================================
