------------------------------ MODULE FiniteSums -------------------------------
(***************************************************************************)
(* Induction over finite sets, stated for a set of sets so that it can be  *)
(* cited, and what SumFunction returns.                                    *)
(***************************************************************************)
EXTENDS FiniteSetTheorems, FiniteSets, Functions, TLAPS

-----------------------------------------------------------------------------
(* Induction.                                                              *)

LEMMA LeastNatural ==
    ASSUME NEW T \in SUBSET Nat, T # {}
    PROVE  \E n \in T : \A m \in T : n <= m
<1>1. \E n \in T : \A m \in T : <<m, n>> \notin OpToRel(<, Nat)
  BY NatLessThanWellFounded, WFMin
<1>2. \A m, n \in Nat : <<m, n>> \notin OpToRel(<, Nat) => n <= m
  BY DEF OpToRel
<1>. QED
  BY <1>1, <1>2

\* A property that the empty set has, and that a set has when it has it
\* without one of its elements.
LEMMA FiniteInduction ==
    ASSUME NEW S, IsFiniteSet(S),
           NEW Good \in SUBSET (SUBSET S),
           {} \in Good,
           \A T \in SUBSET S : (T # {} /\ \A x \in T : T \ {x} \in Good) => T \in Good
    PROVE  \A T \in SUBSET S : T \in Good
<1>. SUFFICES ASSUME NEW B \in SUBSET S, B \notin Good PROVE FALSE
  OBVIOUS
<1>. DEFINE Bad == {T \in SUBSET S : T \notin Good}
            Sizes == {Cardinality(T) : T \in Bad}
<1>1. \A T \in SUBSET S : IsFiniteSet(T) /\ Cardinality(T) \in Nat
  BY FS_Subset, FS_CardinalityType
<1>2. Sizes \in SUBSET Nat /\ Sizes # {}
  BY <1>1
<1>3. PICK T \in Bad : \A U \in Bad : Cardinality(T) <= Cardinality(U)
  <2>. HIDE DEF Sizes, Bad
  <2>1. PICK n \in Sizes : \A m \in Sizes : n <= m
    BY <1>2, LeastNatural
  <2>. QED
    BY <2>1 DEF Sizes
<1>4. ASSUME NEW x \in T PROVE T \ {x} \in Good
  <2>1. Cardinality(T \ {x}) = Cardinality(T) - 1
    BY <1>1, FS_RemoveElement
  <2>. QED
    BY <1>1, <1>3, <2>1
<1>. QED
  BY <1>3, <1>4

-----------------------------------------------------------------------------
(* Sums.                                                                   *)

\* The partial sums that SumFunction is computed from.
Pick(s) == CHOOSE x \in s : TRUE
Step(f, g, s) == IF s = {} THEN 0 ELSE f[Pick(s)] + g[s \ {Pick(s)}]
Partial(f, g, sets) == g = [s \in sets |-> Step(f, g, s)]

Upto(S, n) == {s \in SUBSET S : Cardinality(s) <= n}

LEMMA PickIsIn == \A s : s # {} => Pick(s) \in s
  BY DEF Pick

LEMMA StepDown ==
    ASSUME NEW S, IsFiniteSet(S), NEW n \in Nat, NEW s \in Upto(S, n + 1), s # {}
    PROVE  s \ {Pick(s)} \in Upto(S, n)
<1>1. IsFiniteSet(s) /\ Cardinality(s) \in Nat /\ Cardinality(s) <= n + 1
  BY FS_Subset, FS_CardinalityType DEF Upto
<1>2. Cardinality(s \ {Pick(s)}) = Cardinality(s) - 1
  BY <1>1, PickIsIn, FS_RemoveElement
<1>. QED
  BY <1>1, <1>2 DEF Upto

\* The partial sums of the small subsets extend to the larger ones.
LEMMA PartialGrows ==
    ASSUME NEW S, IsFiniteSet(S), NEW f, NEW n \in Nat, NEW g, Partial(f, g, Upto(S, n))
    PROVE  \E h : Partial(f, h, Upto(S, n + 1))
<1>. DEFINE h == [s \in Upto(S, n + 1) |-> Step(f, g, s)]
<1>1. \A s \in Upto(S, n) : s \in Upto(S, n + 1)
  <2>1. \A s \in SUBSET S : Cardinality(s) \in Nat
    BY FS_Subset, FS_CardinalityType
  <2>. QED
    BY <2>1 DEF Upto
<1>2. \A s \in Upto(S, n) : g[s] = h[s]
  BY <1>1 DEF Partial
<1>3. ASSUME NEW s \in Upto(S, n + 1) PROVE Step(f, h, s) = Step(f, g, s)
  <2>. HIDE DEF h
  <2>1. CASE s = {}
    BY <2>1 DEF Step
  <2>2. CASE s # {}
    <3>1. g[s \ {Pick(s)}] = h[s \ {Pick(s)}]
      BY <1>2, <2>2, StepDown
    <3>. QED
      BY <2>2, <3>1 DEF Step
  <2>. QED
    BY <2>1, <2>2
<1>4. h = [s \in Upto(S, n + 1) |-> Step(f, h, s)]
  BY <1>3
<1>. QED
  BY <1>4 DEF Partial

LEMMA PartialExists ==
    ASSUME NEW S, IsFiniteSet(S), NEW f
    PROVE  \E g : Partial(f, g, SUBSET S)
<1>. DEFINE Lacking == {n \in Nat : ~\E g : Partial(f, g, Upto(S, n))}
<1>1. \A s \in SUBSET S : IsFiniteSet(s) /\ Cardinality(s) \in Nat /\ Cardinality(s) <= Cardinality(S)
  BY FS_Subset, FS_CardinalityType
<1>2. 0 \notin Lacking
  <2>. DEFINE g == [s \in Upto(S, 0) |-> 0]
  <2>1. \A s \in Upto(S, 0) : s = {}
    BY <1>1, FS_EmptySet DEF Upto
  <2>2. g = [s \in Upto(S, 0) |-> Step(f, g, s)]
    BY <2>1 DEF Step
  <2>. QED
    BY <2>2 DEF Partial
<1>3. Lacking = {}
  <2>. SUFFICES ASSUME Lacking # {} PROVE FALSE
    OBVIOUS
  <2>1. \E n \in Lacking : \A m \in Lacking : n <= m
    <3>1. Lacking \in SUBSET Nat
      OBVIOUS
    <3>. HIDE DEF Lacking
    <3>. QED
      BY <3>1, LeastNatural
  <2>2. PICK n \in Lacking : \A m \in Lacking : n <= m
    BY <2>1
  <2>3. n - 1 \in Nat
    BY <1>2, <2>2
  <2>4. n - 1 \notin Lacking
    BY <2>2
  <2>5. PICK g : Partial(f, g, Upto(S, n - 1))
    BY <2>3, <2>4
  <2>6. \E h : Partial(f, h, Upto(S, (n - 1) + 1))
    BY <2>3, <2>5, PartialGrows
  <2>7. (n - 1) + 1 = n
    BY <2>2
  <2>. QED
    BY <2>2, <2>6, <2>7
<1>4. \E g : Partial(f, g, Upto(S, Cardinality(S)))
  BY <1>1, <1>3
<1>5. Upto(S, Cardinality(S)) = SUBSET S
  BY <1>1 DEF Upto
<1>. QED
  BY <1>4, <1>5

\* What SumFunction is computed from.
PartialOf(f) == CHOOSE g : Partial(f, g, SUBSET DOMAIN f)

LEMMA SumUnfolds ==
    ASSUME NEW f, IsFiniteSet(DOMAIN f)
    PROVE  /\ SumFunction(f) = PartialOf(f)[DOMAIN f]
           /\ Partial(f, PartialOf(f), SUBSET DOMAIN f)
<1>1. Partial(f, PartialOf(f), SUBSET DOMAIN f)
  BY PartialExists DEF PartialOf
<1>2. SumFunction(f) = PartialOf(f)[DOMAIN f]
  BY DEF SumFunction, SumFunctionOnSet, FoldFunctionOnSet, MapThenFoldSet, PartialOf, Partial,
         Step, Pick
<1>. QED
  BY <1>1, <1>2


\* Sums of naturals are naturals.
LEMMA SumIsNatural ==
    ASSUME NEW S, IsFiniteSet(S), NEW f \in [S -> Nat]
    PROVE  SumFunction(f) \in Nat
<1>. DEFINE g == PartialOf(f)
            Good == {s \in SUBSET S : g[s] \in Nat}
<1>1. SumFunction(f) = g[S] /\ Partial(f, g, SUBSET S)
  BY SumUnfolds
<1>. HIDE DEF g
<1>2. {} \in Good
  BY <1>1 DEF Partial, Step
<1>3. ASSUME NEW s \in SUBSET S, s # {}, \A x \in s : s \ {x} \in Good PROVE s \in Good
  <2>1. g[s] = f[Pick(s)] + g[s \ {Pick(s)}]
    BY <1>1, <1>3 DEF Partial, Step
  <2>2. Pick(s) \in S /\ s \ {Pick(s)} \in Good
    BY <1>3, PickIsIn
  <2>. QED
    BY <2>1, <2>2
<1>4. S \in Good
  <2>1. Good \in SUBSET (SUBSET S)
    OBVIOUS
  <2>. HIDE DEF Good
  <2>2. \A T \in SUBSET S : T \in Good
    BY <1>2, <1>3, <2>1, FiniteInduction
  <2>. QED
    BY <2>2
<1>. QED
  BY <1>1, <1>4

\* A sum of nothing but zeros.
LEMMA SumOfZeros ==
    ASSUME NEW S, IsFiniteSet(S), NEW f, DOMAIN f = S, \A x \in S : f[x] = 0
    PROVE  SumFunction(f) = 0
<1>. DEFINE g == PartialOf(f)
            Good == {s \in SUBSET S : g[s] = 0}
<1>1. SumFunction(f) = g[S] /\ Partial(f, g, SUBSET S)
  BY SumUnfolds
<1>. HIDE DEF g
<1>2. {} \in Good
  BY <1>1 DEF Partial, Step
<1>3. ASSUME NEW s \in SUBSET S, s # {}, \A x \in s : s \ {x} \in Good PROVE s \in Good
  <2>1. g[s] = f[Pick(s)] + g[s \ {Pick(s)}]
    BY <1>1, <1>3 DEF Partial, Step
  <2>2. Pick(s) \in S /\ s \ {Pick(s)} \in Good
    BY <1>3, PickIsIn
  <2>. QED
    BY <2>1, <2>2
<1>4. S \in Good
  <2>1. Good \in SUBSET (SUBSET S)
    OBVIOUS
  <2>. HIDE DEF Good
  <2>2. \A T \in SUBSET S : T \in Good
    BY <1>2, <1>3, <2>1, FiniteInduction
  <2>. QED
    BY <2>2
<1>. QED
  BY <1>1, <1>4

\* A sum grows by at most one when one of its terms does and no other grows.
LEMMA SumGrowsByOne ==
    ASSUME NEW S, IsFiniteSet(S), NEW f \in [S -> Nat], NEW h \in [S -> Nat], NEW a,
           a \in S => h[a] <= f[a] + 1, \A x \in S \ {a} : h[x] <= f[x]
    PROVE  SumFunction(h) <= SumFunction(f) + 1 /\ (a \notin S => SumFunction(h) <= SumFunction(f))
<1>. DEFINE g == PartialOf(f)
            k == PartialOf(h)
            Good == {s \in SUBSET S : /\ g[s] \in Nat /\ k[s] \in Nat
                                      /\ k[s] <= g[s] + 1
                                      /\ a \notin s => k[s] <= g[s]}
<1>1. /\ SumFunction(f) = g[S] /\ Partial(f, g, SUBSET S)
      /\ SumFunction(h) = k[S] /\ Partial(h, k, SUBSET S)
  BY SumUnfolds
<1>. HIDE DEF g, k
<1>2. {} \in Good
  BY <1>1 DEF Partial, Step
<1>3. ASSUME NEW s \in SUBSET S, s # {}, \A x \in s : s \ {x} \in Good PROVE s \in Good
  <2>1. /\ g[s] = f[Pick(s)] + g[s \ {Pick(s)}]
        /\ k[s] = h[Pick(s)] + k[s \ {Pick(s)}]
    BY <1>1, <1>3 DEF Partial, Step
  <2>2. Pick(s) \in s /\ s \ {Pick(s)} \in Good
    BY <1>3, PickIsIn
  <2>3. CASE Pick(s) = a
    BY <2>1, <2>2, <2>3
  <2>4. CASE Pick(s) # a
    BY <2>1, <2>2, <2>4
  <2>. QED
    BY <2>3, <2>4
<1>4. S \in Good
  <2>1. Good \in SUBSET (SUBSET S)
    OBVIOUS
  <2>. HIDE DEF Good
  <2>2. \A T \in SUBSET S : T \in Good
    BY <1>2, <1>3, <2>1, FiniteInduction
  <2>. QED
    BY <2>2
<1>. QED
  BY <1>1, <1>4

\* The sum is monotone.
LEMMA SumIsMonotone ==
    ASSUME NEW S, IsFiniteSet(S), NEW f \in [S -> Nat], NEW h \in [S -> Nat],
           \A x \in S : h[x] <= f[x]
    PROVE  SumFunction(h) <= SumFunction(f)
<1>. DEFINE outside == {x \in S : x \notin x}
<1>1. outside \notin S
  OBVIOUS
<1>. HIDE DEF outside
<1>. QED
  BY <1>1, SumGrowsByOne

=============================================================================
