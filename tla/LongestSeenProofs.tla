-------------------------- MODULE LongestSeenProofs --------------------------
(***************************************************************************)
(* That none of the three limits of LongestSeen costs anything, for any    *)
(* number of backends, statements and ticks.                               *)
(*                                                                         *)
(* The map may have lost an execution, or may know it by a sighting that   *)
(* is too short.  The inductive invariant says what makes up for it: as    *)
(* many executions as a drain returns, each at least as long as the one    *)
(* that is missing ever was.                                               *)
(***************************************************************************)
EXTENDS LongestSeen, FiniteSetTheorems, TLAPS

-----------------------------------------------------------------------------
(* The inductive invariant.                                                *)

\* An execution is in the map at its longest, or is not needed.
Accounted(map, full) ==
    \A e \in DOMAIN full : \/ e \in DOMAIN map /\ map[e] = full[e]
                           \/ AtLeast(map, full[e]) >= TOP_N

NoLongerThan(map, full) == \A e \in DOMAIN map : e \in DOMAIN full /\ map[e] <= full[e]

\* The rows that Fetch makes of sightings.
RowsOf(map) == {Row(e, map[e]) : e \in DOMAIN map}

\* What a tick holds are the longest of what was executing.
FetchedLongest ==
    fetched # None =>
        /\ IsSightings(fetched.all) /\ IsFiniteSet(DOMAIN fetched.all)
        /\ \E longest \in LongestOf(fetched.all, FETCH) :
              fetched.rows = RowsOf(longest)

Inv ==
    /\ TypeOK
    /\ IsFiniteSet(DOMAIN running) /\ IsFiniteSet(DOMAIN state) /\ IsFiniteSet(DOMAIN worst)
    /\ FetchedLongest
    /\ NoLongerThan(state, worst)
    /\ Accounted(state, worst)

-----------------------------------------------------------------------------
(* Maps and the longest of them.                                           *)

Sightings(map) == IsSightings(map) /\ IsFiniteSet(DOMAIN map)

LEMMA LongestOfIs ==
    ASSUME NEW map, Sightings(map), NEW n \in Nat, NEW kept \in LongestOf(map, n)
    PROVE  /\ Sightings(kept) /\ DOMAIN kept \subseteq DOMAIN map
           /\ \A e \in DOMAIN kept : kept[e] = map[e]
           /\ Cardinality(DOMAIN kept) \in Nat /\ Cardinality(DOMAIN kept) <= n
           /\ DOMAIN kept = DOMAIN map \/ Cardinality(DOMAIN kept) = n
           /\ \A e \in DOMAIN kept, other \in DOMAIN map \ DOMAIN kept : map[e] >= map[other]
<1>. DEFINE all == Cardinality(DOMAIN map)
            size == IF all < n THEN all ELSE n
<1>1. all \in Nat /\ size \in Nat /\ size <= n
  BY FS_CardinalityType DEF Sightings
<1>2. PICK k \in SUBSET DOMAIN map :
         /\ kept = Restrict(map, k) /\ Cardinality(k) = size
         /\ \A e \in k, other \in DOMAIN map \ k : map[e] >= map[other]
  BY DEF LongestOf, kSubset
<1>3. DOMAIN kept = k /\ \A e \in k : kept[e] = map[e]
  BY <1>2 DEF Restrict
<1>4. IsFiniteSet(k) /\ (size = all => k = DOMAIN map)
  BY <1>2, FS_Subset DEF Sightings
<1>5. Sightings(kept)
  BY <1>2, <1>3, <1>4 DEF Sightings, IsSightings
<1>6. size = all \/ size = n
  OBVIOUS
<1>. QED
  BY <1>1, <1>2, <1>3, <1>4, <1>5, <1>6

\* How many executions were seen for so long.
LEMMA AtLeastIs ==
    ASSUME NEW map, Sightings(map), NEW age
    PROVE  /\ IsFiniteSet({e \in DOMAIN map : map[e] >= age})
           /\ AtLeast(map, age) \in Nat /\ AtLeast(map, age) <= Cardinality(DOMAIN map)
<1>. DEFINE old == {e \in DOMAIN map : map[e] >= age}
<1>1. old \in SUBSET DOMAIN map
  OBVIOUS
<1>. HIDE DEF old
<1>2. IsFiniteSet(old) /\ Cardinality(old) <= Cardinality(DOMAIN map)
  BY <1>1, FS_Subset DEF Sightings
<1>3. Cardinality(old) \in Nat
  BY <1>2, FS_CardinalityType
<1>. QED
  BY <1>2, <1>3 DEF AtLeast, old

\* A map that holds more, or holds it longer, has as many.
LEMMA AtLeastGrows ==
    ASSUME NEW map, Sightings(map), NEW more, Sightings(more), NEW age \in Nat,
           \A e \in DOMAIN map : map[e] >= age => e \in DOMAIN more /\ more[e] >= age
    PROVE  AtLeast(map, age) <= AtLeast(more, age)
<1>. DEFINE old == {e \in DOMAIN map : map[e] >= age}
            older == {e \in DOMAIN more : more[e] >= age}
<1>1. old \in SUBSET older /\ IsFiniteSet(older)
  BY AtLeastIs
<1>. HIDE DEF old, older
<1>2. Cardinality(old) <= Cardinality(older)
  BY <1>1, FS_Subset
<1>. QED
  BY <1>2 DEF AtLeast, old, older

LEMMA AtLeastMonotone ==
    ASSUME NEW map, Sightings(map), NEW age \in Nat, NEW older \in Nat, age <= older
    PROVE  AtLeast(map, older) <= AtLeast(map, age)
<1>. DEFINE few == {e \in DOMAIN map : map[e] >= older}
            many == {e \in DOMAIN map : map[e] >= age}
<1>1. \A e \in DOMAIN map : map[e] \in Nat
  BY DEF Sightings, IsSightings
<1>2. few \in SUBSET many /\ IsFiniteSet(many)
  BY <1>1, AtLeastIs
<1>. HIDE DEF few, many
<1>3. Cardinality(few) <= Cardinality(many)
  BY <1>2, FS_Subset
<1>. QED
  BY <1>3 DEF AtLeast, few, many

LEMMA AtLeastOfSet ==
    ASSUME NEW map, Sightings(map), NEW age, NEW set \in SUBSET DOMAIN map,
           \A e \in set : map[e] >= age
    PROVE  Cardinality(set) <= AtLeast(map, age)
<1>. DEFINE old == {e \in DOMAIN map : map[e] >= age}
<1>1. set \in SUBSET old /\ IsFiniteSet(old)
  BY AtLeastIs
<1>. HIDE DEF old
<1>2. Cardinality(set) <= Cardinality(old)
  BY <1>1, FS_Subset
<1>. QED
  BY <1>2 DEF AtLeast, old

\* Of the executions that are long enough, the longest n of a map leave none
\* out unless all n of them are.
LEMMA TrimmingCostsNothing ==
    ASSUME NEW map, Sightings(map), NEW n \in Nat, NEW kept \in LongestOf(map, n),
           NEW age \in Nat, NEW m \in Nat, m <= n, AtLeast(map, age) >= m
    PROVE  AtLeast(kept, age) >= m
<1>1. /\ Sightings(kept) /\ DOMAIN kept \subseteq DOMAIN map
      /\ \A e \in DOMAIN kept : kept[e] = map[e]
      /\ DOMAIN kept = DOMAIN map \/ Cardinality(DOMAIN kept) = n
      /\ \A e \in DOMAIN kept, other \in DOMAIN map \ DOMAIN kept : map[e] >= map[other]
  BY LongestOfIs
<1>2. AtLeast(kept, age) \in Nat /\ AtLeast(map, age) \in Nat
  BY <1>1, AtLeastIs
<1>3. CASE \A e \in DOMAIN map : map[e] >= age => e \in DOMAIN kept
  <2>1. AtLeast(map, age) <= AtLeast(kept, age)
    BY <1>1, <1>3, AtLeastGrows
  <2>. QED
    BY <1>2, <2>1
<1>4. ASSUME NEW other \in DOMAIN map \ DOMAIN kept, map[other] >= age
      PROVE  AtLeast(kept, age) >= m
  <2>1. \A e \in DOMAIN map : map[e] \in Nat
    BY DEF Sightings, IsSightings
  <2>2. \A e \in DOMAIN kept : kept[e] >= age
    BY <1>1, <1>4, <2>1
  <2>3. Cardinality(DOMAIN kept) = n
    BY <1>1, <1>4
  <2>4. n <= AtLeast(kept, age)
    BY <1>1, <2>2, <2>3, AtLeastOfSet
  <2>. QED
    BY <1>2, <2>4
<1>. QED
  BY <1>3, <1>4

\* What is left out is no longer than n others.
LEMMA LeftOut ==
    ASSUME NEW map, Sightings(map), NEW n \in Nat, NEW kept \in LongestOf(map, n),
           NEW other \in DOMAIN map \ DOMAIN kept
    PROVE  AtLeast(kept, map[other]) >= n
<1>1. /\ Sightings(kept) /\ DOMAIN kept \subseteq DOMAIN map
      /\ \A e \in DOMAIN kept : kept[e] = map[e]
      /\ DOMAIN kept = DOMAIN map \/ Cardinality(DOMAIN kept) = n
      /\ \A e \in DOMAIN kept : map[e] >= map[other]
  BY LongestOfIs
<1>2. n <= AtLeast(kept, map[other])
  BY <1>1, AtLeastOfSet
<1>3. AtLeast(kept, map[other]) \in Nat
  BY <1>1, AtLeastIs
<1>. QED
  BY <1>2, <1>3

-----------------------------------------------------------------------------
(* Folding the rows of a tick into the map.                                *)

LEMMA MaxOfOneOrTwo ==
    ASSUME NEW a \in Nat, NEW b \in Nat
    PROVE  Max({a, b}) = (IF a >= b THEN a ELSE b) /\ Max({a}) = a
<1>1. \A S : (\E x \in S : \A y \in S : x >= y) =>
                 Max(S) \in S /\ \A y \in S : Max(S) >= y
  BY DEF Max
<1>2. Max({a, b}) \in {a, b} /\ \A y \in {a, b} : Max({a, b}) >= y
  <2>1. \E x \in {a, b} : \A y \in {a, b} : x >= y
    OBVIOUS
  <2>. QED
    BY <1>1, <2>1
<1>3. Max({a}) \in {a}
  <2>1. \E x \in {a} : \A y \in {a} : x >= y
    OBVIOUS
  <2>. QED
    BY <1>1, <2>1
<1>. QED
  BY <1>2, <1>3

\* The longer of what two maps say of an execution.
LongerOf(map, all, e) ==
    IF e \notin DOMAIN all THEN map[e]
    ELSE IF e \notin DOMAIN map THEN all[e]
    ELSE IF map[e] >= all[e] THEN map[e] ELSE all[e]

LEMMA WithAllIs ==
    ASSUME NEW map, Sightings(map), NEW all, Sightings(all)
    PROVE  /\ Sightings(WithAll(map, all))
           /\ DOMAIN WithAll(map, all) = DOMAIN map \cup DOMAIN all
           /\ \A e \in DOMAIN map \cup DOMAIN all :
                 WithAll(map, all)[e] = LongerOf(map, all, e)
<1>1. ASSUME NEW e \in DOMAIN map \cup DOMAIN all
      PROVE  WithAll(map, all)[e] = LongerOf(map, all, e)
  <2>. DEFINE seen == {m[e] : m \in {x \in {map, all} : e \in DOMAIN x}}
  <2>1. WithAll(map, all)[e] = Max(seen)
    BY DEF WithAll
  <2>2. /\ e \in DOMAIN map => map[e] \in Nat
        /\ e \in DOMAIN all => all[e] \in Nat
    BY DEF Sightings, IsSightings
  <2>3. CASE e \notin DOMAIN all
    <3>1. seen = {map[e]}
      BY <2>3
    <3>. QED
      BY <2>1, <2>2, <2>3, <3>1, MaxOfOneOrTwo DEF LongerOf
  <2>4. CASE e \notin DOMAIN map
    <3>1. seen = {all[e]}
      BY <2>4
    <3>. QED
      BY <2>1, <2>2, <2>4, <3>1, MaxOfOneOrTwo DEF LongerOf
  <2>5. CASE e \in DOMAIN map /\ e \in DOMAIN all
    <3>1. seen = {map[e], all[e]}
      BY <2>5
    <3>. QED
      BY <2>1, <2>2, <2>5, <3>1, MaxOfOneOrTwo DEF LongerOf
  <2>. QED
    BY <2>3, <2>4, <2>5
<1>2. DOMAIN WithAll(map, all) = DOMAIN map \cup DOMAIN all
  BY DEF WithAll
<1>3. IsFiniteSet(DOMAIN map \cup DOMAIN all)
  BY FS_Union DEF Sightings
<1>4. \A e \in DOMAIN map \cup DOMAIN all :
         e \in Execution /\ LongerOf(map, all, e) \in 1..MaxAge
  BY DEF Sightings, IsSightings, LongerOf
<1>. QED
  BY <1>1, <1>2, <1>3, <1>4 DEF Sightings, IsSightings

\* The rows of a tick fold into a map as the sightings they were made of.
LEMMA FoldedIs ==
    ASSUME NEW map, Sightings(map), NEW longest, Sightings(longest),
           NEW rows, rows = RowsOf(longest)
    PROVE  /\ Sightings(Folded(map, rows))
           /\ DOMAIN Folded(map, rows) = DOMAIN map \cup DOMAIN longest
           /\ \A e \in DOMAIN map \cup DOMAIN longest :
                 Folded(map, rows)[e] = LongerOf(map, longest, e)
<1>1. \A secs : \A e \in Execution : /\ ExecutionKey(Row(e, secs)) = e
                                    /\ Row(e, secs).running_secs = secs
  BY DEF Execution, ExecutionKey, Row
<1>2. \A e \in DOMAIN longest : e \in Execution
  BY DEF Sightings, IsSightings
<1>3. {ExecutionKey(row) : row \in rows} = DOMAIN longest
  BY <1>1, <1>2 DEF RowsOf
<1>4. DOMAIN Folded(map, rows) = DOMAIN map \cup DOMAIN longest
  BY <1>3 DEF Folded
<1>5. ASSUME NEW e \in DOMAIN map \cup DOMAIN longest
      PROVE  Folded(map, rows)[e] = LongerOf(map, longest, e)
  <2>. DEFINE held == {map[x] : x \in DOMAIN map \cap {e}}
              fetches == {row.running_secs : row \in {r \in rows : ExecutionKey(r) = e}}
  <2>1. Folded(map, rows)[e] = Max(held \cup fetches)
    BY <1>3 DEF Folded
  <2>2. held = IF e \in DOMAIN map THEN {map[e]} ELSE {}
    OBVIOUS
  <2>3. fetches = IF e \in DOMAIN longest THEN {longest[e]} ELSE {}
    BY <1>1, <1>2 DEF RowsOf
  <2>4. /\ e \in DOMAIN map => map[e] \in Nat
        /\ e \in DOMAIN longest => longest[e] \in Nat
    BY DEF Sightings, IsSightings
  <2>. HIDE DEF held, fetches
  <2>5. CASE e \notin DOMAIN longest
    <3>1. held \cup fetches = {map[e]}
      BY <2>2, <2>3, <2>5
    <3>. QED
      BY <2>1, <2>4, <2>5, <3>1, MaxOfOneOrTwo DEF LongerOf
  <2>6. CASE e \notin DOMAIN map
    <3>1. held \cup fetches = {longest[e]}
      BY <2>2, <2>3, <2>6
    <3>. QED
      BY <2>1, <2>4, <2>6, <3>1, MaxOfOneOrTwo DEF LongerOf
  <2>7. CASE e \in DOMAIN map /\ e \in DOMAIN longest
    <3>1. held \cup fetches = {map[e], longest[e]}
      BY <2>2, <2>3, <2>7
    <3>2. Max({map[e], longest[e]}) = IF map[e] >= longest[e] THEN map[e] ELSE longest[e]
      BY <2>4, <2>7, MaxOfOneOrTwo
    <3>. QED
      BY <2>1, <2>7, <3>1, <3>2 DEF LongerOf
  <2>. QED
    BY <2>5, <2>6, <2>7
<1>6. IsFiniteSet(DOMAIN map \cup DOMAIN longest)
  BY FS_Union DEF Sightings
<1>7. \A e \in DOMAIN map \cup DOMAIN longest :
         e \in Execution /\ LongerOf(map, longest, e) \in 1..MaxAge
  BY DEF Sightings, IsSightings, LongerOf
<1>. QED
  BY <1>4, <1>5, <1>6, <1>7 DEF Sightings, IsSightings

-----------------------------------------------------------------------------
(* A tick.                                                                 *)

\* What is fetched of a tick accounts for all that was executing.
LEMMA FoldingAccounts ==
    ASSUME NEW map, Sightings(map), NEW full, Sightings(full),
           NoLongerThan(map, full), Accounted(map, full),
           NEW all, Sightings(all), NEW longest \in LongestOf(all, FETCH),
           NEW rows, rows = RowsOf(longest)
    PROVE  /\ NoLongerThan(Folded(map, rows), WithAll(full, all))
           /\ Accounted(Folded(map, rows), WithAll(full, all))
<1>. DEFINE folded == Folded(map, rows)
            whole == WithAll(full, all)
<1>1. /\ Sightings(longest) /\ DOMAIN longest \subseteq DOMAIN all
      /\ \A e \in DOMAIN longest : longest[e] = all[e]
  BY LongestOfIs, LimitAssumption
<1>2. /\ Sightings(folded) /\ DOMAIN folded = DOMAIN map \cup DOMAIN longest
      /\ \A e \in DOMAIN map \cup DOMAIN longest : folded[e] = LongerOf(map, longest, e)
  BY <1>1, FoldedIs
<1>3. /\ Sightings(whole) /\ DOMAIN whole = DOMAIN full \cup DOMAIN all
      /\ \A e \in DOMAIN full \cup DOMAIN all : whole[e] = LongerOf(full, all, e)
  BY WithAllIs
<1>4. /\ \A e \in DOMAIN map : map[e] \in Nat
      /\ \A e \in DOMAIN full : full[e] \in Nat
      /\ \A e \in DOMAIN all : all[e] \in Nat
      /\ \A e \in DOMAIN longest : longest[e] \in Nat
  BY <1>1 DEF Sightings, IsSightings
<1>. HIDE DEF folded, whole
<1>5. NoLongerThan(folded, whole)
  BY <1>1, <1>2, <1>3, <1>4 DEF NoLongerThan, LongerOf
<1>6. ASSUME NEW age \in Nat
      PROVE  AtLeast(map, age) <= AtLeast(folded, age)
  <2>1. \A e \in DOMAIN map : e \in DOMAIN folded /\ folded[e] >= map[e]
    BY <1>2, <1>4 DEF LongerOf
  <2>2. \A e \in DOMAIN folded : folded[e] \in Nat
    BY <1>2 DEF Sightings, IsSightings
  <2>3. \A e \in DOMAIN map : map[e] >= age => e \in DOMAIN folded /\ folded[e] >= age
    BY <1>4, <2>1, <2>2
  <2>. QED
    BY <1>2, <2>3, AtLeastGrows
<1>7. ASSUME NEW e \in DOMAIN whole
      PROVE  \/ e \in DOMAIN folded /\ folded[e] = whole[e]
             \/ AtLeast(folded, whole[e]) >= TOP_N
  <2>1. CASE e \in DOMAIN full /\ whole[e] = full[e]
    <3>1. CASE e \in DOMAIN map /\ map[e] = full[e]
      BY <1>1, <1>2, <1>3, <1>4, <2>1, <3>1 DEF LongerOf
    <3>2. CASE AtLeast(map, full[e]) >= TOP_N
      <4>1. AtLeast(map, full[e]) <= AtLeast(folded, full[e])
        BY <1>4, <1>6, <2>1
      <4>2. AtLeast(map, full[e]) \in Nat /\ AtLeast(folded, full[e]) \in Nat
        BY <1>2, AtLeastIs
      <4>. QED
        BY <2>1, <3>2, <4>1, <4>2, LimitAssumption
    <3>. QED
      BY <2>1, <3>1, <3>2 DEF Accounted
  <2>2. CASE e \in DOMAIN all /\ whole[e] = all[e]
    <3>1. CASE e \in DOMAIN longest
      BY <1>1, <1>2, <1>3, <1>4, <2>2, <3>1 DEF LongerOf, NoLongerThan
    <3>2. CASE e \notin DOMAIN longest
      <4>1. AtLeast(longest, all[e]) >= FETCH
        BY <2>2, <3>2, LeftOut, LimitAssumption
      <4>2. \A x \in DOMAIN longest : x \in DOMAIN folded /\ folded[x] >= longest[x]
        BY <1>2, <1>4 DEF LongerOf
      <4>3. \A x \in DOMAIN folded : folded[x] \in Nat
        BY <1>2 DEF Sightings, IsSightings
      <4>4. AtLeast(longest, all[e]) <= AtLeast(folded, all[e])
        BY <1>1, <1>2, <1>4, <2>2, <4>2, <4>3, AtLeastGrows
      <4>5. AtLeast(longest, all[e]) \in Nat /\ AtLeast(folded, all[e]) \in Nat
        BY <1>1, <1>2, AtLeastIs
      <4>. QED
        BY <2>2, <4>1, <4>4, <4>5, LimitAssumption
    <3>. QED
      BY <3>1, <3>2
  <2>. QED
    BY <1>3, <2>1, <2>2 DEF LongerOf
<1>. QED
  BY <1>5, <1>7 DEF Accounted, folded, whole

\* What is dropped of the map is accounted for by what is kept.
LEMMA TrimmingAccounts ==
    ASSUME NEW map, Sightings(map), NEW full, Sightings(full),
           NoLongerThan(map, full), Accounted(map, full),
           NEW kept \in LongestOf(map, MAX_TRACKED)
    PROVE  NoLongerThan(kept, full) /\ Accounted(kept, full)
<1>1. /\ Sightings(kept) /\ DOMAIN kept \subseteq DOMAIN map
      /\ \A e \in DOMAIN kept : kept[e] = map[e]
  BY LongestOfIs, LimitAssumption
<1>2. NoLongerThan(kept, full)
  BY <1>1 DEF NoLongerThan
<1>3. ASSUME NEW e \in DOMAIN full
      PROVE  \/ e \in DOMAIN kept /\ kept[e] = full[e]
             \/ AtLeast(kept, full[e]) >= TOP_N
  <2>1. full[e] \in Nat
    BY DEF Sightings, IsSightings
  <2>2. CASE AtLeast(map, full[e]) >= TOP_N
    BY <2>1, <2>2, TrimmingCostsNothing, LimitAssumption
  <2>3. CASE e \in DOMAIN map /\ map[e] = full[e] /\ e \in DOMAIN kept
    BY <1>1, <2>3
  <2>4. CASE e \in DOMAIN map /\ map[e] = full[e] /\ e \notin DOMAIN kept
    <3>1. AtLeast(kept, full[e]) >= MAX_TRACKED
      BY <2>4, LeftOut, LimitAssumption
    <3>2. AtLeast(kept, full[e]) \in Nat
      BY <1>1, AtLeastIs
    <3>. QED
      BY <3>1, <3>2, LimitAssumption
  <2>. QED
    BY <2>2, <2>3, <2>4 DEF Accounted
<1>. QED
  BY <1>2, <1>3 DEF Accounted

-----------------------------------------------------------------------------
(* Every step keeps the invariant.                                         *)

LEMMA EmptyIs == Sightings(Empty) /\ Cardinality(DOMAIN Empty) = 0
BY FS_EmptySet DEF Empty, Sightings, IsSightings

LEMMA InitInv == Init => Inv
<1>. SUFFICES ASSUME Init PROVE Inv
  OBVIOUS
<1>1. /\ Sightings(running) /\ Sightings(state) /\ Sightings(worst)
      /\ Cardinality(DOMAIN state) <= MAX_TRACKED
  BY EmptyIs, LimitAssumption DEF Init
<1>2. NoLongerThan(state, worst) /\ Accounted(state, worst)
  BY DEF Init, NoLongerThan, Accounted, Empty
<1>3. started \in [Pid -> 0..MaxStarts] /\ fetched = None
  BY BoundAssumption DEF Init
<1>. QED
  BY <1>1, <1>2, <1>3 DEF Inv, TypeOK, FetchedLongest, Sightings

\* What Postgres executes changes nothing in the window.
LEMMA PostgresKeeps ==
    ASSUME Inv, \/ \E p \in Pid : Starts(p)
                \/ \E e \in DOMAIN running : Ends(e)
                \/ TimePasses
    PROVE  Inv'
<1>1. UNCHANGED <<fetched, state, worst>>
  BY DEF Starts, Ends, TimePasses
<1>2. Sightings(running) /\ started \in [Pid -> 0..MaxStarts]
  BY DEF Inv, TypeOK, Sightings
<1>3. Sightings(running') /\ started' \in [Pid -> 0..MaxStarts]
  <2>1. ASSUME NEW p \in Pid, Starts(p)
        PROVE  Sightings(running') /\ started' \in [Pid -> 0..MaxStarts]
    <3>. DEFINE new == <<p, started[p] + 1>>
    <3>1. started[p] + 1 \in 1..MaxStarts
      BY <1>2, <2>1, BoundAssumption DEF Starts
    <3>2. new \in Execution
      BY <3>1 DEF Execution
    <3>3. started' \in [Pid -> 0..MaxStarts]
      BY <1>2, <2>1, <3>1 DEF Starts
    <3>4. running' = [e \in DOMAIN running \cup {new} |->
                         IF e \in DOMAIN running THEN running[e] ELSE 1]
      BY <2>1 DEF Starts
    <3>. HIDE DEF new
    <3>5. DOMAIN running' = DOMAIN running \cup {new}
      BY <3>4
    <3>6. \A e \in DOMAIN running' : running'[e] \in 1..MaxAge
      BY <1>2, <3>4, BoundAssumption DEF Sightings, IsSightings
    <3>7. IsFiniteSet(DOMAIN running')
      BY <1>2, <3>5, FS_AddElement DEF Sightings
    <3>. QED
      BY <1>2, <3>2, <3>3, <3>5, <3>6, <3>7 DEF Sightings, IsSightings
  <2>2. ASSUME NEW e \in DOMAIN running, Ends(e)
        PROVE  Sightings(running') /\ started' \in [Pid -> 0..MaxStarts]
    <3>1. /\ DOMAIN running' = DOMAIN running \ {e}
          /\ \A x \in DOMAIN running' : running'[x] = running[x]
      BY <2>2 DEF Ends, Restrict
    <3>2. IsFiniteSet(DOMAIN running')
      BY <1>2, <3>1, FS_RemoveElement DEF Sightings
    <3>. QED
      BY <1>2, <2>2, <3>1, <3>2 DEF Ends, Sightings, IsSightings
  <2>3. CASE TimePasses
    <3>1. /\ DOMAIN running' = DOMAIN running
          /\ \A x \in DOMAIN running : running'[x] = running[x] + 1 /\ running[x] < MaxAge
      BY <2>3 DEF TimePasses
    <3>2. \A x \in DOMAIN running : running'[x] \in 1..MaxAge
      BY <1>2, <3>1, BoundAssumption DEF Sightings, IsSightings
    <3>. QED
      BY <1>2, <2>3, <3>1, <3>2 DEF TimePasses, Sightings, IsSightings
  <2>. QED
    BY <2>1, <2>2, <2>3
<1>. QED
  BY <1>1, <1>3 DEF Inv, TypeOK, FetchedLongest, Sightings

LEMMA FetchKeeps ==
    ASSUME Inv, Fetch
    PROVE  Inv'
<1>1. PICK longest \in LongestOf(running, FETCH) :
         fetched' = [rows |-> RowsOf(longest), all |-> running]
  BY DEF Fetch, RowsOf
<1>2. Sightings(running)
  BY DEF Inv, TypeOK, Sightings
<1>3. Sightings(longest)
  BY <1>2, LongestOfIs, LimitAssumption
<1>4. RowsOf(longest) \subseteq {Row(e, secs) : e \in Execution, secs \in 1..MaxAge}
  BY <1>3 DEF RowsOf, Sightings, IsSightings
<1>5. fetched'.rows = RowsOf(longest) /\ fetched'.all = running
  BY <1>1
<1>6. FetchedLongest'
  BY <1>2, <1>5 DEF FetchedLongest, Sightings
<1>7. UNCHANGED <<started, running, state, worst>>
  BY DEF Fetch
<1>8. TypeOK'
  BY <1>2, <1>4, <1>5, <1>7 DEF Inv, TypeOK, Sightings
<1>. QED
  BY <1>6, <1>7, <1>8 DEF Inv

LEMMA ObserveKeeps ==
    ASSUME Inv, Observe
    PROVE  Inv'
<1>. DEFINE all == fetched.all
            rows == fetched.rows
            folded == Folded(state, rows)
            whole == WithAll(worst, all)
<1>1. /\ Sightings(state) /\ Sightings(worst) /\ Sightings(all)
      /\ NoLongerThan(state, worst) /\ Accounted(state, worst)
  BY DEF Inv, TypeOK, FetchedLongest, Observe, Sightings
<1>2. PICK longest \in LongestOf(all, FETCH) : rows = RowsOf(longest)
  BY DEF Inv, FetchedLongest, Observe
<1>3. Sightings(longest)
  BY <1>1, LongestOfIs, LimitAssumption
<1>4. state' \in LongestOf(folded, MAX_TRACKED) /\ worst' = whole /\ fetched' = None
  BY DEF Observe, Trimmed
<1>. HIDE DEF all, rows
<1>5. Sightings(folded) /\ Sightings(whole)
  BY <1>1, <1>2, <1>3, FoldedIs, WithAllIs
<1>6. NoLongerThan(folded, whole) /\ Accounted(folded, whole)
  BY <1>1, <1>2, FoldingAccounts
<1>. HIDE DEF folded, whole
<1>7. NoLongerThan(state', whole) /\ Accounted(state', whole)
  BY <1>4, <1>5, <1>6, TrimmingAccounts
<1>8. Sightings(state') /\ Cardinality(DOMAIN state') <= MAX_TRACKED
  BY <1>4, <1>5, LongestOfIs, LimitAssumption
<1>9. UNCHANGED <<started, running>>
  BY DEF Observe
<1>. QED
  BY <1>4, <1>5, <1>7, <1>8, <1>9 DEF Inv, TypeOK, FetchedLongest, Sightings

LEMMA TakeTopKeeps ==
    ASSUME Inv, TakeTop
    PROVE  Inv'
<1>1. state' = Empty /\ worst' = Empty /\ UNCHANGED <<started, running, fetched>>
  BY DEF TakeTop
<1>2. NoLongerThan(Empty, Empty) /\ Accounted(Empty, Empty)
  BY DEF NoLongerThan, Accounted, Empty
<1>3. Cardinality(DOMAIN state') <= MAX_TRACKED
  BY <1>1, EmptyIs, LimitAssumption
<1>. QED
  BY <1>1, <1>2, <1>3, EmptyIs DEF Inv, TypeOK, FetchedLongest, Sightings

LEMMA StepInv == Inv /\ [Next]_vars => Inv'
<1>. SUFFICES ASSUME Inv, [Next]_vars PROVE Inv'
  OBVIOUS
<1>1. CASE UNCHANGED vars
  BY <1>1 DEF vars, Inv, TypeOK, FetchedLongest
<1>. QED
  BY <1>1, PostgresKeeps, FetchKeeps, ObserveKeeps, TakeTopKeeps DEF Next

-----------------------------------------------------------------------------
(* The theorems.                                                           *)

\* The longest of a map that accounts for everything are the longest there
\* were.
LEMMA TopOfAccounted ==
    ASSUME Inv, NEW top \in Top
    PROVE  /\ \A e \in DOMAIN top : e \in DOMAIN worst /\ top[e] = worst[e]
           /\ \A age \in 1..MaxAge :
                 AtLeast(top, age) =
                     IF AtLeast(worst, age) < TOP_N THEN AtLeast(worst, age) ELSE TOP_N
<1>1. /\ Sightings(state) /\ Sightings(worst) /\ TOP_N \in Nat
      /\ NoLongerThan(state, worst) /\ Accounted(state, worst)
  BY LimitAssumption DEF Inv, TypeOK, Sightings
<1>2. top \in LongestOf(state, TOP_N)
  BY DEF Top
<1>3. /\ Sightings(top) /\ DOMAIN top \subseteq DOMAIN state
      /\ \A e \in DOMAIN top : top[e] = state[e]
      /\ Cardinality(DOMAIN top) \in Nat /\ Cardinality(DOMAIN top) <= TOP_N
  BY <1>1, <1>2, LongestOfIs
<1>4. \A e \in DOMAIN top, other \in DOMAIN state \ DOMAIN top : state[e] >= state[other]
  BY <1>1, <1>2, LongestOfIs
<1>5. /\ \A e \in DOMAIN state : state[e] \in Nat
      /\ \A e \in DOMAIN worst : worst[e] \in Nat
  BY <1>1 DEF Sightings, IsSightings
<1>6. ASSUME NEW e \in DOMAIN top
      PROVE  e \in DOMAIN worst /\ top[e] = worst[e]
  <2>1. e \in DOMAIN worst /\ state[e] <= worst[e]
    BY <1>1, <1>3 DEF NoLongerThan
  <2>2. ASSUME state[e] # worst[e], AtLeast(state, worst[e]) >= TOP_N
        PROVE  FALSE
    <3>. DEFINE longer == {x \in DOMAIN state : state[x] >= worst[e]}
    <3>1. state[e] < worst[e]
      BY <1>3, <1>5, <2>1, <2>2
    <3>2. \A x \in longer : x \in DOMAIN top /\ x # e
      BY <1>3, <1>4, <1>5, <2>1, <3>1
    <3>3. longer \in SUBSET (DOMAIN top \ {e})
      BY <3>2
    <3>4. Cardinality(longer) >= TOP_N
      BY <2>2 DEF AtLeast
    <3>. HIDE DEF longer
    <3>5. /\ IsFiniteSet(DOMAIN top \ {e})
          /\ Cardinality(DOMAIN top \ {e}) = Cardinality(DOMAIN top) - 1
      BY <1>3, FS_RemoveElement DEF Sightings
    <3>6. IsFiniteSet(longer) /\ Cardinality(longer) <= Cardinality(DOMAIN top \ {e})
      BY <3>3, <3>5, FS_Subset
    <3>7. Cardinality(longer) \in Nat
      BY <3>6, FS_CardinalityType
    <3>. QED
      BY <1>1, <1>3, <3>4, <3>5, <3>6, <3>7
  <2>. QED
    BY <1>1, <1>3, <2>1, <2>2 DEF Accounted
<1>7. ASSUME NEW age \in 1..MaxAge
      PROVE  AtLeast(top, age) =
                 IF AtLeast(worst, age) < TOP_N THEN AtLeast(worst, age) ELSE TOP_N
  <2>0. age \in Nat
    OBVIOUS
  <2>1. /\ AtLeast(top, age) \in Nat /\ AtLeast(worst, age) \in Nat
        /\ AtLeast(top, age) <= TOP_N
    <3>1. AtLeast(top, age) <= Cardinality(DOMAIN top) /\ AtLeast(top, age) \in Nat
      BY <1>3, AtLeastIs
    <3>2. AtLeast(worst, age) \in Nat
      BY <1>1, AtLeastIs
    <3>. QED
      BY <1>1, <1>3, <3>1, <3>2
  <2>2. AtLeast(top, age) <= AtLeast(worst, age)
    BY <1>1, <1>3, <1>6, <2>0, AtLeastGrows
  <2>3. CASE \A e \in DOMAIN worst : worst[e] >= age => e \in DOMAIN top
    <3>1. \A e \in DOMAIN worst : worst[e] >= age => e \in DOMAIN top /\ top[e] >= age
      BY <1>6, <2>3
    <3>2. AtLeast(worst, age) <= AtLeast(top, age)
      BY <1>1, <1>3, <2>0, <3>1, AtLeastGrows
    <3>. QED
      BY <1>1, <2>1, <2>2, <3>2
  <2>4. ASSUME NEW e \in DOMAIN worst, worst[e] >= age, e \notin DOMAIN top
        PROVE  AtLeast(top, age) >= TOP_N
    <3>1. ASSUME AtLeast(top, worst[e]) >= TOP_N
          PROVE  AtLeast(top, age) >= TOP_N
      <4>1. \A x \in DOMAIN top : top[x] \in Nat
        BY <1>3, <1>5
      <4>2. AtLeast(top, worst[e]) <= AtLeast(top, age)
        BY <1>3, <1>5, <2>0, <2>4, <4>1, AtLeastMonotone
      <4>3. AtLeast(top, worst[e]) \in Nat
        BY <1>3, AtLeastIs
      <4>. QED
        BY <1>1, <2>1, <3>1, <4>2, <4>3
    <3>2. CASE e \in DOMAIN state /\ state[e] = worst[e]
      <4>1. AtLeast(top, worst[e]) >= TOP_N
        BY <1>1, <1>2, <2>4, <3>2, LeftOut
      <4>. QED
        BY <3>1, <4>1
    <3>3. CASE AtLeast(state, worst[e]) >= TOP_N
      <4>1. AtLeast(top, worst[e]) >= TOP_N
        BY <1>1, <1>2, <1>5, <3>3, TrimmingCostsNothing
      <4>. QED
        BY <3>1, <4>1
    <3>. QED
      BY <1>1, <3>2, <3>3 DEF Accounted
  <2>. QED
    BY <1>1, <2>1, <2>2, <2>3, <2>4
<1>. QED
  BY <1>6, <1>7

\* The inductive invariant holds however ticks, drains and the statements of
\* the backends interleave (longest_seen.rs, LONGEST_SQL of activity.rs).
THEOREM Invariance == Spec => []Inv
BY InitInv, StepInv, PTL DEF Spec

\* Every reachable state is well typed, and `observe` leaves no more than
\* MAX_TRACKED executions in the map.
THEOREM TypeCorrect == Spec => []TypeOK
<1>1. Inv => TypeOK
  BY DEF Inv
<1>. QED
  BY <1>1, Invariance, PTL

\* What `take_top` returns at any moment are the TOP_N longest of all that was
\* executing at the ticks of the window, each at its longest sighting: the
\* LIMIT of the query and the size of the map cost nothing.
THEOREM LimitsCostNothing == Spec => []TopIsTheTop
<1>1. Inv => TopIsTheTop
  BY TopOfAccounted DEF TopIsTheTop
<1>. QED
  BY <1>1, Invariance, PTL

=============================================================================
