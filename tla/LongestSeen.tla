---------------------------- MODULE LongestSeen ----------------------------
(***************************************************************************)
(* The longest-running statements of one database during a window, put     *)
(* together from the ticks of the fast timer                               *)
(* (src/src/db_stats/longest_seen.rs and LONGEST_SQL in activity.rs).      *)
(*                                                                         *)
(* Three limits cut what is seen: a tick fetches the FETCH longest of what *)
(* is executing, the map keeps MAX_TRACKED executions, and the drain       *)
(* returns TOP_N.  A fast tick fetches and folds in two steps, and the     *)
(* hourly timer may drain in between.                                      *)
(***************************************************************************)
EXTENDS Integers, FiniteSetsExt, Functions

CONSTANTS
    Pid,             \* backends; each executes one statement at a time
    None,            \* no rows fetched
    FETCH,           \* LIMIT of LONGEST_SQL, 5 in the source
    MAX_TRACKED,     \* 512 in the source
    TOP_N,           \* 5 in the source
    MaxStarts,       \* bound: statements a backend executes
    MaxAge           \* bound: how long a statement executes, in ticks of the clock

ASSUME LimitAssumption ==
    /\ {FETCH, MAX_TRACKED, TOP_N} \subseteq Nat \ {0}
    /\ TOP_N <= FETCH
    /\ TOP_N <= MAX_TRACKED

ASSUME BoundAssumption == MaxStarts \in Nat /\ MaxAge \in Nat \ {0}

VARIABLES
    started,         \* started[p]: how many statements backend p has begun
    running,         \* how long each statement that is executing has been at it
    fetched,         \* the rows a fast tick holds, with all it could have fetched
    state,           \* the map: the longest sighting of each execution tracked
    worst            \* history: the map without any limit

vars == <<started, running, fetched, state, worst>>

(***************************************************************************)
(* (pid, query_start): the n-th statement of a backend.                    *)
(***************************************************************************)
Execution == Pid \X (1..MaxStarts)

\* A row of LONGEST_SQL.
Row(e, secs) == [pid |-> e[1], query_start |-> e[2], running_secs |-> secs]

Empty == [e \in {} |-> 0]

IsSightings(map) ==
    /\ DOMAIN map \subseteq Execution
    /\ \A e \in DOMAIN map : map[e] \in 1..MaxAge

TypeOK ==
    /\ started \in [Pid -> 0..MaxStarts]
    /\ IsSightings(running) /\ IsSightings(state) /\ IsSightings(worst)
    /\ Cardinality(DOMAIN state) <= MAX_TRACKED
    /\ fetched # None => IsSightings(fetched.all)
                         /\ fetched.rows \subseteq {Row(e, secs) : e \in Execution, secs \in 1..MaxAge}

Init ==
    /\ started = [p \in Pid |-> 0]
    /\ running = Empty
    /\ fetched = None
    /\ state = Empty
    /\ worst = Empty

-----------------------------------------------------------------------------
(* Postgres.                                                               *)

Starts(p) ==
    /\ started[p] < MaxStarts
    /\ <<p, started[p]>> \notin DOMAIN running
    /\ started' = [started EXCEPT ![p] = @ + 1]
    /\ running' = [e \in DOMAIN running \union {<<p, started[p] + 1>>} |->
                      IF e \in DOMAIN running THEN running[e] ELSE 1]
    /\ UNCHANGED <<fetched, state, worst>>

Ends(e) ==
    /\ running' = Restrict(running, DOMAIN running \ {e})
    /\ UNCHANGED <<started, fetched, state, worst>>

TimePasses ==
    /\ DOMAIN running # {}
    /\ \A e \in DOMAIN running : running[e] < MaxAge
    /\ running' = [e \in DOMAIN running |-> running[e] + 1]
    /\ UNCHANGED <<started, fetched, state, worst>>

-----------------------------------------------------------------------------
(* The window.                                                             *)

(***************************************************************************)
(* The n longest of a map, whichever of the equally long come first.       *)
(***************************************************************************)
LongestOf(map, n) ==
    LET size == IF Cardinality(DOMAIN map) < n THEN Cardinality(DOMAIN map) ELSE n
    IN  {Restrict(map, kept) : kept \in
            {k \in kSubset(size, DOMAIN map) :
                \A e \in k, other \in DOMAIN map \ k : map[e] >= map[other]}}

\* Mistake: the entry of a backend, which goes on to its next statement.
ExecutionKeyOfBackend(row) == <<row.pid, 1>>

(***************************************************************************)
(* LONGEST_SQL returns no row without a pid and a query_start, so the      *)
(* Anonymous keys never occur.                                             *)
(***************************************************************************)
ExecutionKey(row) == <<row.pid, row.query_start>>

(***************************************************************************)
(* An entry keeps the longest of what it held and what this tick saw.      *)
(***************************************************************************)
Folded(map, rows) ==
    [e \in DOMAIN map \union {ExecutionKey(row) : row \in rows} |->
        Max({map[x] : x \in DOMAIN map \intersect {e}}
            \union {row.running_secs : row \in {r \in rows : ExecutionKey(r) = e}})]

\* Mistake: the map is never trimmed.
TrimmedNever(map) == {map}

Trimmed(map) == LongestOf(map, MAX_TRACKED)

\* History: the longest sighting of every execution, whatever is fetched or kept.
WithAll(map, all) ==
    [e \in DOMAIN map \union DOMAIN all |->
        Max({m[e] : m \in {x \in {map, all} : e \in DOMAIN x}})]

Fetch ==
    /\ fetched = None
    /\ \E longest \in LongestOf(running, FETCH) :
          fetched' = [rows |-> {Row(e, longest[e]) : e \in DOMAIN longest}, all |-> running]
    /\ UNCHANGED <<started, running, state, worst>>

Observe ==
    /\ fetched # None
    /\ state' \in Trimmed(Folded(state, fetched.rows))
    /\ worst' = WithAll(worst, fetched.all)
    /\ fetched' = None
    /\ UNCHANGED <<started, running>>

(***************************************************************************)
(* What a drain returns.                                                   *)
(***************************************************************************)
Top == LongestOf(state, TOP_N)

TakeTop ==
    /\ state' = Empty
    /\ worst' = Empty
    /\ UNCHANGED <<started, running, fetched>>

Next ==
    \/ \E p \in Pid : Starts(p)
    \/ \E e \in DOMAIN running : Ends(e)
    \/ TimePasses
    \/ Fetch
    \/ Observe
    \/ TakeTop

Spec == Init /\ [][Next]_vars

-----------------------------------------------------------------------------
(* What an hour's row is worth.                                            *)

AtLeast(map, age) == Cardinality({e \in DOMAIN map : map[e] >= age})

(***************************************************************************)
(* None of the three limits costs anything: whenever the window is         *)
(* drained, the TOP_N durations it returns are the TOP_N longest of all    *)
(* that was executing at the ticks of this window, and only of this        *)
(* window, and each is its own execution's longest sighting - also when a  *)
(* statement was too young for the FETCH rows of one tick, or was trimmed, *)
(* and grew old afterwards.                                                *)
(***************************************************************************)
TopIsTheTop ==
    \A top \in Top :
        /\ \A e \in DOMAIN top : e \in DOMAIN worst /\ top[e] = worst[e]
        /\ \A age \in 1..MaxAge :
              AtLeast(top, age) =
                  IF AtLeast(worst, age) < TOP_N THEN AtLeast(worst, age) ELSE TOP_N

=============================================================================
