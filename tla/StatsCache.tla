----------------------------- MODULE StatsCache -----------------------------
(***************************************************************************)
(* The published statistics of every mounted database, and the previous    *)
(* samples their rates are computed from (src/src/db_stats/cache.rs).      *)
(*                                                                         *)
(* Every operator here is one critical section of DbStatsCache's mutex; a  *)
(* module that collects uses each in an action of its own.  A section is   *)
(* reduced to its state, and to the counters that are subtracted: one of   *)
(* pg_stat_database for `health`, the calls of pg_stat_statements for the  *)
(* throughput.  A sample also carries `work`, the statements the database  *)
(* had truly executed by then, which no code reads: properties compare     *)
(* with it.                                                                *)
(***************************************************************************)
EXTENDS Integers, FiniteSetsExt

CONSTANTS
    Db,              \* the mounted databases
    Statement,       \* the rows of pg_stat_statements a database may have: one for each
                     \* role, and level, at which a query is executed
    QueryId,         \* QueryId[s]: the query id of a row, which several rows may have
    None             \* Rust's None

ASSUME StatementAssumption == IsFiniteSet(Statement) /\ DOMAIN QueryId = Statement

QueryIds == {QueryId[s] : s \in Statement}

VARIABLE
    cache            \* cache[d]: CacheState and the DbStatsSnapshot it publishes

SectionState == {"pending", "ready", "unavailable"}

Capabilities == [state : SectionState, installed : BOOLEAN]

(***************************************************************************)
(* One read of pg_stat_database, and one of pg_stat_statements, where a    *)
(* statement with no calls has no row.  Of a sample only `by_query_id` is  *)
(* kept for the next tick: of the rows with one query id the calls of the  *)
(* one that was inserted last.                                             *)
(***************************************************************************)
HealthSample == [count : Nat, stats_reset : Nat, work : Nat]
StatementsSample == [calls : [Statement -> Nat], by_query_id : [QueryIds -> Nat], work : Nat]

\* Every order in which the rows of one query id may be read: the query sorts
\* them by their execution time, of which the calls say nothing.
LastInserted(calls) ==
    {last \in [QueryIds -> Statement] : \A s \in Statement :
        /\ QueryId[last[QueryId[s]]] = QueryId[s]
        /\ calls[s] > 0 => calls[last[QueryId[s]]] > 0}

\* A row stands behind another of its query id that was called less often.
Masked(sample) == \E s \in Statement : sample.calls[s] > sample.by_query_id[QueryId[s]]

(***************************************************************************)
(* What a window says: the difference it shows, None when it is not known, *)
(* and between which readings.                                             *)
(***************************************************************************)
WindowFigures == [delta : Nat \union {None}, from : Nat, upto : Nat]

\* What is not there is told from what is.
ASSUME NoneAssumption == None \notin Nat \union WindowFigures

\* What no code reads: whether a row of the earlier sample was masked.
Throughput == [calls : WindowFigures, longest : Nat, masked : BOOLEAN]

CacheState ==
    [server : Capabilities,
     activity : SectionState, health : SectionState, rates : WindowFigures \union {None},
     tables : SectionState, statements : SectionState, disk_io : SectionState,
     throughput : Throughput \union {None}, last_error : BOOLEAN,
     previous_health : HealthSample \union {None},
     previous_statements : StatementsSample \union {None}]

CacheTypeOK == cache \in [Db -> CacheState]

CacheInit ==
    cache = [d \in Db |->
        [server |-> [state |-> "pending", installed |-> FALSE],
         activity |-> "pending", health |-> "pending", rates |-> None,
         tables |-> "pending", statements |-> "pending", disk_io |-> "pending",
         throughput |-> None, last_error |-> FALSE,
         previous_health |-> None, previous_statements |-> None]]

\* Mistake: a reading that failed counts as a reading.
AnyReadingCached(d) == cache[d].server.state # "pending"

(***************************************************************************)
(* `capabilities()`: the cached reading, if there is one.                  *)
(***************************************************************************)
CapabilitiesCached(d) == cache[d].server.state = "ready"

StateOf(ok) == IF ok THEN "ready" ELSE "unavailable"

(***************************************************************************)
(* `delta_i64`: not known when the counter went backwards.                 *)
(***************************************************************************)
Delta(current, previous) == IF current < previous THEN None ELSE current - previous

\* Mistake: only the counter tells a reset.
HealthRatesWithoutReset(current, previous) ==
    IF previous = None
    THEN None
    ELSE [delta |-> Delta(current.count, previous.count),
          from |-> previous.work, upto |-> current.work]

\* Mistake: the raw difference.
HealthRatesUnchecked(current, previous) ==
    IF previous = None
    THEN None
    ELSE [delta |-> current.count - previous.count,
          from |-> previous.work, upto |-> current.work]

(***************************************************************************)
(* `rates` of health.rs: nothing to compare with, or a reset in between,   *)
(* and there are no rates.                                                 *)
(***************************************************************************)
HealthRates(current, previous) ==
    IF previous = None
    THEN None
    ELSE IF current.stats_reset # previous.stats_reset
         THEN None
         ELSE [delta |-> Delta(current.count, previous.count),
               from |-> previous.work, upto |-> current.work]

(***************************************************************************)
(* A row is compared with what was kept under its query id, and enters the *)
(* sums only when there is such a thing and the counter did not go back.   *)
(***************************************************************************)
Risen(current, previous, s) == Delta(current.calls[s], previous.by_query_id[QueryId[s]])
Matched(current, previous) ==
    {s \in Statement : current.calls[s] > 0 /\ previous.by_query_id[QueryId[s]] > 0
                        /\ Risen(current, previous, s) # None}

\* Mistake: without a previous sample, the lifetime totals.
CallsInWindowOrLifetime(current, previous) ==
    IF previous = None
    THEN SumFunction(current.calls)
    ELSE SumFunction([s \in Matched(current, previous) |-> Risen(current, previous, s)])

(***************************************************************************)
(* `build` of statements.rs: the sum of the deltas there are, or None.     *)
(***************************************************************************)
CallsInWindow(current, previous) ==
    IF previous = None \/ Matched(current, previous) = {}
    THEN None
    ELSE SumFunction([s \in Matched(current, previous) |-> Risen(current, previous, s)])

(***************************************************************************)
(* `MinuteThroughput::new`: a throughput on every tick, the first included.*)
(***************************************************************************)
MinuteThroughput(current, previous, longest) ==
    [calls |-> [delta |-> CallsInWindow(current, previous),
                from |-> IF previous = None THEN current.work ELSE previous.work,
                upto |-> current.work],
     longest |-> longest,
     masked |-> IF previous = None THEN FALSE ELSE Masked(previous)]

-----------------------------------------------------------------------------
(***************************************************************************)
(* `apply_capabilities`.                                                   *)
(***************************************************************************)
ApplyCapabilities(d, server) == cache' = [cache EXCEPT ![d].server = server]

\* Mistake: a failed read rebases the rates.
ApplyFastTickRebasing(d, activity, sample, last_error) ==
    cache' = [cache EXCEPT
        ![d].activity = StateOf(activity),
        ![d].health = StateOf(sample # None),
        ![d].rates = IF sample = None THEN None ELSE HealthRates(sample, cache[d].previous_health),
        ![d].previous_health = sample,
        ![d].last_error = last_error]

\* Mistake: an error is never taken back.
ApplyFastTickSticky(d, activity, sample, last_error) ==
    LET previous == cache[d].previous_health
    IN  cache' = [cache EXCEPT
            ![d].activity = StateOf(activity),
            ![d].health = StateOf(sample # None),
            ![d].rates = IF sample = None THEN None ELSE HealthRates(sample, previous),
            ![d].previous_health = IF sample = None THEN previous ELSE sample,
            ![d].last_error = @ \/ last_error]

(***************************************************************************)
(* `apply_fast_tick`: the rates against the retained sample, which only a  *)
(* successful read replaces.  `sample` is None when the read failed.       *)
(***************************************************************************)
ApplyFastTick(d, activity, sample, last_error) ==
    LET previous == cache[d].previous_health
    IN  cache' = [cache EXCEPT
            ![d].activity = StateOf(activity),
            ![d].health = StateOf(sample # None),
            ![d].rates = IF sample = None THEN None ELSE HealthRates(sample, previous),
            ![d].previous_health = IF sample = None THEN previous ELSE sample,
            ![d].last_error = last_error]

(***************************************************************************)
(* `apply_slow_tick`: a throughput is kept when this tick produced none.   *)
(***************************************************************************)
ApplySlowTick(d, server, tables, sample, disk_io, throughput) ==
    cache' = [cache EXCEPT
        ![d].server = server,
        ![d].tables = StateOf(tables),
        ![d].statements = StateOf(sample # None),
        ![d].disk_io = StateOf(disk_io),
        ![d].throughput = IF throughput = None THEN @ ELSE throughput,
        ![d].previous_statements = IF sample = None THEN @ ELSE sample]

=============================================================================
