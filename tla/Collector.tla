----------------------------- MODULE Collector -----------------------------
(***************************************************************************)
(* The statistics collector (src/src/db_stats/collector.rs): three timers  *)
(* whose ticks overlap - fast, slow and hourly - each fast or slow tick    *)
(* running one task per mounted database, all of them publishing into the  *)
(* caches of StatsCache and filling or draining the longest-query windows. *)
(*                                                                         *)
(* One timer never overlaps itself: its tick ends before its interval is   *)
(* waited out again.  Every query, every critical section and every write  *)
(* to the history file is a step, and steps of different tasks interleave. *)
(***************************************************************************)
EXTENDS StatsCache

CONSTANTS
    Timers,          \* the timers that run, a subset of {"fast", "slow", "hourly"}
    Flaky,           \* the databases whose connection comes and goes
    Installed,       \* the databases that start with pg_stat_statements created
    Longest,         \* what pg_stat_activity may show as longest, 0 when nothing runs
    History,         \* how the history file may open, a subset of HistoryState
    DiskMayFail,     \* whether an open history file may stop taking writes
    MaxWork,         \* bound: statements a database executes
    MaxResets,       \* bound: resets of each kind of counter of a database
    MaxShown         \* bound: calls shown for minutes when the last slow tick begins

HistoryState == {"working", "failing", "disabled"}

ASSUME CollectorAssumption ==
    /\ Timers \subseteq {"fast", "slow", "hourly"}
    /\ Flaky \subseteq Db
    /\ Installed \subseteq Db
    /\ Longest \subseteq Nat
    /\ History \subseteq HistoryState
    /\ DiskMayFail \in BOOLEAN
    /\ MaxWork \in Nat
    /\ MaxResets \in Nat
    /\ MaxShown \in Nat

VARIABLES
    server,          \* server[d]: Postgres itself, as far as the queries see it
    history,         \* the history file: takes writes, fails them, or never opened
    fast,            \* fast[d]: the task collect_fast of the current tick
    slow,            \* slow[d]: the task collect_slow of the current tick
    hourly,          \* the hourly tick
    written,         \* the outcome of a tick's write its timer has yet to report
    longest_seen,    \* longest_seen[d]: the hour's window, its longest sighting or 0
    longest_seen_minute,  \* the minute's
    write_error,     \* metrics_write_error.is_some()
    ledger           \* history variable: what has been shown and stored so far

external == <<server, history>>
windows == <<longest_seen, longest_seen_minute>>
vars == <<external, fast, slow, hourly, written, windows, write_error, ledger, cache>>

(***************************************************************************)
(* Postgres: whether its connection is up, whether the extension is there, *)
(* the statements it has executed, the counters of pg_stat_database and    *)
(* pg_stat_statements, and how often the former was reset.                 *)
(***************************************************************************)
ServerState == [up : BOOLEAN, installed : BOOLEAN, work : Nat, count : Nat,
                stats_reset : Nat, calls : [Statement -> Nat]]

Row == [rates : WindowFigures \union {None}]

FastTask ==
    [pc : {"idle", "caps", "apply_caps", "apply_down", "activity", "health", "observe",
           "apply", "read_back", "joined"},
     caps : Capabilities \union {None}, longest : Longest \union {None},
     sample : HealthSample \union {None}, row : Row \union {None}]

SlowTask ==
    [pc : {"idle", "caps", "apply_down", "tables", "statements", "drain", "disk_io",
           "apply", "joined"},
     caps : Capabilities \union {None}, tables : BOOLEAN,
     sample : StatementsSample \union {None}, throughput : Throughput \union {None},
     disk_io : BOOLEAN]

HourlyTick == [pc : {"idle", "drain", "write", "sweep", "report"}, todo : SUBSET Db,
               has_rows : BOOLEAN, failed : BOOLEAN]

(***************************************************************************)
(* first: the work done at the first reading of a counter; shown, stored:  *)
(* the sums of the deltas published in a cache, and written to the file.   *)
(***************************************************************************)
Account == [first : Nat \union {None}, shown : Nat, stored : Nat]

TypeOK ==
    /\ CacheTypeOK
    /\ server \in [Db -> ServerState]
    /\ history \in HistoryState
    /\ fast \in [Db -> FastTask]
    /\ slow \in [Db -> SlowTask]
    /\ hourly \in HourlyTick
    /\ written \in [{"fast", "slow"} -> {"nothing", "ok", "failed"}]
    /\ longest_seen \in [Db -> Nat]
    /\ longest_seen_minute \in [Db -> Nat]
    /\ write_error \in BOOLEAN
    /\ ledger \in [{"load", "minutes"} -> [Db -> Account]]

FastIdle == [pc |-> "idle", caps |-> None, longest |-> None, sample |-> None, row |-> None]

SlowIdle == [pc |-> "idle", caps |-> None, tables |-> FALSE, sample |-> None,
             throughput |-> None, disk_io |-> FALSE]

HourlyIdle == [pc |-> "idle", todo |-> {}, has_rows |-> FALSE, failed |-> FALSE]

Init ==
    /\ CacheInit
    /\ server = [d \in Db |-> [up |-> TRUE, installed |-> d \in Installed, work |-> 0, count |-> 0,
                               stats_reset |-> 0, calls |-> [s \in Statement |-> 0]]]
    /\ history \in History
    /\ fast = [d \in Db |-> FastIdle]
    /\ slow = [d \in Db |-> SlowIdle]
    /\ hourly = HourlyIdle
    /\ written = [timer \in {"fast", "slow"} |-> "nothing"]
    /\ longest_seen = [d \in Db |-> 0]
    /\ longest_seen_minute = [d \in Db |-> 0]
    /\ write_error = FALSE
    /\ ledger = [kind \in {"load", "minutes"} |->
                    [d \in Db |-> [first |-> None, shown |-> 0, stored |-> 0]]]

-----------------------------------------------------------------------------
(* Postgres and the disk, which move under the ticks at any moment.        *)

Work(d) ==
    /\ server[d].work < MaxWork
    /\ \E s \in Statement :
          server' = [server EXCEPT ![d].work = @ + 1, ![d].count = @ + 1,
                                   ![d].calls[s] = @ + 1]
    /\ UNCHANGED <<history, fast, slow, hourly, written, windows, write_error, ledger, cache>>

(***************************************************************************)
(* pg_stat_reset() leaves its mark in stats_reset; a statement reset or    *)
(* evicted in pg_stat_statements leaves none.                              *)
(***************************************************************************)
ResetStats(d) ==
    /\ server[d].stats_reset < MaxResets
    /\ server' = [server EXCEPT ![d].count = 0, ![d].stats_reset = @ + 1]
    /\ UNCHANGED <<history, fast, slow, hourly, written, windows, write_error, ledger, cache>>

ResetStatement(d) ==
    /\ MaxResets > 0
    /\ \E s \in Statement : server' = [server EXCEPT ![d].calls[s] = 0]
    /\ UNCHANGED <<history, fast, slow, hourly, written, windows, write_error, ledger, cache>>

(***************************************************************************)
(* The connection drops or comes back: every query in between fails.       *)
(***************************************************************************)
ConnectionFlips(d) ==
    /\ d \in Flaky
    /\ server' = [server EXCEPT ![d].up = ~@]
    /\ UNCHANGED <<history, fast, slow, hourly, written, windows, write_error, ledger, cache>>

CreateExtension(d) ==
    /\ ~server[d].installed
    /\ server' = [server EXCEPT ![d].installed = TRUE]
    /\ UNCHANGED <<history, fast, slow, hourly, written, windows, write_error, ledger, cache>>

(***************************************************************************)
(* The disk fills up or is freed; a file that was never opened stays so.   *)
(***************************************************************************)
DiskFlips ==
    /\ DiskMayFail
    /\ history # "disabled"
    /\ history' = IF history = "working" THEN "failing" ELSE "working"
    /\ UNCHANGED <<server, fast, slow, hourly, written, windows, write_error, ledger, cache>>

-----------------------------------------------------------------------------
(* What the ticks share.                                                   *)

Longer(a, b) == IF a > b THEN a ELSE b

ReadCapabilities(d) ==
    IF server[d].up THEN [state |-> "ready", installed |-> server[d].installed] ELSE None

Unreachable == [state |-> "unavailable", installed |-> FALSE]

Outcome == IF history = "working" THEN "ok" ELSE "failed"

Known(figures) == IF figures = None THEN 0 ELSE IF figures.delta = None THEN 0 ELSE figures.delta

(***************************************************************************)
(* The books: a window published from a sample, and windows written.       *)
(***************************************************************************)
Show(kind, d, sample, figures) ==
    LET book == ledger[kind][d]
    IN  [ledger EXCEPT ![kind][d] =
            [book EXCEPT !.first = IF @ = None /\ sample # None THEN sample.work ELSE @,
                         !.shown = @ + IF sample = None THEN 0 ELSE Known(figures)]]

Store(kind, rows) ==
    LET book == ledger[kind]
    IN  IF Outcome = "failed"
        THEN ledger
        ELSE [ledger EXCEPT ![kind] =
                [d \in Db |-> IF d \in DOMAIN rows
                              THEN [book[d] EXCEPT !.stored = @ + Known(rows[d])]
                              ELSE book[d]]]

-----------------------------------------------------------------------------
(* The fast tick.                                                          *)

(***************************************************************************)
(* A new tick, once the last one has joined its tasks and reported.        *)
(***************************************************************************)
FastSpawn ==
    /\ "fast" \in Timers
    /\ written["fast"] = "nothing"
    /\ \A d \in Db : fast[d].pc = "idle"
    /\ fast' = [d \in Db |-> [FastIdle EXCEPT !.pc = "caps"]]
    /\ UNCHANGED <<external, slow, hourly, written, windows, write_error, ledger, cache>>

(***************************************************************************)
(* `capabilities_for_fast_tick`: from the cache, or read and published.    *)
(***************************************************************************)
FastCapabilitiesCached(d) ==
    /\ fast[d].pc = "caps"
    /\ CapabilitiesCached(d)
    /\ fast' = [fast EXCEPT ![d].pc = "activity"]
    /\ UNCHANGED <<external, slow, hourly, written, windows, write_error, ledger, cache>>

FastReadsCapabilities(d) ==
    /\ fast[d].pc = "caps"
    /\ ~CapabilitiesCached(d)
    /\ fast' = [fast EXCEPT ![d].pc = "apply_caps", ![d].caps = ReadCapabilities(d)]
    /\ UNCHANGED <<external, slow, hourly, written, windows, write_error, ledger, cache>>

FastAppliesCapabilities(d) ==
    LET read == fast[d].caps
    IN  /\ fast[d].pc = "apply_caps"
        /\ ApplyCapabilities(d, IF read = None THEN Unreachable ELSE read)
        /\ fast' = [fast EXCEPT ![d].pc = IF read = None THEN "apply_down" ELSE "activity",
                                ![d].caps = None]
        /\ UNCHANGED <<external, slow, hourly, written, windows, write_error, ledger>>

(***************************************************************************)
(* No capabilities: both sections are unavailable, the error is hoisted,   *)
(* and there is no row.                                                    *)
(***************************************************************************)
FastAppliesUnreachable(d) ==
    /\ fast[d].pc = "apply_down"
    /\ ApplyFastTick(d, FALSE, None, TRUE)
    /\ fast' = [fast EXCEPT ![d].pc = "joined"]
    /\ UNCHANGED <<external, slow, hourly, written, windows, write_error, ledger>>

FastReadsActivity(d) ==
    /\ fast[d].pc = "activity"
    /\ \E seen \in Longest :
          fast' = [fast EXCEPT ![d].pc = "health",
                               ![d].longest = IF server[d].up THEN seen ELSE None]
    /\ UNCHANGED <<external, slow, hourly, written, windows, write_error, ledger, cache>>

FastReadsHealth(d) ==
    /\ fast[d].pc = "health"
    /\ fast' = [fast EXCEPT ![d].pc = "observe",
          ![d].sample = IF server[d].up
                        THEN [count |-> server[d].count,
                              stats_reset |-> server[d].stats_reset, work |-> server[d].work]
                        ELSE None]
    /\ UNCHANGED <<external, slow, hourly, written, windows, write_error, ledger, cache>>

(***************************************************************************)
(* What the tick saw running goes into the hour's window, and only there.  *)
(***************************************************************************)
FastObserves(d) ==
    /\ fast[d].pc = "observe"
    /\ longest_seen' = IF fast[d].longest = None
                       THEN longest_seen
                       ELSE [longest_seen EXCEPT ![d] = Longer(@, fast[d].longest)]
    /\ fast' = [fast EXCEPT ![d].pc = "apply"]
    /\ UNCHANGED <<external, slow, hourly, written, longest_seen_minute, write_error, ledger,
                   cache>>

FastApplies(d) ==
    /\ fast[d].pc = "apply"
    /\ ApplyFastTick(d, fast[d].longest # None, fast[d].sample, FALSE)
    /\ ledger' = Show("load", d, fast[d].sample, cache'[d].rates)
    /\ fast' = [fast EXCEPT ![d].pc = "read_back", ![d].longest = None, ![d].sample = None]
    /\ UNCHANGED <<external, slow, hourly, written, windows, write_error>>

(***************************************************************************)
(* The row to store is what was published, read back; `LoadSample::new`    *)
(* makes none of two sections that are both unavailable.                   *)
(***************************************************************************)
FastReadsBack(d) ==
    /\ fast[d].pc = "read_back"
    /\ fast' = [fast EXCEPT ![d].pc = "joined",
          ![d].row = IF cache[d].health = "ready" \/ cache[d].activity = "ready"
                     THEN [rates |-> cache[d].rates]
                     ELSE None]
    /\ UNCHANGED <<external, slow, hourly, written, windows, write_error, ledger, cache>>

(***************************************************************************)
(* All tasks joined: one commit for the whole tick, if there is a row.     *)
(***************************************************************************)
FastWrites ==
    LET rows == {d \in Db : fast[d].row # None}
    IN  /\ \A d \in Db : fast[d].pc = "joined"
        /\ fast' = [d \in Db |-> FastIdle]
        /\ written' = [written EXCEPT !["fast"] = IF rows = {} THEN "nothing" ELSE Outcome]
        /\ ledger' = Store("load", [d \in rows |-> fast[d].row.rates])
        /\ UNCHANGED <<external, slow, hourly, windows, write_error, cache>>

\* Mistake: every fast tick clears the report.
FastReportsNothing ==
    /\ written["fast"] # "nothing"
    /\ write_error' = FALSE
    /\ written' = [written EXCEPT !["fast"] = "nothing"]
    /\ UNCHANGED <<external, fast, slow, hourly, windows, ledger, cache>>

\* Mistake: the report is set on an error only, as the other timers do.
FastReportsErrors ==
    /\ written["fast"] # "nothing"
    /\ write_error' = (write_error \/ written["fast"] = "failed")
    /\ written' = [written EXCEPT !["fast"] = "nothing"]
    /\ UNCHANGED <<external, fast, slow, hourly, windows, ledger, cache>>

(***************************************************************************)
(* `metrics_write_error.set(written.err())`: the fast tick also clears it. *)
(***************************************************************************)
FastReports ==
    /\ written["fast"] # "nothing"
    /\ write_error' = (written["fast"] = "failed")
    /\ written' = [written EXCEPT !["fast"] = "nothing"]
    /\ UNCHANGED <<external, fast, slow, hourly, windows, ledger, cache>>

-----------------------------------------------------------------------------
(* The slow tick.                                                          *)

SlowSpawn ==
    /\ "slow" \in Timers
    /\ written["slow"] = "nothing"
    /\ \A d \in Db : slow[d].pc = "idle" /\ ledger["minutes"][d].shown <= MaxShown
    /\ slow' = [d \in Db |-> [SlowIdle EXCEPT !.pc = "caps"]]
    /\ UNCHANGED <<external, fast, hourly, written, windows, write_error, ledger, cache>>

SlowReadsCapabilities(d) ==
    LET read == ReadCapabilities(d)
    IN  /\ slow[d].pc = "caps"
        /\ slow' = [slow EXCEPT ![d].pc = IF read = None THEN "apply_down" ELSE "tables",
                                ![d].caps = read]
        /\ UNCHANGED <<external, fast, hourly, written, windows, write_error, ledger, cache>>

SlowAppliesUnreachable(d) ==
    /\ slow[d].pc = "apply_down"
    /\ ApplySlowTick(d, Unreachable, FALSE, None, FALSE, None)
    /\ slow' = [slow EXCEPT ![d].pc = "joined"]
    /\ UNCHANGED <<external, fast, hourly, written, windows, write_error, ledger>>

SlowReadsTables(d) ==
    /\ slow[d].pc = "tables"
    /\ slow' = [slow EXCEPT ![d].pc = "statements", ![d].tables = server[d].up]
    /\ UNCHANGED <<external, fast, hourly, written, windows, write_error, ledger, cache>>

(***************************************************************************)
(* No query at all for a server whose capabilities say "not installed".    *)
(* What `build` will keep depends on the order of the rows.                *)
(***************************************************************************)
SlowReadsStatements(d) ==
    LET calls == server[d].calls
    IN  /\ slow[d].pc = "statements"
        /\ \E last \in LastInserted(calls) :
              slow' = [slow EXCEPT ![d].pc = "drain",
                    ![d].sample = IF slow[d].caps.installed /\ server[d].up
                                  THEN [calls |-> calls, work |-> server[d].work,
                                        by_query_id |-> [q \in QueryIds |-> calls[last[q]]]]
                                  ELSE None]
        /\ UNCHANGED <<external, fast, hourly, written, windows, write_error, ledger, cache>>

(***************************************************************************)
(* The minute's window is drained whatever the query did.  The previous    *)
(* sample was taken out of the cache before the query was sent; it is the  *)
(* same now, as only this task of this database replaces it.               *)
(***************************************************************************)
SlowDrainsMinute(d) ==
    LET sample == slow[d].sample
    IN  /\ slow[d].pc = "drain"
        /\ longest_seen_minute' = [longest_seen_minute EXCEPT ![d] = 0]
        /\ slow' = [slow EXCEPT ![d].pc = "disk_io",
              ![d].throughput =
                  IF sample = None
                  THEN None
                  ELSE MinuteThroughput(sample, cache[d].previous_statements,
                                        longest_seen_minute[d])]
        /\ UNCHANGED <<external, fast, hourly, written, longest_seen, write_error, ledger,
                       cache>>

SlowReadsDiskIo(d) ==
    /\ slow[d].pc = "disk_io"
    /\ slow' = [slow EXCEPT ![d].pc = "apply", ![d].disk_io = server[d].up]
    /\ UNCHANGED <<external, fast, hourly, written, windows, write_error, ledger, cache>>

\* Mistake: the row is read back from the cache, as the fast tick does.
SlowAppliesAndReadsBack(d) ==
    LET t == slow[d]
    IN  /\ t.pc = "apply"
        /\ ApplySlowTick(d, t.caps, t.tables, t.sample, t.disk_io, t.throughput)
        /\ ledger' = Show("minutes", d, t.sample,
                          IF t.throughput = None THEN None ELSE t.throughput.calls)
        /\ slow' = [slow EXCEPT ![d] = [SlowIdle EXCEPT !.pc = "joined",
                                                        !.throughput = cache'[d].throughput]]
        /\ UNCHANGED <<external, fast, hourly, written, windows, write_error>>

SlowApplies(d) ==
    LET t == slow[d]
    IN  /\ t.pc = "apply"
        /\ ApplySlowTick(d, t.caps, t.tables, t.sample, t.disk_io, t.throughput)
        /\ ledger' = Show("minutes", d, t.sample,
                          IF t.throughput = None THEN None ELSE t.throughput.calls)
        /\ slow' = [slow EXCEPT ![d] = [SlowIdle EXCEPT !.pc = "joined",
                                                        !.throughput = t.throughput]]
        /\ UNCHANGED <<external, fast, hourly, written, windows, write_error>>

(***************************************************************************)
(* `write_minutes` keeps the rows with a figure in them; with none left it *)
(* does not touch the file, whatever state that is in.                     *)
(***************************************************************************)
SlowWrites ==
    LET HasFigure(t) == IF t = None THEN FALSE ELSE t.calls.delta # None \/ t.longest > 0
        rows == {d \in Db : HasFigure(slow[d].throughput)}
    IN  /\ \A d \in Db : slow[d].pc = "joined"
        /\ slow' = [d \in Db |-> SlowIdle]
        /\ written' = [written EXCEPT !["slow"] = IF rows = {} THEN "nothing" ELSE Outcome]
        /\ ledger' = Store("minutes", [d \in rows |-> slow[d].throughput.calls])
        /\ UNCHANGED <<external, fast, hourly, windows, write_error, cache>>

SlowReports ==
    /\ written["slow"] # "nothing"
    /\ write_error' = (write_error \/ written["slow"] = "failed")
    /\ written' = [written EXCEPT !["slow"] = "nothing"]
    /\ UNCHANGED <<external, fast, slow, hourly, windows, ledger, cache>>

-----------------------------------------------------------------------------
(* The hourly tick: one loop over the databases, then the sweep.           *)

HourlyDisabled ==
    /\ "hourly" \in Timers
    /\ hourly.pc = "idle"
    /\ history = "disabled"
    /\ longest_seen' = [d \in Db |-> 0]
    /\ UNCHANGED <<external, fast, slow, hourly, written, longest_seen_minute, write_error,
                   ledger, cache>>

HourlyStarts ==
    /\ "hourly" \in Timers
    /\ hourly.pc = "idle"
    /\ history # "disabled"
    /\ hourly' = [HourlyIdle EXCEPT !.pc = "drain", !.todo = Db]
    /\ UNCHANGED <<external, fast, slow, written, windows, write_error, ledger, cache>>

(***************************************************************************)
(* The database's caches are read and its hour drained, before the write.  *)
(***************************************************************************)
HourlyDrains(d) ==
    /\ hourly.pc = "drain"
    /\ d \in hourly.todo
    /\ longest_seen' = [longest_seen EXCEPT ![d] = 0]
    /\ hourly' = [hourly EXCEPT !.pc = "write", !.todo = @ \ {d},
          !.has_rows = \/ cache[d].tables = "ready"
                       \/ cache[d].statements = "ready"
                       \/ longest_seen[d] > 0]
    /\ UNCHANGED <<external, fast, slow, written, longest_seen_minute, write_error, ledger,
                   cache>>

HourlyWrites ==
    /\ hourly.pc = "write"
    /\ hourly' = [hourly EXCEPT !.pc = IF hourly.todo = {} THEN "sweep" ELSE "drain",
          !.has_rows = FALSE,
          !.failed = @ \/ (hourly.has_rows /\ Outcome = "failed")]
    /\ UNCHANGED <<external, fast, slow, written, windows, write_error, ledger, cache>>

HourlySweeps ==
    /\ hourly.pc = "sweep"
    /\ hourly' = [hourly EXCEPT !.pc = "report", !.failed = @ \/ Outcome = "failed"]
    /\ UNCHANGED <<external, fast, slow, written, windows, write_error, ledger, cache>>

HourlyReports ==
    /\ hourly.pc = "report"
    /\ write_error' = (write_error \/ hourly.failed)
    /\ hourly' = HourlyIdle
    /\ UNCHANGED <<external, fast, slow, written, windows, ledger, cache>>

-----------------------------------------------------------------------------
Environment(d) ==
    \/ Work(d) \/ ResetStats(d) \/ ResetStatement(d)
    \/ ConnectionFlips(d) \/ CreateExtension(d)

FastStep(d) ==
    \/ FastCapabilitiesCached(d) \/ FastReadsCapabilities(d) \/ FastAppliesCapabilities(d)
    \/ FastAppliesUnreachable(d) \/ FastReadsActivity(d) \/ FastReadsHealth(d)
    \/ FastObserves(d) \/ FastApplies(d) \/ FastReadsBack(d)

SlowStep(d) ==
    \/ SlowReadsCapabilities(d) \/ SlowAppliesUnreachable(d) \/ SlowReadsTables(d)
    \/ SlowReadsStatements(d) \/ SlowDrainsMinute(d) \/ SlowReadsDiskIo(d) \/ SlowApplies(d)

FastTimer == FastSpawn \/ FastWrites \/ FastReports
SlowTimer == SlowSpawn \/ SlowWrites \/ SlowReports
HourlyTimer ==
    \/ HourlyDisabled \/ HourlyStarts \/ (\E d \in Db : HourlyDrains(d))
    \/ HourlyWrites \/ HourlySweeps \/ HourlyReports

Next ==
    \/ \E d \in Db : Environment(d) \/ FastStep(d) \/ SlowStep(d)
    \/ DiskFlips
    \/ FastTimer \/ SlowTimer \/ HourlyTimer

Spec == Init /\ [][Next]_vars

(***************************************************************************)
(* The timers keep ticking, and every query and write ends, in an answer   *)
(* or in an error; nothing is asked of Postgres or of the disk.            *)
(***************************************************************************)
FairSpec ==
    /\ Spec
    /\ \A d \in Db : WF_vars(FastStep(d)) /\ WF_vars(SlowStep(d))
    /\ WF_vars(FastTimer) /\ WF_vars(SlowTimer) /\ WF_vars(HourlyTimer)

-----------------------------------------------------------------------------
(* What the statistics promise.                                            *)

(***************************************************************************)
(* A rate is never computed across a reset: whatever the published rates   *)
(* say happened between two readings of pg_stat_database did happen, no    *)
(* more and no less, outages and resets in between included (health.rs:    *)
(* "a reset between the samples makes every counter incomparable").        *)
(***************************************************************************)
RatesAreExact ==
    \A d \in Db : LET rates == cache[d].rates
                IN  rates # None => rates.delta = rates.upto - rates.from

(***************************************************************************)
(* As long as nobody resets the counters, every statement is in exactly    *)
(* one published window, outages included: the windows add up to what was  *)
(* done between the first and the last successful reading, and the rows of *)
(* the file never hold more than the windows that were published           *)
(* (apply_fast_tick: "the tick after a blip reports a longer window with   *)
(* correct arithmetic").                                                   *)
(***************************************************************************)
NothingLostBetweenWindows ==
    \A d \in Db :
        LET load == ledger["load"][d]
            last == cache[d].previous_health
        IN  /\ load.stored <= load.shown
            /\ server[d].stats_reset = 0 /\ load.first # None =>
                   last # None /\ load.first + load.shown = last.work

(***************************************************************************)
(* The calls of a minute are never more than the database executed in it.  *)
(***************************************************************************)
IsFloor(calls) == calls.delta = None \/ calls.delta <= calls.upto - calls.from

(***************************************************************************)
(* That is so whatever is reset, evicted or created in between, and        *)
(* however many rows have one query id, unless the row of the earlier      *)
(* reading that was kept for a query id had fewer calls than another       *)
(* (throughput.rs, build of statements.rs).                                *)
(***************************************************************************)
MinutesAreAFloor ==
    \A d \in Db : LET throughput == cache[d].throughput
                IN  throughput # None => throughput.masked \/ IsFloor(throughput.calls)

(***************************************************************************)
(* What throughput.rs says of the calls: "exact - a counter of every       *)
(* execution".  It would make them a floor at least; a masked row of the   *)
(* earlier reading makes them too high.                                    *)
(***************************************************************************)
MinutesAreNeverTooHigh ==
    \A d \in Db : LET throughput == cache[d].throughput
                IN  throughput # None => IsFloor(throughput.calls)

(***************************************************************************)
(* No window is stored twice: the file never holds more work than was      *)
(* published, although a row is read back from a cache that another timer  *)
(* publishes into as well and that keeps its throughput from the last      *)
(* minute when this one has none.                                          *)
(***************************************************************************)
NoWindowStoredTwice ==
    \A kind \in DOMAIN ledger : \A d \in Db :
        ledger[kind][d].stored <= ledger[kind][d].shown

(***************************************************************************)
(* After an outage every fast section comes back and the error is gone,    *)
(* without a restart and whatever the two timers still had in flight.      *)
(***************************************************************************)
Recovered(d) == cache[d].activity = "ready" /\ cache[d].health = "ready" /\ ~cache[d].last_error

RecoversAfterOutage == \A d \in Db : <>[](server[d].up) => <>[]Recovered(d)

(***************************************************************************)
(* A database that stays unreachable is reported as such in the end,       *)
(* although the fast tick goes by cached capabilities (last_error: "lets   *)
(* the UI say this database is down once").                                *)
(***************************************************************************)
OutageIsShown == \A d \in Db : <>[](~server[d].up) => <>[](cache[d].last_error)

(***************************************************************************)
(* An open history file that stops taking writes is reported in the end    *)
(* and stays reported, whichever timer writes and although every fast tick *)
(* clears the report (LastError: "a full disk would silently stop history  *)
(* while every card kept updating").                                       *)
(***************************************************************************)
DiskFailureIsShown == <>[](history = "failing") => <>[]write_error

(***************************************************************************)
(* And the report goes away when the file takes writes again and the       *)
(* databases answer, although only one of three timers ever clears it.     *)
(***************************************************************************)
DiskRecoveryIsShown ==
    (<>[](history = "working") /\ <>[](\A d \in Db : server[d].up)) => <>[](~write_error)

=============================================================================
