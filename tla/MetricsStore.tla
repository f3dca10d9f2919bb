---------------------------- MODULE MetricsStore ----------------------------
(***************************************************************************)
(* db_stats/store.rs: three days of metrics in one redb file, written by   *)
(* the timers of db_stats/collector.rs and read by GET /api/Stats/History. *)
(*                                                                         *)
(* redb runs one write transaction at a time (the others wait in           *)
(* begin_write) and gives every reader the file as it was at begin_read.   *)
(* A transaction that has not committed leaves nothing behind, whether its *)
(* task failed or the process died.                                        *)
(*                                                                         *)
(* A row is its key; the payload is a function of it.  A path is a mount   *)
(* and the case it is spelled in: paths_are_equal ignores the case, and    *)
(* the next start may read another spelling from the settings file, or no  *)
(* longer find the mount there.                                            *)
(***************************************************************************)
EXTENDS Integers

CONSTANTS Mount,       \* the databases a settings file may name
          Spelling,    \* the cases one path may be spelled in
          Table,       \* the tables that are written
          None,        \* no transaction, no owner, no read
          RETENTION,   \* in ticks of the clock
          MAX_HOURS,   \* the widest window, in the same unit
          Asked,       \* the numbers of hours a request may name
          Sections,    \* the sections a request may name
          MaxLag,      \* how long a transaction waits for its commit at most
          MaxTime,     \* bound: the clock stops here
          MaxTicks,    \* bound: ticks of all timers
          MaxRestarts  \* bound: starts after the first

ASSUME StoreAssumption ==
    /\ RETENTION \in Nat /\ MAX_HOURS \in Nat /\ MaxLag \in Nat
    /\ Table \subseteq {"load_samples", "minute_samples", "table_samples",
                    "statement_samples", "longest_samples"}
    /\ MAX_HOURS >= 1 /\ MAX_HOURS >= RETENTION /\ MaxLag < RETENTION
    /\ Asked \subseteq Int
    /\ None \notin Table \cup {"hourly"}

VARIABLES now,       \* the clock
          mounts,    \* the paths this run serves
          isOpen,    \* whether this start could open the file
          rows,      \* what is committed in the file
          writer,    \* timer -> what it is doing
          holder,    \* the timer whose write transaction is open
          written,   \* ghost: every row ever committed
          swept,     \* ghost: the cutoff of the last sweep
          ticks,     \* ticks so far, of all timers
          restarts   \* starts after the first

storeVars == <<now, mounts, isOpen, rows, writer, holder, written,
               swept, ticks, restarts>>

Path == Mount \X Spelling
PathsAreEqual(p, q) == p[1] = q[1]

Hourly == Table \ {"load_samples", "minute_samples"}
\* The fast and the slow timer, named by the table they write, and the hourly.
Timers == {"hourly"} \cup (Table \ Hourly)
Row(table, at, path) == [table |-> table, at |-> at, path |-> path]

\* A write transaction: what to insert, or the horizon of a sweep.
NoTxn == [rows |-> {}, cutoff |-> None]
Insert(batch) == [rows |-> batch, cutoff |-> None]
Sweep(cutoff) == [rows |-> {}, cutoff |-> cutoff]

\* A timer between its ticks; the hourly one still has databases to visit.
Between(at) == [txn |-> NoTxn, at |-> at, left |-> {}, running |-> FALSE]

\* Mistake: duplicates looked for with ==.
MountingsExactly == SUBSET Path \ {{}}

\* The paths of one start: no two of them equal.
Mountings == {S \in SUBSET Path : S # {} /\ \A p, q \in S : PathsAreEqual(p, q) => p = q}

Init == /\ now = RETENTION /\ mounts \in Mountings
        /\ isOpen \in BOOLEAN /\ rows = {}
        /\ writer = [w \in Timers |-> Between(0)] /\ holder = None
        /\ written = {} /\ swept = 0 /\ ticks = 0 /\ restarts = 0

-----------------------------------------------------------------------------
(* What a tick has to store.                                               *)

\* A row of all-nulls is not stored: one half of the tick must have data.
LoadSample(health, activity) == health \/ activity

\* A minute needs its calls or a sighting.
MinuteSample(calls, longest) == calls \/ longest

SampleOf(table, x, y) ==
    IF table = "load_samples" THEN LoadSample(x, y) ELSE MinuteSample(x, y)

\* Each list goes whole under one key; an empty list has no row.
HourOf(at, p, filled) == {Row(t, at, p) : t \in filled}

\* Mistake: the row at the horizon goes too.
ExpiredAtHorizon(cutoff) == {r \in rows : r.at <= cutoff}

\* GarbageCollected: what a sweep takes, of every table and every path.
Expired(cutoff) == {r \in rows : r.at < cutoff}

-----------------------------------------------------------------------------
(* The timers.                                                             *)

TickStarts(w) == ~writer[w].running /\ writer[w].txn = NoTxn
                    /\ writer[w].at < now /\ ticks < MaxTicks

\* The fast and the slow tick: every database in one transaction.
SeriesTick(table) ==
    /\ TickStarts(table)
    /\ \E first, second \in SUBSET mounts :
         LET sampled == {p \in mounts : SampleOf(table, p \in first, p \in second)}
         IN  /\ sampled # {} /\ isOpen
             /\ writer' = [writer EXCEPT ![table] = [Between(now) EXCEPT
                             !.txn = Insert({Row(table, now, p) : p \in sampled})]]
    /\ ticks' = ticks + 1
    /\ UNCHANGED <<now, mounts, isOpen, rows, holder, written, swept, restarts>>

\* The hourly tick takes its time once, for every database it will visit.
HourlyTick ==
    /\ TickStarts("hourly") /\ isOpen
    /\ writer' = [writer EXCEPT !["hourly"] =
                     [Between(now) EXCEPT !.left = mounts, !.running = TRUE]]
    /\ ticks' = ticks + 1
    /\ UNCHANGED <<now, mounts, isOpen, rows, holder, written, swept, restarts>>

\* write_hourly: the three lists of one database, one transaction; a database
\* with nothing to say has none.
HourlyVisit(p) ==
    LET w == writer["hourly"] IN
    /\ w.running /\ w.txn = NoTxn /\ p \in w.left
    /\ \E filled \in SUBSET Hourly :
         writer' = [writer EXCEPT !["hourly"].left = @ \ {p},
                                  !["hourly"].txn = Insert(HourOf(w.at, p, filled))]
    /\ UNCHANGED <<now, mounts, isOpen, rows, holder, written, swept, ticks, restarts>>

\* collect_garbage: the horizon is computed before the transaction begins.
HourlySweep ==
    LET w == writer["hourly"] IN
    /\ w.running /\ w.txn = NoTxn /\ w.left = {}
    /\ writer' = [writer EXCEPT !["hourly"].running = FALSE,
                                !["hourly"].txn = Sweep(now - RETENTION)]
    /\ UNCHANGED <<now, mounts, isOpen, rows, holder, written, swept, ticks, restarts>>

\* begin_write: one write transaction at a time.
BeginWrite(w) ==
    /\ writer[w].txn # NoTxn /\ holder = None
    /\ holder' = w
    /\ UNCHANGED <<now, mounts, isOpen, rows, writer, written, swept, ticks, restarts>>

\* The commit makes all of a transaction visible and durable, in one step.
Commit(w) ==
    /\ holder = w
    /\ LET txn == writer[w].txn IN
       IF txn.cutoff = None
       THEN rows' = rows \cup txn.rows /\ written' = written \cup txn.rows /\ UNCHANGED swept
       ELSE rows' = rows \ Expired(txn.cutoff) /\ swept' = txn.cutoff /\ UNCHANGED written
    /\ holder' = None
    /\ writer' = [writer EXCEPT ![w].txn = NoTxn]
    /\ UNCHANGED <<now, mounts, isOpen, ticks, restarts>>

\* Mistake: one commit per insert, so a failure keeps what was inserted before.
AbortHalfway(w) ==
    /\ holder = w /\ holder' = None
    /\ \E S \in SUBSET writer[w].txn.rows : rows' = rows \cup S /\ written' = written \cup S
    /\ writer' = [writer EXCEPT ![w].txn = NoTxn]
    /\ UNCHANGED <<now, mounts, isOpen, swept, ticks, restarts>>

\* An insert or the commit fails: the transaction is dropped, the tick goes on.
Abort(w) ==
    /\ holder = w
    /\ holder' = None
    /\ writer' = [writer EXCEPT ![w].txn = NoTxn]
    /\ UNCHANGED <<now, mounts, isOpen, rows, written, swept, ticks, restarts>>

-----------------------------------------------------------------------------
(* GET /api/Stats/History.  A read transaction sees the file as it was at  *)
(* begin_read, so an answer is a function of one state and of the clock a  *)
(* little before it.                                                       *)

\* Mistake: capped, but not raised to an hour.
ClampedAbove(h) == IF h > MAX_HOURS THEN MAX_HOURS ELSE h

\* hours.clamp(1, MAX_HOURS)
Clamped(h) == IF h < 1 THEN 1 ELSE IF h > MAX_HOURS THEN MAX_HOURS ELSE h

\* HistoryInput::window, with the clock read `lag` before the file.
Window(h, lag) == (now - lag - Clamped(h)) .. (now - lag)

\* HistoryInput::section and the dispatch on it: no section, a blank one and
\* one that nobody knows mean the load.
SectionTable == [tables |-> "table_samples", statements |-> "statement_samples",
                 minutes |-> "minute_samples", longest |-> "longest_samples"]
TableOf(section) == IF section \in DOMAIN SectionTable THEN SectionTable[section] ELSE "load_samples"

ASSUME SectionAssumption == \A section \in Sections : TableOf(section) \in Table

\* AppContext::get_db: resolved like the MCP middleware does it.
GetDb(asked) == {p \in mounts : PathsAreEqual(p, asked)}

\* Mistake: the stored path compared with ==.
ReadExactly(table, window, path) ==
    {r \in rows : r.table = table /\ r.at \in window /\ r.path = path}

\* MetricsStore::read: the range of the window, filtered to one mount.
Read(table, window, path) ==
    {r \in rows : r.table = table /\ r.at \in window /\ PathsAreEqual(r.path, path)}

\* A point has the time of its row and what was recorded then, and no path.
Point(r) == [at |-> r.at, value |-> r]

\* HistoryModel: one of the series is filled, the others are there and empty.
EmptyModel(error) == [error |-> error, series |-> [t \in Table |-> {}]]
WithRows(model, table, found) == [model EXCEPT !.series[table] = {Point(r) : r \in found}]

\* handle_request, for a mount that was found; one that was not is a 404.  A
\* read that fails is answered like one of a file that could not be opened.
HandleRequest(path, section, hours, lag) ==
    IF ~isOpen THEN EmptyModel(TRUE)
    ELSE WithRows(EmptyModel(FALSE), TableOf(section),
                  Read(TableOf(section), Window(hours, lag), path))

-----------------------------------------------------------------------------
(* The clock, and the process dying at any moment.                         *)

Waiting(w) == writer[w].running \/ writer[w].txn # NoTxn

Tick == /\ now < MaxTime
        /\ \A w \in Timers : Waiting(w) => now - writer[w].at < MaxLag
        /\ now' = now + 1
        /\ UNCHANGED <<mounts, isOpen, rows, writer, holder, written, swept, ticks, restarts>>

Restart == /\ restarts < MaxRestarts
           /\ restarts' = restarts + 1
           /\ mounts' \in Mountings /\ isOpen' \in BOOLEAN
           /\ writer' = [w \in Timers |-> Between(writer[w].at)]
           /\ holder' = None
           /\ UNCHANGED <<now, rows, written, swept, ticks>>

Next == \/ \E t \in Table \ Hourly : SeriesTick(t)
        \/ HourlyTick \/ HourlySweep \/ \E p \in Path : HourlyVisit(p)
        \/ \E w \in Timers : BeginWrite(w) \/ Commit(w) \/ Abort(w)
        \/ Tick \/ Restart

Spec == Init /\ [][Next]_storeVars

-----------------------------------------------------------------------------
(* Properties.                                                             *)

RowType == [table : Table, at : Int, path : Path]

\* Types, and that only a timer with a transaction can hold the file.
TypeOK ==
    /\ now \in Nat /\ mounts \subseteq Path /\ isOpen \in BOOLEAN
    /\ \A p, q \in mounts : p[1] = q[1] => p = q
    /\ rows \subseteq RowType /\ written \subseteq RowType
    /\ swept \in Int /\ ticks \in Nat /\ restarts \in Nat
    /\ \A w \in Timers :
         /\ writer[w].txn.rows \subseteq RowType
         /\ writer[w].txn.cutoff \in Int \cup {None}
         /\ writer[w].at \in Nat /\ writer[w].running \in BOOLEAN
         /\ writer[w].left \subseteq mounts
    /\ holder \in Timers \cup {None}
    /\ holder # None => writer[holder].txn # NoTxn

\* A history request that succeeds returns the series of its mount, all of it
\* and nothing else: every row ever committed that lies in the window and
\* inside the retention, before whatever restarts and under whatever spelling
\* of the path it was written, and whatever number of hours was asked for; one
\* that cannot read says so and shows no series (history_action.rs,
\* MetricsStore::read).
ReadIsFaithful ==
    \A p \in UNION {GetDb(asked) : asked \in Path}, section \in Sections :
      LET table == TableOf(section)
          own   == {r \in written : r.table = table /\ r.path[1] = p[1]}
      IN \A h \in Asked, lag \in 0 .. MaxLag :
        LET model == HandleRequest(p, section, h, lag)
            found == {point.value : point \in model.series[table]}
        IN  /\ \A t \in Table \ {table} : model.series[t] = {}
            /\ found \subseteq own
            /\ \A point \in model.series[table] : point.at = point.value.at
            /\ model.error => found = {} /\ ~isOpen
            /\ ~model.error =>
                   \A r \in own : /\ r.at <= now - lag
                                  /\ r.at >= now - RETENTION
                                  /\ \E k \in {1, h} : r.at >= now - lag - k
                                  => r \in found

\* History is kept for RETENTION: a committed row leaves the file only when it
\* is older than that, through crashes, failed sweeps and starts that could not
\* open the file (collect_garbage, delete_older_than).
NothingYoungIsLost == \A r \in written : r.at >= now - RETENTION => r \in rows

Waited == {writer[w].txn.rows : w \in {v \in Timers : writer[v].txn.rows # {}}}

History == INSTANCE HistoryLog WITH
    Batches <- {b \in SUBSET RowType : b # {}}, offered <- Waited,
    log <- rows, horizon <- swept

\* What a tick writes appears whole or not at all (an hour is never left with
\* table sizes and no statements beside them), and what a sweep left behind is
\* never older than its horizon, for paths the settings no longer name too.
HistoryIsALog == History!Spec
=============================================================================
