# postgres-mcp-server in TLA+

TLA+ modules, TLC runs and TLAPS proofs for postgres-mcp-server: a Rust process
that mounts several Postgres databases, offers each of them to AI agents over
MCP (`sql_request`, `db_stats`), lets an operator open a ten-minute write window
per database from an admin page, and collects statistics of every database in
the background.

The model is translated from `src/src` (the server) and `src/ui/src` (the pages);
`PROJECT.json` maps every definition to
the lines it stands for.

    tlc -workers 2 -config WriteGate.cfg MCWriteGate
    tlapm WriteGateProofs.tla
    tlapm MetricsStoreProofs.tla
    tlapm PagesProofs.tla
    tlapm CollectorProofs.tla
    tlapm ServerConfigProofs.tla
    tlapm LongestSeenProofs.tla
    tlapm AlgorithmsProofs.tla

## 1. Inventory

How the parts meet: an agent's call goes through **settings** (which mount?),
the **classifier** (is it a write?), the **write gate** (is the window of this
database open?), the **Postgres** driver and the **request log**. The operator
clicks the **write window** open and shut over HTTP while calls are in flight.
Three **collector** timers query the databases, publish into one **cache** per
database, fill and drain two **longest-seen windows** per database and write to
one **history store**. The **statistics API** reads the caches and the store, and
the two **pages** of the UI poll the API, show what it says and send the clicks. All of it runs on one multi-threaded tokio
runtime; only the settings file and the history file survive a restart.

| component | state | operations | what is hard | what makes it correct |
|---|---|---|---|---|
| write window (`app/db_ctx.rs`) | one `AtomicI64` deadline per database | enable (clock read, then `fetch_update`), disable (store 0), read (load, then clock) | two clicks at once, a click against a reset, lazy expiry, restart | every click counts once, on its own database only; a window ends by the clock alone |
| write gate, `sql_request` (`mcp_service/sql_request.rs`, `sql_guard/write_gate.rs`, `postgres/postgres.rs`) | locals of each call | classify, gate, run, log | the gate's check is not atomic with the execution; answers that come late or never | no write without a window; no call goes unanswered; the entry tells the truth |
| request log (`sql_log/`) | ring of 100 entries, id counter | add, get_all | id taken outside the mutex, overflow, order | the last 100 answers, under distinct ids |
| statistics cache (`db_stats/cache.rs`) | snapshot, retained samples | apply fast, slow, capabilities; read | failed ticks, resets, two writers | rates only between comparable samples, none lost, none repeated |
| collector (`db_stats/collector.rs` and the queries it sends) | one task per tick and database | fast 5 s, slow 60 s, hourly | timers overlap, state read before an await is used after it, partial failure | outages and disk failures are shown, and go away |
| longest-seen windows (`db_stats/longest_seen.rs`) | map of executions per database | observe, drain | five rows a tick, cap of 512, top of five; a drain between a fetch and its fold; two windows fed from the same ticks | the top of the window is the true top |
| history store (`db_stats/store.rs`, `history_action.rs`) | redb file, tables keyed by time and path; the transaction of each timer | write load, minutes, hourly; ranges; sweep | one writer at a time, commit of several tables, failures and crashes, a horizon computed early, paths spelled differently after a restart | a batch whole or not at all, nothing young lost, a request answered from all of its mount |
| settings and mounts (`settings.rs`) | YAML file, list of mounts | load and validate, route, connection string, server and database keys | edits of the file under a running server, one server written in many ways | a path reaches one database, a mount connects to its own, one card per server |
| classifier (`sql_guard/classifier.rs`) | none | classify | quotes, comments, several statements, words that write deep inside a query | it judges the statement that Postgres will read, a write is not taken for a read, and a harmless query is not refused |
| disk I/O section (`db_stats/disk_io.rs`) | counters of the previous tick | two queries, differences, ranking | tables enter and leave the fetch, counters restart, half a tick fails | no read invented, no hot table left out |
| server configuration (`extension_setup.rs`, `track_io_timing.rs`) | Postgres' own configuration | set up extension, switch track_io_timing | ALTER SYSTEM, reload and restart are separate; two operators | nothing another operator set is lost |
| admin page (`ui/src/pages/home.rs`) | last poll, saving mark | poll each second, toggle | a poll answered after a toggle, one mark for all rows | the page shows what the server has, no row stays disabled |
| statistics page (`ui/src/pages/stats.rs`, `components/`) | last poll, selected server, panels, mounts whose Postgres is being changed | poll, refresh the panels, switch the server, change Postgres | everything is read before an await and applied after it; a card takes the tasks of its clicks with it when it leaves the screen | panels under their own heading, up to date in the end |
| statistics API, MCP prompts, HTTP startup | none of their own | mapping, formatting, wiring | - | - |

The hazards this code is exposed to are listed in `PROJECT.json`, each at the
line where it bites and with the properties that would catch it.

## 2. Modules

    WriteWindow   what an operator is promised: countdowns, no clock
        ^ implemented by (Left, in WriteGate)
    WriteGate  -- extends -->  RequestLog
        ^ MCWriteGate (TLC)         ^ WriteGateProofs (TLAPS)

    Collector  -- extends -->  StatsCache
        ^ MCCollector (TLC)         ^ CollectorProofs (TLAPS)  -- extends --> FiniteSums

    LongestSeen
        ^ MCLongestSeen (TLC)       ^ LongestSeenProofs (TLAPS)

    ServerConfig
        ^ MCServerConfig (TLC)      ^ ServerConfigProofs (TLAPS)

    HistoryLog    what a writer of the history is promised
        ^ implemented by
    MetricsStore
        ^ MCMetricsStore (TLC)      ^ MetricsStoreProofs (TLAPS)

    Pages -- extends --> AdminPage, StatsPage
        ^ MCPages (TLC)             ^ PagesProofs (TLAPS)

    Algorithms -- extends --> Classifier, Settings, Charts, Endpoints, DiskIo
        ^ MCAlgorithms (TLC)        ^ AlgorithmsProofs (TLAPS)  -- extends --> FiniteSums

### WriteGate, RequestLog, WriteWindow

`WriteGate` has one handler per call and per click, with its program counter in
`pc` and its locals in `call` and `click`. Each access to a shared word is a step:

| code | action |
|---|---|
| `enable_mcp_writes`: `let now = ...` | `EnableReadClock` |
| its `fetch_update` | `EnableUpdate` (deadline as it is now, clock as it was then) |
| `disable_mcp_writes` | `DisableMcpWrites` |
| `execute_tool_call` up to the classifier's verdict | `ReceiveRead`, `ReceiveWrite` |
| `mcp_writes_enabled_until`: the load | `LoadDeadline` |
| the comparison with a later clock | `Admit`, `Refuse` |
| `do_request(...).await` coming back | `ReturnOk`, `ReturnError` |
| `SqlRequestsLog::add`: `fetch_add`, then the lock | `LogTakeId`, `LogPush` |
| the process dies and starts | `Restart` |

What Postgres does with a statement it was handed is `PgApply` and `PgReject`, at
any later moment, the death of the server included: an error answer says nothing
about whether the statement ran. `Tick` moves the clock.

`saw_open` and `answered` are history variables: no action reads them, properties
do. A statement is reduced to whether it is classified a write. The 10 minutes of
`MCP_WRITES_WINDOW` are `Window` clock units.

`WriteWindow` has no clock, no deadline and no handlers: `left[d]` drains, a click
adds a window to the database it names (`request`), exactly once (`counted`), a
reset or restart empties it; a restart may also swallow a click that is under way.
The refinement maps `left` to `until - now` where that is positive, and `counted`
to the clicks whose `fetch_update` is done; it is checked and proved. A lost
update is therefore a violation, not a stutter. `MaxLag`
appears in it because the code does read its clock before it updates: a click on a
closed window is worth a window less its own latency.

### StatsCache, Collector

An operator of `StatsCache` is one critical section of `DbStatsCache`'s mutex.
Sections are reduced to their state, the counters to one of `pg_stat_database`
(with its `stats_reset`) and the calls in the rows of `pg_stat_statements`. That view
has a row for each role, and level, at which a query is executed, and its query sorts them
by execution time (`statements.rs:128-142`, no `GROUP BY`); several rows may so have one
query id (`QueryId`), while `build` keeps one sample per id, the row it inserted last
(`LastInserted`, `by_query_id`), and compares every row of that id with it (`Risen`).
A sample also carries `work`, how many statements the database had truly executed
by then, and a throughput whether a row of the earlier sample was hidden behind one with
fewer calls (`masked`). No action of the collector looks at them; properties compare
figures with them.

`Collector` gives each of the three timers a tick, and a fast or slow tick one task
per database; `pc` follows the awaits of `collect_fast`, `collect_slow` and the
hourly loop. A query succeeds exactly when the connection is up at the instant it
runs. `collect_activity` sends three queries and `collect_disk_io` two; each is one
step, since nothing shared is touched between them and a failure of any fails the
function. Joining the tasks and the commit are `FastWrites`, `SlowWrites`; setting
`metrics_write_error` is a later step (`FastReports`, `SlowReports`,
`HourlyReports`), so another timer may report in between. Postgres
(work, resets, a late `CREATE EXTENSION`, a connection that flips) and the disk
move at any moment.

### LongestSeen

`LongestSeen` is one window with what Postgres executes: backends begin and end
statements, which age. `Fetch` is the query of a fast tick, its `LIMIT` included,
`Observe` the fold into the map and the trim, `TakeTop` the drain; a drain may come
between a fetch and its fold, as the timers do not wait for one another. Ties are
cut either way, since neither the query nor the sort orders them. `worst`, a history
variable, is the same window without any limit. `Collector` has the windows too,
reduced to their longest sighting, for the question which of them is fed.

### ServerConfig

`ServerConfig` is the two endpoints that change Postgres itself, a statement a step:
`Probes` with the decisions of `run` on what it read (`Refuse`, `ProceedToCreate`,
`ProceedToPreload`), then `CreateExtension` or `AlterPreload`; and `AlterTiming`,
`AskForReload`, `ReadBack` for `track_io_timing`. A statement may have no effect and
an error (`Fails`), an effect and an error, or an effect after the handler has given
up (`GivesUp`). `file` is `postgresql.auto.conf`, `server` what runs: a reload
(asked for, then done) takes over the timing, a restart the libraries, and a server
whose list names something that is not a library does not start. A list in the file
is a sequence of elements, each the sequence of names a string literal held, because
`ALTER SYSTEM` stores one literal as one element. An administrator may set the list
by hand and reload at any time.

### MetricsStore, HistoryLog

`MetricsStore` is the redb file with everybody who touches it. A row is its key: the
table, the time of the tick, and the path as it was spelled in the settings file of
that start. The fast and the slow timer write one batch a tick (`SeriesTick`), the
hourly one a transaction per database with up to three rows in three tables
(`HourlyVisit`) and then a sweep whose horizon is computed before its transaction
begins (`HourlySweep`). `BeginWrite` takes the one write lock of redb, `Commit`
makes a transaction visible, `Abort` is an insert or a commit that failed. `Restart`
may come between any two of them, with other paths, another case of the same path
(`paths_are_equal` ignores it) or a file that cannot be opened. A reader takes a
snapshot, so `HandleRequest` (GET /api/Stats/History) is a function of one state and
of a clock read up to `MaxLag` earlier.

`HistoryLog` knows no transaction, timer, table or path: a batch is offered, appended
whole or lost; rows expire by age, below a horizon that only rises. The refinement
maps what the timers hold to `offered`, the rows to `log` and the cutoff of the last
sweep to `horizon`. `written` and `swept` are history variables.

### AdminPage, StatsPage, Pages

A page is its signal plus the tasks that await on it; `Pages` has one of the two
mounted, and leaving a page drops its tasks (`ToStats`, `ToHome`). In `AdminPage`,
`homePoll` is the one-second loop with its two requests and `toggle[t]` a click: the
post, the re-read, what came back. The server's windows (`open`) move by
themselves. In `StatsPage` there are the poll (`loop`, and one after a click that
changed Postgres), the refreshes of the panels (first, every interval, after a
switch), each holding the server and list it read before its first request, and
`config`, what the server would list, which an operator may edit. A click that changes
Postgres (`task[t]`) is spawned by a card inside the section of its mount, which is
keyed by the path (`stats.rs:1727-1738`, `1886-1893`). When a switch of the server or a new
list takes the section off the screen, dioxus drops the task wherever it is: `SelectServer`
and `PollEnds` end it (`Unmounted`), with its poll, and leave `busy` as it was. The
refreshes belong to the page, or to the row of tabs, which stay. `regrouped`, a
history variable, marks that a new list has moved the heading away from panels
already drawn.

A request is answered, or fails with or without effect. A poll is served at the
moment it arrives; a re-read of the admin page is served and arrives in two steps, as a
late one overwrites a newer poll.

### Algorithms: Classifier, Settings, Endpoints, Charts, DiskIo

Five parts that share nothing are checked in one run, `Algorithms`; a behaviour
follows one of them.

`Classifier` grows a text unit by unit, from the units the tokenizer and the rules
tell apart. The tokenizer is a recursive function over positions with one operator per
branch of `tokenize`. Its reference is written from the lexical rules of Postgres: `Modes` is
an automaton that reads the text from left to right, `Begun` the places where something
that is read begins, `Lexed` the tokens that come of it. It ends a line at a carriage return
as well as at a line feed, and goes on with a string with escapes in a later line, neither of
which the code does; `Ordinary` says in which texts that makes no difference. The rules
are compared with what writes in Postgres (`MayWrite`: an INTO at any depth, a locking
clause, a call of a function with side effects, by a quoted name too), on what Postgres reads;
`Overlooked` names the two cases the code does not look for.

`Settings` starts a server from any file of up to two entries and edits the file
under it; paths are sequences of slashes, blanks and segments. `Route` is the order of
the middlewares in `setup_server`. `named`, a history variable, remembers what was
written for which path.

`Endpoints` goes the other way: it takes an endpoint (`meant`), writes it down in each of
the forms a connection string has (`KeywordForms`, `UriForms`: the items in two orders,
the host in capitals or in quotes, `hostaddr`, a password full of marks, a URI with
credentials, alternate hosts and parameters), and parses it back as
`ServerEndpoint::parse` does. Strings are sequences of pieces, cut at marks by
`SplitOnce`, `RSplitOnce`, `Split` and `TrimMatches`, which are what the methods of
`str` of that name do. `Split` gives the parts under the places where they begin, so that
"the first" and "the last" token with a key are a least and a greatest place.

`Charts` follows one refresh of the panels: `FetchPanel` fetches them one after the
other, or gets no answer and leaves one empty, while the collector's clock goes on and
samples are recorded or missing;
`Segments`, `X` and `PanelMarks` are what is then drawn.

`DiskIo` has the counters of three tables and of the WAL, a tick of two queries
(`ReadTables`, with Postgres' own order and limit; `ReadWrites`, which may not be asked
or fail), and what is published. `real`, `seen` and `window` are history variables
that say what was truly read between two ticks.

Definitions marked "Mistake" in the modules are the ways a plausible bug would
change the definition below them. They are used only to confirm that a property
can fail.

## 3. What the runs check

Deadlock is checked in every run but two: in `metrics_store` the clock, the ticks and
the restarts run out, and in `algorithms` a text has its full length, a chart is
drawn, and a connection string has no step at all.

| run | question | result |
|---|---|---|
| `gate` | does any interleaving of two clicks, two calls, resets and restarts on two databases admit a write without a window, log a lie, give an id twice, keep an old answer instead of the last, or break the countdown? | holds |
| `gate_live` | does every window close, is every call answered? | holds |
| `collector_load` | are the rates exact and gapless through outages and resets, and stored once, with a file that fails? | holds |
| `collector_minutes` | are the calls of a minute a floor of the truth with two rows of one query id, resets, evictions and an extension created later, unless the row kept for the id hides another with more calls; are they stored once? | holds |
| `collector_outage` | two timers, a flapping connection: is an outage shown, does recovery clear it? | holds |
| `collector_disk` | fast and hourly timers share an error slot: is a lasting disk failure shown, is its end? | holds |
| `longest_seen` | three backends, a fetch of two, a map of three, a top of two, drains at any time: is the drained top the true top? | holds |
| `server_config` | three overlapping clicks, lost answers, reloads and restarts: is the extension listed once, does any timing change wait in the file unseen? | holds |
| `metrics_store` | three timers, failing transactions, crashes, a sweep, a restart with another spelling: is a batch visible whole or not at all, is anything inside the retention lost, does a request return all of its mount's rows and no others? | holds |
| `pages` | polls, clicks and refreshes in any order, answers that fail or come late, clicks dropped with their cards: does a row of the admin page stay disabled, do panels stand under another server's heading, does every page catch up with the server? | holds |
| `algorithms` | does the classifier read every ordinary text as Postgres does, and let it run just when it is harmless, but for what is overlooked by name; does every path lead to one mount and every mount to its own server; has a server one key; is what is drawn what was recorded; is what a card says was read what was read, and is the hot table on it? | holds |
| `server_config_append` | does a restart still load what it would have loaded before the click? | violated |

### Bounds, and why they are enough

* `gate`: `Window` 1, `MaxLag` 1, `MaxTime` 3 and clicks until 2, so a window can be
  bought, stacked, run out and be bought again, and the clock can pass between the
  two steps of a click or of a check. Two databases: the second is the one a click must not leak
  to. Two calls and two clicks: every hazard listed is between two handlers. A
  ring of one overflows with two calls, and the ids are compared over all answers,
  not only those kept; the order of several kept entries is left to the proof
  (`RingIsComplete`). Databases, calls and clicks are
  interchangeable, hence the symmetry.
* `gate_live`: no symmetry (liveness), one call, `MaxTime` 6 with clicks until 2, so
  the clock can outrun the longest deadline two stacked clicks give.
* `collector_*`: databases share only the report of a failed write and the join at
  the end of a tick, so the runs have one database. `MaxWork` 2 and `MaxResets` 2 in
  `collector_load` let a counter be reset and stay behind, reach or overtake its
  old value, with `stats_reset` the only trace. `collector_minutes` has two
  rows of one query id, so that one can be matched while the other is new or reset, and
  either can be kept for both; it starts without the extension, and its disk does not
  fail. No slow tick begins once more than one call (`MaxShown`) has been shown, so
  that a window with calls may still follow another. The liveness runs need no work, only outages.
* `server_config`: three clicks of any kind, so that two switch the timing in opposite
  directions while a third sets up the extension, or one preloads before and after a
  restart. The list an administrator sets by hand has at most one library, of which one
  has a name that is refused: the code only appends to it and looks for one name in it.
* `longest_seen`: three backends with two statements each are more than a tick fetches,
  and six executions more than the map holds; a top of two tells one long statement
  from the ranking. Ages until 3 let the youngest of three outgrow what was kept
  before it. `TOP_N <= FETCH` and `TOP_N <= MAX_TRACKED`, as in the source, are
  assumptions of the module: without them the property does not hold.
* `metrics_store`: the clock runs from `RETENTION` to `MaxTime` 5 with a retention of 2, so
  rows are written, expire and are asked for in one behaviour, and a sweep's horizon is
  one tick old when it commits. Two ticks of any timers, one restart, two mounts in two
  spellings: two is the least for one transaction in front of another, for a
  collision of paths, and for half a batch. Four of the five tables: two of the
  hourly ones make a transaction of several tables. `Asked` has 0 (raised to an hour)
  and 9 (capped). The mounts and the spellings are interchangeable.
* `pages`: two toggles on two rows, two lists of mounts on two servers, the second with the
  other server first and one mount less, so that the fallback to the first server moves
  the heading and a panel disappears. Both lists have every server, so a selection that is
  not configured any more is met while nothing is fetched, and not later. One change of Postgres
  (`Task`), from one card of a mount (`Card`), and one refresh by a click are in flight at a time
  beside the two loops. No bound on the length of a behaviour.
* `algorithms`: texts of five units under two grammars, one for the rules (14 words)
  and one for quotes, comments, dollar quotes and both ends of a line (14 units); five is one
  more than the longest rule (`explain ( analyze )`) and enough for a comment in a comment.
  Three are narrow and go further: EXPLAIN and its options (8 words, six units), since an
  option may be spelled like a word that begins a statement (`explain ( select ) show for
  share`); strings with escapes, comments and lines (5 units, seven of them), enough for
  a string to be continued in a later line; and calls by a quoted name (3 units, six of them).
  Settings files of two entries out of nine and two edits. Chart: a window of four ticks, a
  gap of one, the clock one ahead, which may move before either of two panels is fetched or
  after both. Endpoints: every combination of three
  hosts (two of them addresses with colons, of which one reads like the other with a
  port), two ports, a tunnel or none, no database or one of three (two differ in case
  only, one has a "/" and an "@" in its name). Disk I/O: three tables, two fetched, one published, three reads and
  one restart of any counters.
* Each run has just the timers its question is about: the rates come from the fast
  timer alone, the minutes from the slow timer alone; outages need the fast and slow
  ones (both write `server`), the disk the fast one (which clears the slot) and the
  hourly one (which only sets it). Between them the runs fire every action.

### Fairness

`WriteGate!FairSpec`: time passes, a handler that has started takes its next step,
and `do_request` comes back, with an answer or an error; the driver call has a
timeout (`postgres.rs`). Nothing is assumed of Postgres, and nobody has to click or
call.

`Collector!FairSpec`: timers tick again and tasks proceed. `query_typed` bounds each
query (`QUERY_TIMEOUT`, and the whole call at twice that), and `MyTimer` repeats.
Nothing is assumed of connections or the disk, so outages may go on for ever or
flap for ever; the properties speak of what lasts.

`Pages!Spec`: the loops of the page that is open, and the toggles of the admin page, take
their next step (weak fairness of each), and a request that is repeated for ever is
answered in the end (strong fairness of `HomePollSettingsArrive` and of `StatsArrive` in the
loop): dioxus polls its tasks, and every request comes back with an answer or an error.
Nobody has to click. On the statistics page nothing is asked either of what a click has
started, since it may be dropped with its card: the two loops alone must keep the page
up to date. A page need not stay open: the liveness properties speak of a page that
does and of a server that keeps its state.

`ServerConfig`, `LongestSeen`, `MetricsStore` and `Algorithms` have no fairness: their
properties are safety.

### Where the code and its documentation disagree

A run shows one of these, as its consequence is the worst:

* **Appending to a preload list breaks the server** (`server_config_append`). The list
  goes into one string literal, `'pg_cron,pg_stat_statements'`; for a list setting
  Postgres takes a literal as one element, so the file names one library with a comma in
  its name and the next start fails. `extension_setup.rs:18` says "Two ways to break a
  server, both guarded", and the page promises that the library is appended "so other
  extensions keep working" (`stats.rs:600`). With an empty list, one name is written
  and all is well. The list is also built from the running value, so one set and not yet
  restarted into is replaced.

More, met while modelling, have no run of their own:

* The log is not chronological. Entries carry the time a call started and are pushed
  when it ends, so of two overlapping calls the one that started first may stand above
  the other; `app_ctx.rs:21` promises "a single chronological timeline". `NewestFirst`
  in `WriteGate` states it, and two calls refute it.
* The minute's longest query is never collected. `collect_fast` observes into
  `longest_seen` only (`FastObserves`); `longest_seen_minute` is drained every minute
  (`SlowDrainsMinute`) and never fed, while `longest_seen.rs:15` says of the two windows
  "They observe the same ticks; only the flush differs".
* The calls of a minute are not "exact — a counter of every execution", as
  `throughput.rs:11` has it. They may be too low: a statement that has no row in the earlier
  sample has no delta, and its executions enter no window. And they may be too high: the
  rows of `pg_stat_statements` are per role and level, what is kept for the next tick is
  per query id (`statements.rs:203-212`), so of a query that two roles have executed 1000 and
  10 times the row with 1000 may be compared with the 10 (`198-201`), and 990 calls show in a
  minute in which nothing ran. `MinutesAreNeverTooHigh` in `Collector` states the
  contrary, and TLC refutes it; what does hold is that the figure is a floor unless the
  earlier sample hid a row behind one with fewer calls (`MinutesAreAFloor`).
* A mount may be called busy when nothing is going on. `stats.rs:64` and `:68` say of
  `extension_busy` and `io_timing_busy` "Mount whose extension install is in flight" and "so
  only that card's buttons go quiet". The task that would clear the field is dropped with
  its card when the operator looks at another server, or the mount leaves the list for
  a while, before the answer is there: the buttons of that mount stay quiet until another
  change from such a card ends or the page is left. With two changes under way, the end of one
  gives back the buttons of the other. `BusyMountIsChanging` in `StatsPage` states the
  promise, and six states refute it. The rest of the page does not depend on the field:
  what was lost is one early poll.
* The classifier reads some texts otherwise than Postgres does (`SameStatement` without
  `Ordinary` is refuted): a carriage return ends a `--` comment for Postgres and not for
  `tokenize` (`classifier.rs:380`), and a string with escapes that is continued in a later line
  keeps its escapes, while the code begins a plain string there (`:409-417`). And its
  rules do not look for two things that may write (`ReadMeansHarmless` without `Overlooked` is
  refuted): an INTO inside parentheses, although the comment at `:270` says of INTO that it
  creates a table and the code asks for depth 0 (`:272`), and a side-effect function that
  is called by a quoted name (`:295`, where the name is an opaque token). In such a text a
  statement that writes may count as a read.
* A label does not tell two servers apart as well as host and port do. The default port is
  left off and an address is written without brackets, so host `::1` with port 6432 and
  host `::1:6432` with port 5432 both read `::1:6432`, while `settings.rs:227` says that the
  label without the port "carries the same information". `LabelTellsServers` in
  `Endpoints` states it, and these two hosts refute it; what does hold is that the label
  tells the servers apart unless an address with colons is written without its port
  (`LabelTells` in `OneCardPerServer`). The keys, by which the page groups, are not
  concerned.

And one promise that the page only keeps in one direction: a row that is disabled has a
click in flight (`QuietRowIsChanging`), but a row with a click in flight need not be
disabled, since one slot (`saving`) serves all rows. The rows of the admin page are keyed
components too; its mounts are fixed in the model, so that no row leaves under a click.

## 4. What is proved

### The write gate

`WriteGateProofs` proves for every set of databases, calls and clicks and every
value of the bounds. The assumptions are those of the modules:
`WindowAssumption` (`MaxLag <= Window`, naturals), `HandlerAssumption` (a call is
not a click) and `MaxItemsAssumption` (the ring has room for one).

| theorem | statement | argument |
|---|---|---|
| `TypeCorrect` | `Spec => []TypeOK` | `TypeOK` is inductive; the only work is the ring, a `SubSeq` and an `Append` |
| `NoUngatedWrite` | `Spec => []AdmittedOnlyWhileOpen` | `GateInv` |
| `DeadlineIsACountdown` | `Spec => WindowIsACountdown` | `LagInv`, then one step of `WriteWindow`, or none, per action |
| `LogNeverLies` | `Spec => []LogIsTruthful` | `ReportInv`, `LogInv` |
| `RingIsComplete` | `Spec => []RingHoldsTheLastAnswers` | `RingInv` |

*Why the strengthenings are needed.* `AdmittedOnlyWhileOpen` alone is not
inductive: a call between load and comparison holds a deadline that the database
may no longer have. `GateInv` says that such a call either saw its window open or
holds a deadline that has passed, and that a call at the gate has seen its window
open if it is open now. For the countdown, `LagInv` bounds how far a click's
clock reading is behind. For the log, an entry has to be true when pushed, so
`ReportInv` says the verdict a handler carries to the log is already true of
Postgres, and `DoneIsSettled` that `applied` and `none` of an answered call do not
change. For the ring, `RingInv` adds that every id in the ring or in a handler's
hand is below the counter and that no two are equal. Lemmas on `MakeRoom` and
`PushItem` say which elements stay.

### The history file

`MetricsStoreProofs` proves for every set of series tables and of paths, every
retention and every clock. `StoreAssumption` says what the constants of the source
satisfy: the maximum a request may ask for covers the retention (72 hours and three
days in the source), a reader's or writer's clock lags by less than the retention, and
the tables are named. `SectionAssumption` says that a section has a table.

| theorem | statement | argument |
|---|---|---|
| `TypeCorrect` | `Spec => []TypeOK` | `TypeInv` |
| `RetentionHolds` | `Spec => []NothingYoungIsLost` | `HorizonInv`, `FileInv` |
| `RequestsAreFaithful` | `Spec => []ReadIsFaithful` | types only; the clamped window is inside what a reader may ask, whatever was asked |
| `FileIsALog` | `Spec => HistoryIsALog` | `Inv`, then one step of `HistoryLog`, or none, per action |

*Why the strengthenings are needed.* A horizon is computed before its transaction
begins, so that nothing young is lost at a commit has to be known while the sweep still
waits: `HorizonInv` says that no pending horizon is inside the retention or behind an
earlier sweep, and that only the hourly timer has one. Whether a committed batch is a
step of the log depends on it being offered, not already expired and nobody else's:
`FreshInv` says that what waits is at most `MaxLag` old, carries the time of its tick
and names tables of its own timer, so two waiting batches share no row
(`BatchesAreDisjoint`). `MaxLag < RETENTION` is what keeps a late batch ahead of the
horizon; were a batch held longer than the retention, the log would append a row that
has expired.

### The pages

`PagesProofs` proves for every set of mounts, lists, servers, cards and clicks.
`AdminAssumption` says that "no row" is not a mount, `ListAssumption` that a list that is
not empty has a first mount, `TaskAssumption` that a click is not the loop and that no mount
has "none" for its path.

| theorem | statement | argument |
|---|---|---|
| `TypeCorrect` | `Spec => []TypeOK` | `PagesInv` |
| `QuietRowsAreChanging` | `Spec => []QuietRowIsChanging` | `AdminInv`: the slot, when set, names the row of a click in flight |
| `NoForeignPanels` | `Spec => []ChartUnderItsHeading` | `StatsInv`; a refresh draws only after it has compared its server with the heading |

`AdminInv` is about the slot, not about the rows: a click puts its row there when it
starts, and every click that ends clears the slot, whichever row it names; so the slot
never outlives its click, at the price that another row may wake too early.
`StatsInv` has that a click in flight is one of a card on the screen (`ClickIsOnScreen`, part of
`TypeOK`): whatever moves the heading or the list drops the clicks that lose their card, and
nothing else changes what is shown. It adds that a poll after a click comes after its
change, that what is selected and what is drawn is a server or nothing, and that nothing is
drawn while the page says "loading".

### The collector

`CollectorProofs` proves for every set of databases, of timers and of statements, and
every bound on work and resets. It uses `CollectorAssumption` (the kinds of the
constants), `StatementAssumption` (finitely many rows, as a server has, each with a query id)
and `NoneAssumption` ("nothing" is neither a number nor a window).

| theorem | statement | argument |
|---|---|---|
| `TypeCorrect` | `Spec => []TypeOK` | `TypeInv` |
| `RatesAreRight` | `Spec => []RatesAreExact` | `LoadInv` |
| `WindowsAddUp` | `Spec => []NothingLostBetweenWindows` | `LoadInv` |
| `MinutesAreFloors` | `Spec => []MinutesAreAFloor` | `MinutesInv`, `MinuteIsFloor` and the sums of `FiniteSums` |
| `NothingIsStoredTwice` | `Spec => []NoWindowStoredTwice` | the books of both |

*Why the strengthenings are needed.* A rate is the difference of two counters, and the
property speaks of work. `LoadInv` therefore orders the retained sample, the one in a
tick's hands and the server (`Follows`): the work and the era of the statistics never go
back, and within one era the counter moves with the work. That is what makes the
comparison of `stats_reset` in `rates` enough, also when a counter has overtaken its old
value. A row is read back from the cache after the await, so `LoadInv` and
`MinutesInv` also keep the books (`LoadIsBooked`, `MinutesAreBooked`): what has been
stored, with what the tick under way has still to store, is at most what has been
published. The calls of a minute are a sum of clipped differences over the rows
whose query id both samples have. Which those are is only known when the second sample is
there, so `MinutesInv` says of every set of rows that together they have risen by no
more than the work (`Outgrows`); a bound for each row alone would not add up. In whatever
order the rows are read, a sample has their calls as the server has them (`SampleIsRead`). If
the earlier sample hides no row behind a lower one, then what a row is compared with is no
less than the row itself had, and the sum can only be lower (`MinuteIsFloor`).

`FiniteSums` has the facts about sums over a finite set that this needs: that they are
naturals, grow by one when one summand does, and are monotone. The induction over
finite sets is stated there for a set of subsets instead of for an operator
(`FiniteInduction`), which the provers can instantiate, and the recursive
function behind the fold is unfolded once (`SumUnfolds`).

### The longest-seen windows

`LongestSeenProofs` proves for any backends, statements, ages and any limits that satisfy
`LimitAssumption` (`TOP_N <= FETCH`, `TOP_N <= MAX_TRACKED`, which the constants of the
source do) and `BoundAssumption` (the bounds are naturals).

| theorem | statement | argument |
|---|---|---|
| `TypeCorrect` | `Spec => []TypeOK` | the trim leaves at most `MAX_TRACKED` |
| `LimitsCostNothing` | `Spec => []TopIsTheTop` | `Accounted` |

*Why the strengthening is needed.* What a drain returns says nothing of an execution that
a fetch or a trim has cut off and that may come back. `Accounted` says, of each execution
the unlimited window knows: the map has it at its longest sighting, or the map has at
least `TOP_N` entries that are as long. The first may turn into the second at any
trim; the second lasts until a drain empties both windows: entries only grow, and a trim that
removes one of them keeps longer ones. That the fold of an incomplete fetch keeps it needs `FETCH >= TOP_N`
(`FetchedLongest`: the rows of a tick are the longest of what was running), that the
trim does needs `MAX_TRACKED >= TOP_N`. From `Accounted` to the top itself is a
counting argument over `AtLeast`, the number of entries above a length.

### The server configuration

`ServerConfigProofs` proves for any set of clicks and of libraries, with
`LibraryAssumption` only (the extension is not one of the other libraries).

| theorem | statement | argument |
|---|---|---|
| `TypeCorrect` | `Spec => []TypeOK` | `TypeOK` is inductive |
| `ListedOnce` | `Spec => []NamedOnce` | `OneElement`, `AppendsOnce` |
| `ChangesAreSeen` | `Spec => []NoChangeWaitsUnseen` | itself, and `AnsweredOnce` |

*Why the strengthenings are needed.* What the file names is a flattened list of lists.
`OneElement` says it is empty or holds one element that names the library at
most once, since every writer replaces the whole value; `AppendsOnce` that a handler on its way
to `AlterPreload` appends to a list without it, so that a late or repeated statement
writes what an earlier one wrote and not more. `NoChangeWaitsUnseen` is
inductive once it is known that an answer is final: `AnsweredOnce` says that a handler
at work has not answered, so that the error which excuses a waiting change is not
taken back. The two properties hold for any number of operators; that what the file
names can be loaded does not (`LibrariesAreKept`, section 3).

### Classifier, settings, endpoints, charts and disk I/O

`AlgorithmsProofs` proves for every set of grammars, every settings file, any panels and every
set of relations, with `GrammarsAssumption` (what the tokenizer makes of a literal, a quoted name or an error is no
unit of a text), `EntriesAssumption` (a path is a sequence, its blanks stand around it) and
`DiskAssumption` (finitely many relations, none of them the WAL; the limits are naturals;
"unknown" is no number), `ChartsAssumption` (the window and the gap are naturals) and
`EndpointsAssumption` (no part of an endpoint holds what ends it in a connection string: none has
a blank or a quote; a host is not empty, in lower case, and has no `@`, `/`, `?`, `,`, bracket
or `://`, a port no colon either, a tunnel no `/` or `&`, a database no `?`; a host may have colons, a
database slashes and `@`). Nothing is assumed of `FETCH_N` against `TOP_N`.

| theorem | statement | argument |
|---|---|---|
| `StatementsAreSame` | `Spec => []SameStatement` | `TokensAreLexed` |
| `ReadsAreHarmless` | `Spec => []ReadMeansHarmless` | `TokensAreLexed`; `ReadsIsHarmless`, `HarmlessReads` |
| `EveryMountIsServed` | `Spec => []MountsAreServed` | `MountsInv`, and what `NormalizePath` returns |
| `ConnectionsAreOwn` | `Spec => []ConnectsToItsOwn` | `NamesInv` |
| `ChartsAreAsRecorded` | `Spec => []DrawnAsRecorded` | `SegmentsAre`, `DrawnInv` |
| `ServersAreTold` | `Spec => []OneCardPerServer` | `WrittenParses`; `KeyTells`, `DatabaseKeyTells`, `LabelIsTold` |
| `NoReadIsInvented` | `Spec => []NothingInvented` | `CountersInv`, `ReadingInv`, `SnapshotInv` |
| `HotTablesStay` | `Spec => []HotTablesAreListed` | the same, and `LeftOutIsColder` |

*Why the strengthenings are needed.* That a mount is found under its own path rests on two
facts about paths: `NormalizedIsNormal` (what is returned begins with a slash and ends
with neither a slash nor a blank, unless it is the root) and `NormalStays` (such a path is
returned as it is). `get_db` normalizes the path it is given, the middlewares do not; with
these the two compare the same sequences. `MountsInv` keeps for a running server what
`get_mounts` accepted. The assumption on blanks matters here: `"/a /"` would be
normalized to `"/a "`, which `get_db` trims once more and does not find. A connection
may fall back to the string of the boot, so `NamesInv` says that this one, and
every string of the file as it stands, has been written for its path.

A difference is published at the second query of a tick, of rows read at the first and a
reading retained at an earlier tick. `Grown` relates two readings of a counter:
without a new era they differ by what was counted in between, with one the later holds no
more than that. `ReadingInv` and `SnapshotInv` say it of the retained reading, the
rows in the hands of the tick and the counter itself, one after the other; `GrownAgain`
composes them, so it survives whatever Postgres counts or resets in between. A failed
tick retains the older reading, which is why the relation is not between neighbouring ticks.
The ranking is stated by places (`Place`: how many come before), which is what a stable
sort does; `PlacesAreTaken` (a counting argument: every place is taken once) is what
makes `Rank` a permutation cut short, and `LeftOutIsColder` the rest of it.

`DrawnAsRecorded` has two halves. That the marks are the samples is about `segments`, which goes
through a series once: after n samples there is a place at which each segment ends
(`Divides`), the segments are the first n samples between these places, and the places are
exactly the gaps among them. A sample that joins moves the last place (`OneJoins`), one that opens a
segment adds a place (`OneOpens`); `SegmentsAre` is the induction over n
(`FromTheLeft`), again over a set. That a sample stands where it was taken is about the refresh. A
panel is fetched after the refresh began, so it holds nothing older than the
window counted from the beginning (`FetchedInv`: in ascending order, from `startedAt - Span` to
now); the window that is drawn ends at the newest sample (`NewestIs`), which is no
later than now, hence `DrawnInv`. The order of the samples is needed for both: the newest is looked
for among the last samples only, and the last hour is the end of the series (`LastHourIs`).

The classifier is a function of the text, so its invariant is only that a text is a
sequence of units, of whatever length. What has to be shown is about recursive
functions. That they exist is a lemma (`RecursionExists`): each place is computed
from one place further right (`AfterIs`: the tokenizer never stays or goes back;
`OnwardsIs`: an explained statement begins behind its EXPLAIN and within the tokens).
What holds of them is then shown from the right end (`FromTheRight`), an induction
over a set of places.

`TokensAreLexed` compares the tokenizer, which jumps from token to token, with `Lexed`, which
collects what begins as an automaton takes one unit at a time. The relation between the two
is `Begins`: where the code begins a token, the automaton is in the open, and not before a
quote that would continue a string, or it is at the end of a line comment. `TokenIs` is one jump:
from there the code goes on to another such place, and nothing has begun in between
(`Encloses`), or it finds no end and then the automaton stays enclosed up to the end of the text.
There is a lemma for each branch of `tokenize`: a line comment ends at a line feed, and in an
ordinary text a carriage return that ends it for Postgres stands just before that one
(`LineEncloses`); a block comment ends where the depth returns to zero for the first
time (`BlockEncloses`), a string at a mark that is not doubled (`QuoteEncloses`: the code
takes a doubled mark for a part of the string, the automaton for the end of one string and the
beginning of another), and one with escapes not behind a backslash (`EscapesEnclose`).

`ReadIsHarmless` then has the same tokens on both sides. From a text that is let run
`ReadsIsHarmless` follows a chain of EXPLAINs to the statement
at its end: none of them has ANALYZE among its options (`OptionsAre`), and a word
that could begin a statement stands before that one only in the parentheses of the options
(`ClosedBy`: the depth first returns to zero at a closing one). The other direction,
that every query or SHOW that only reads does run, is `HarmlessReads`.

`OneCardPerServer` has no step to be kept by; its invariant (`EndpointInv`) is that what is read is one of the forms of
what is meant, and the work is two questions about sequences. That a form is read as
the endpoint (`WrittenParses`): an item that is left out leaves nothing, one that is there
adds one token (`ItemSpells`), so the tokens of a keyword string are known as a set in
either order (`SixSpell`), and the first and the last value told for a key are the same since
only one token tells it (`ToldBy`, `ValueIs`), `hostaddr` and the password telling none. A
URI is cut from the outside in, as the code does it (`RestIs`): each mark that is searched for is
absent from what stands before it, or, for the `@` of the credentials, behind it
(`CutPrefixed`, `CredentialsGo`), which is where `EndpointsAssumption` is used; the
same cuts in another order would not do, since parameters, passwords and database names hold
the marks of other parts. That a key tells its server (`LocatedTells`): the
second piece of a key says whether there is a tunnel, the first `/` ends the tunnel, the
last `:` the host. The key of a database is then cut at the first `/` behind the address,
however many its name has.

### Only model-checked

Liveness (of the gate, the collector and the pages), which is out of the prover's
reach; and `LibrariesAreKept`, which does not hold. Every invariant and every action property of a
passing run is also stated by a theorem.

## 5. What is not modelled

Within the modelled components:

* a system clock that steps backwards; windows of less than a second
  (`health.rs:234`) - fast samples of a database are an interval apart;
* a client that disconnects and so cancels its handler; panics;
* the driver's retries, which are not in this repository;
* `ITERATION_TIMEOUT` (60 s): a tick's queries are bounded at 50 s by the source's
  own arithmetic (`collector.rs:46`), so it does not fire;
* a Postgres crash that discards statistics without changing `stats_reset`;
* the `FETCH_N` limit of the statements query, rows without a readable query id, gating by
  version and permission;
* two other producers of log entries: the settings endpoints log what they run on
  Postgres through the same `add` (`ServerConfig` has only the status they log);
* a contrib package that is removed again, and an administrator who preloads
  `pg_stat_statements` by hand;
* rows without a pid or a start time (`ExecutionKey::Anonymous`): the query returns
  none; the wait state and the text that go with a sighting;
* the ids of the ring wrapping at 2^64;
* the payloads of the history rows, and a clock that steps backwards over a sweep;
* on the pages: the requests of the admin page and the dialog that shows one, the text
  of minutes and notes, what a card says of a section and so which of its buttons it
  offers; a settings file edited while the admin page is open;
* in the classifier: characters (a word or a mark is a unit), numbers, letters outside
  ASCII, the wording of the reason; `standard_conforming_strings` is taken to be on, and
  the functions with side effects are those of the source's own list;
* in the settings: paths with blanks inside (no request line carries one), ports that are no numbers, values in
  quotes with blanks, blanks around `=`, percent-encoding, a `host` that is the directory of a
  socket, a URI with an empty `ssh=`; a file edited to an
  invalid one while the server runs is not validated again by the code either, and
  what the driver makes of such a string is its own matter;
* in the charts: sample values, ceilings and the crosshair; in `disk_io.rs`: bytes,
  rates with their minimal window of a second, `io_timing`.

Partly modelled components: the statistics API, the MCP tool and most of the cards copy
the fields of a snapshot into JSON or HTML and keep no state; the startup code is
sequential; the prompts are fixed texts. There is no behaviour in them that a model
would show and reading them would not.

## 6. Plan

Done: all modules of section 2, and a theorem for each invariant and each action property
that the runs check.

What is left is listed in section 5. Of that, what could still hide a mistake that a test would
hardly reach is a clock that is set back under the collector (`health.rs:234`) and the limit of
the statements query (`FETCH_N`) under the calls of a minute.
