----------------------------- MODULE StatsPage ------------------------------
(***************************************************************************)
(* ui/src/pages/stats.rs: the statistics page.                             *)
(*                                                                         *)
(* One signal holds what the page shows.  A loop polls the statistics, a   *)
(* second loop redraws the panels of the current server, a click selects a *)
(* server, and a click that changes Postgres ends in a poll of its own,    *)
(* provided that its card is still on the screen.                          *)
(* Every one of them awaits, and whatever was read before an await may     *)
(* have changed when the answer is applied.                                *)
(***************************************************************************)
EXTENDS Integers, Sequences, SequencesExt

CONSTANTS Lists,     \* what GET /api/Stats may list: sequences of mounts
          Click,     \* the refreshes that clicks may have in flight at once
          Task,      \* the changes of Postgres that may be in flight at once
          Card,      \* the cards of a mount with buttons that change Postgres; each has
                     \* a busy field in the page's state (extension_busy, io_timing_busy)
          Nil

(* A mount: [path, server, database_key]; database_key is Nil when the     *)
(* connection string names no database.                                    *)
Server == {db.server : db \in UNION {Range(list) : list \in Lists}}
Path == {db.path : db \in UNION {Range(list) : list \in Lists}}

ASSUME ListAssumption == \A list \in Lists : list # <<>> => 1 \in DOMAIN list
ASSUME TaskAssumption == {"loop"} \cap Task = {} /\ Nil \notin Path

VARIABLES config,        \* the server's answer to GET /api/Stats
          view,          \* StatsState.stats: the last answer applied
          selected,      \* StatsState.selected_server
          chart,         \* the panels, one for each database of a server
          chart_server,  \* whose panels they are
          chart_note,    \* why there is nothing to draw
          error,         \* why the last poll failed
          busy,          \* card -> the mount whose Postgres is being changed
          task,          \* a click that changes Postgres, on the card of a mount
          poll,          \* poller -> one run of poll_once
          fetch,         \* refresher -> one run of refresh_chart
          regrouped      \* a poll has moved the heading since the panels were
                         \* drawn (history variable)

statsVars == <<config, view, selected, chart, chart_server, chart_note, error,
               busy, task, poll, fetch, regrouped>>

Poller == {"loop"} \cup Task
Refresher == {"loop", "clock"} \cup Click

NoPoll == [pc |-> "idle", got |-> Nil]
NoFetch == [pc |-> "idle", server |-> Nil, databases |-> <<>>]
NoTask == [pc |-> "idle", card |-> Nil, path |-> Nil]
NotBusy == [card \in Card |-> Nil]

\* What a visit finds; a page that is not open follows nothing.
Found(pc) == IF pc = "closed" THEN {<< <<>>, Nil>>} ELSE Lists \X (Server \cup {Nil})

\* StatsState::new: a visit starts with nothing fetched.  The last server looked
\* at comes from the browser's storage, and need not be configured any more.
StatsInit(pc) ==
    /\ \E found \in Found(pc) : config = found[1] /\ selected = found[2]
    /\ view = <<>> /\ chart = <<>> /\ chart_server = Nil /\ chart_note = "loading"
    /\ error = FALSE /\ busy = NotBusy /\ task = [t \in Task |-> NoTask] /\ regrouped = FALSE
    /\ poll = [p \in Poller |-> IF p = "loop" THEN [NoPoll EXCEPT !.pc = pc] ELSE NoPoll]
    /\ fetch = [r \in Refresher |-> NoFetch]

\* Leaving the page drops all of it.
StatsReset(pc) ==
    /\ \E found \in Found(pc) : config' = found[1] /\ selected' = found[2]
    /\ view' = <<>> /\ chart' = <<>> /\ chart_server' = Nil /\ chart_note' = "loading"
    /\ error' = FALSE /\ busy' = NotBusy /\ task' = [t \in Task |-> NoTask] /\ regrouped' = FALSE
    /\ poll' = [p \in Poller |-> IF p = "loop" THEN [NoPoll EXCEPT !.pc = pc] ELSE NoPoll]
    /\ fetch' = [r \in Refresher |-> NoFetch]

-----------------------------------------------------------------------------
(* What is on screen.                                                      *)

\* ServerStats::servers, as a set; the first of the list is the fallback.
Servers(list) == {db.server : db \in Range(list)}

\* ServerStats::databases_on, in the order of the settings file.
DatabasesOn(list, server) == SelectSeq(list, LAMBDA db : db.server = server)

CurrentServer(list, choice) == CASE choice \in Servers(list) -> choice
                                 [] list = <<>> -> Nil
                                 [] OTHER -> list[1].server
Current == CurrentServer(view, selected)

\* The mounts with a section on the page, each with its cards.
Shown(list, choice) ==
    {db.path : db \in {listed \in Range(list) : listed.server = CurrentServer(list, choice)}}

\* A click is a task of the card it was made on, and a card belongs to the
\* section of its mount, which is keyed by the path: when the section leaves
\* the screen the task is dropped wherever it is.
Unmounted(shown) == {t \in Task : task[t].path \notin shown \cup {Nil}}

\* The runs of poll_once that are over, and the clicks they belong to.
Over(pollers) == /\ task' = [t \in Task |-> IF t \in pollers THEN NoTask ELSE task[t]]
                 /\ poll' = [p \in Poller |-> IF p \in pollers THEN NoPoll ELSE poll[p]]

-----------------------------------------------------------------------------
(* The panels.                                                             *)

\* The earlier mounts of the same database.
Earlier(dbs, i) == {j \in 1..(i - 1) : dbs[i].database_key # Nil
                                       /\ dbs[j].database_key = dbs[i].database_key}

DuplicateOf(dbs, i) == IF Earlier(dbs, i) = {} THEN Nil
                       ELSE dbs[CHOOSE j \in Earlier(dbs, i) : \A k \in Earlier(dbs, i) : j <= k].path

\* One panel for each database; it has points, or a note if its history could
\* not be fetched or is empty.
Panels(dbs) == [i \in DOMAIN dbs |-> [path |-> dbs[i].path, duplicate_of |-> DuplicateOf(dbs, i)]]

\* refresh_chart up to its first await: the server and its databases are read
\* from the state before the requests go out.
Started(list, choice) ==
    LET server == CurrentServer(list, choice) IN
    IF server = Nil THEN NoFetch
    ELSE [pc |-> "fetching", server |-> server, databases |-> DatabasesOn(list, server)]

ClockTicks == /\ poll["loop"].pc # "closed" /\ fetch["clock"].pc = "idle"
              /\ fetch' = [fetch EXCEPT !["clock"] = Started(view, selected)]
              /\ UNCHANGED <<config, view, selected, chart, chart_server, chart_note, error,
                             busy, task, poll, regrouped>>

SpawnedStarts(r) == /\ fetch[r].pc = "spawned"
                    /\ fetch' = [fetch EXCEPT ![r] = Started(view, selected)]
                    /\ UNCHANGED <<config, view, selected, chart, chart_server, chart_note, error,
                                   busy, task, poll, regrouped>>

\* Mistake: the answers are applied whatever the operator did meanwhile.
StillWantedAlways(server) == TRUE

\* Mistake: compares with the selection, which a fallback never sets.
StillWantedAsSelected(server) == selected = server

StillWanted(server) == Current = server

\* The histories of all its databases have been asked for, some in vain.
FetchEnds(r) ==
    LET run == fetch[r] IN
    /\ run.pc = "fetching"
    /\ fetch' = [fetch EXCEPT ![r] = NoFetch]
    /\ \/ /\ StillWanted(run.server)
          /\ chart' = Panels(run.databases)
          /\ chart_server' = run.server /\ chart_note' = "settled"
          /\ regrouped' = FALSE
       \/ /\ ~StillWanted(run.server)
          /\ UNCHANGED <<chart, chart_server, chart_note, regrouped>>
    /\ UNCHANGED <<config, view, selected, error, busy, task, poll>>

\* Mistake: the panels of the server that is left stay until the next refresh.
ClearNothing == UNCHANGED <<chart, chart_server, chart_note>>

ClearChart == chart' = <<>> /\ chart_server' = Nil /\ chart_note' = "loading"

\* A tab is there only when there is more than one server to switch between.
\* The sections of the server that is left go, with the clicks made on them.
SelectServer(server, r) ==
    /\ server \in Servers(view) /\ Servers(view) # {server} /\ fetch[r].pc = "idle"
    /\ selected' = server /\ ClearChart /\ regrouped' = FALSE
    /\ fetch' = [fetch EXCEPT ![r] = [NoFetch EXCEPT !.pc = "spawned"]]
    /\ Over(Unmounted(Shown(view, server)))
    /\ UNCHANGED <<config, view, error, busy>>

-----------------------------------------------------------------------------
(* poll_once.                                                              *)

PollStarts(p) ==
    /\ p = "loop" /\ fetch["loop"].pc = "idle" /\ poll[p].pc \in {"first", "idle"}
    /\ poll' = [poll EXCEPT ![p] = [pc |-> IF poll[p].pc = "first" THEN "first stats" ELSE "stats",
                                    got |-> Nil]]
    /\ UNCHANGED <<config, view, selected, chart, chart_server, chart_note, error,
                   busy, task, fetch, regrouped>>

Asking(p) == poll[p].pc \in {"first stats", "stats"}
NextHalf(p) == IF poll[p].pc = "first stats" THEN "first settings" ELSE "settings"

\* The answer is held until the settings have arrived or failed.
StatsArrive(p) == /\ Asking(p)
                  /\ poll' = [poll EXCEPT ![p] = [pc |-> NextHalf(p), got |-> config]]
                  /\ UNCHANGED <<config, view, selected, chart, chart_server, chart_note,
                                 error, busy, task, fetch, regrouped>>

\* The error shows at once, the settings are still fetched.
StatsFail(p) == /\ Asking(p)
                /\ error' = TRUE
                /\ poll' = [poll EXCEPT ![p] = [pc |-> NextHalf(p), got |-> Nil]]
                /\ UNCHANGED <<config, view, selected, chart, chart_server, chart_note, busy,
                               task, fetch, regrouped>>

\* Mistake: a good answer leaves the error of an earlier poll on the page.
ApplyStatsOnly(got) == /\ view' = IF got = Nil THEN view ELSE got
                       /\ error' = error

\* A half that failed keeps its last value.
ApplyStats(got) == /\ view' = IF got = Nil THEN view ELSE got
                   /\ error' = (error /\ got = Nil)

\* The settings, which only the topbar shows, have arrived or failed.  The
\* first poll of a visit is followed by a refresh in the same task.  A mount
\* that is not listed any more loses its section, and the clicks made on it.
PollEnds(p) ==
    /\ poll[p].pc \in {"first settings", "settings"}
    /\ ApplyStats(poll[p].got)
    /\ regrouped' = (regrouped \/ (chart # <<>> /\ CurrentServer(view', selected) # Current))
    /\ fetch' = IF poll[p].pc = "settings" THEN fetch
                ELSE [fetch EXCEPT !["loop"] = Started(view', selected)]
    /\ Over({p} \cup Unmounted(Shown(view', selected)))
    /\ UNCHANGED <<config, selected, chart, chart_server, chart_note, busy>>

-----------------------------------------------------------------------------
(* install_pg_stat_statements and toggle_track_io_timing: ask, post, give  *)
(* the buttons back, then read the statistics again.                       *)

Confirmed(t, card, path) ==
    /\ poll["loop"].pc # "closed" /\ task[t].pc = "idle"
    /\ path \in Shown(view, selected) /\ busy[card] # path
    /\ busy' = [busy EXCEPT ![card] = path]
    /\ task' = [task EXCEPT ![t] = [pc |-> "post", card |-> card, path |-> path]]
    /\ UNCHANGED <<config, view, selected, chart, chart_server, chart_note, error, poll, fetch,
                   regrouped>>

\* Whatever mount the field names by now.
PostEnds(t) == /\ task[t].pc = "post"
               /\ busy' = [busy EXCEPT ![task[t].card] = Nil]
               /\ task' = [task EXCEPT ![t].pc = "poll"]
               /\ poll' = [poll EXCEPT ![t] = [pc |-> "stats", got |-> Nil]]
               /\ UNCHANGED <<config, view, selected, chart, chart_server, chart_note, error,
                              fetch, regrouped>>

\* The server is restarted with an edited settings file, the page stays open.
Reconfigure(list) == /\ list \in Lists /\ config' = list
                     /\ UNCHANGED <<view, selected, chart, chart_server, chart_note, error,
                                    busy, task, poll, fetch, regrouped>>

-----------------------------------------------------------------------------
PollStep(p) == PollStarts(p) \/ PollEnds(p)
FetchStep(r) == (r = "clock" /\ ClockTicks) \/ SpawnedStarts(r) \/ FetchEnds(r)

StatsNext == \/ \E list \in Lists : Reconfigure(list)
             \/ \E p \in Poller : PollStep(p) \/ StatsArrive(p) \/ StatsFail(p)
             \/ \E r \in Refresher : FetchStep(r)
             \/ \E server \in Server, r \in Click : SelectServer(server, r)
             \/ \E t \in Task : \/ PostEnds(t)
                              \/ \E card \in Card, path \in Path : Confirmed(t, card, path)

\* The two loops run whenever they can, and a poll that is repeated succeeds in
\* the end.  Of what a click has started nothing is asked.
StatsFairness == /\ WF_statsVars(PollStep("loop")) /\ SF_statsVars(StatsArrive("loop"))
                 /\ \A r \in {"loop", "clock"} : WF_statsVars(FetchStep(r))

-----------------------------------------------------------------------------
(* Properties.                                                             *)

\* What stats.rs says of its two busy fields: the mount they name has a change
\* in flight.  A click dropped with its section leaves its mount there, until
\* another change on such a card ends or the page is left.
BusyMountIsChanging == \A card \in Card : busy[card] # Nil =>
    \E t \in Task : task[t] = [pc |-> "post", card |-> card, path |-> busy[card]]

StatsOpen == poll["loop"].pc # "closed"

\* A click under way is one on a card that is on the screen, and polls once its
\* change has been answered, not before.
ClickIsOnScreen(t) ==
    \/ task[t] = NoTask /\ poll[t] = NoPoll
    \/ /\ task[t] \in [pc : {"post", "poll"}, card : Card, path : Shown(view, selected)]
       /\ \/ task[t].pc = "post" /\ poll[t] = NoPoll
          \/ task[t].pc = "poll" /\ poll[t].pc \in {"stats", "settings"}

StatsTypeOK ==
    /\ {config, view} \subseteq Lists \cup {<<>>}
    /\ {selected, chart_server} \subseteq Server \cup {Nil}
    /\ chart_note = "loading" => chart = <<>>
    /\ \A r \in Refresher : fetch[r].pc \in {"idle", "spawned", "fetching"}
    /\ busy \in [Card -> Path \cup {Nil}]
    /\ \A t \in Task : ClickIsOnScreen(t)

\* No panels under another server's heading: with refreshes of several servers
\* in flight, started by the clock, by clicks and by the first poll, whatever is
\* drawn belongs to the server on screen.  Only a new list of servers may move
\* the heading away from panels that are already there, until the next refresh
\* (refresh_chart, select_server).
ChartUnderItsHeading == chart # <<>> /\ ~regrouped => chart_server = Current

\* Once the server keeps its list, the page has it for good, whatever polls
\* were in flight, and no error stays on the page (poll_once).
StatsCatchUp == \A list \in Lists :
    <>[](StatsOpen /\ config = list) => <>[](view = list) /\ []<>~error

\* Once the heading and the list stay, the panels are those of that server and
\* of that list, again and again, however often the operator clicks and however
\* many refreshes are dropped on the floor (refresh_chart, Stats).
ChartCatchesUp == \A list \in Lists, server \in Server :
    <>[](StatsOpen /\ view = list /\ Current = server)
        => []<>(/\ chart_server = server
                /\ {chart[i].path : i \in DOMAIN chart}
                       = {db.path : db \in Range(DatabasesOn(list, server))})
=============================================================================
