----------------------------- MODULE PagesProofs -------------------------------
(***************************************************************************)
(* What the two pages promise for any mounts, servers and number of        *)
(* clicks in flight.  AdminInv and StatsInv are the inductive invariants   *)
(* of the pages, PagesInv says that one of them is open.                   *)
(***************************************************************************)
EXTENDS Pages, TLAPS

-----------------------------------------------------------------------------
(* The inductive invariants.                                               *)

Answer == [Db -> BOOLEAN] \cup {None}
Toggle == [pc : {"idle", "post", "reread"}, db : Db \cup {None}, enabled : BOOLEAN, got : Answer]
HomePoll == [pc : {"closed", "sleep", "settings", "requests"}, got : Answer]

\* The row that is saving is the row of a click that is in flight.
AdminInv ==
    /\ open \in [Db -> BOOLEAN] /\ shown \in [Db -> BOOLEAN \cup {None}]
    /\ saving \in Db \cup {None} /\ homePoll \in HomePoll
    /\ toggle \in [Tab -> Toggle]
    /\ saving # None => InFlight(saving)

\* Whoever is under way knows a server that is listed; a click under way stands
\* on the screen, and its poll comes after its change.
StatsInv ==
    /\ {config, view} \subseteq Lists \cup {<<>>}
    /\ {selected, chart_server} \subseteq Server \cup {Nil}
    /\ chart_note = "loading" => chart = <<>>
    /\ busy \in [Card -> Path \cup {Nil}]
    /\ task = [t \in Task |-> task[t]]
    /\ \A t \in Task : ClickIsOnScreen(t)
    /\ poll = [p \in Poller |-> poll[p]]
    /\ \A p \in Poller : poll[p].got \in Lists \cup {<<>>, Nil}
    /\ fetch = [r \in Refresher |-> fetch[r]]
    /\ \A r \in Refresher : /\ fetch[r].pc \in {"idle", "spawned", "fetching"}
                            /\ fetch[r].server \in Server \cup {Nil}
    /\ ChartUnderItsHeading

PagesInv == AdminInv /\ StatsInv /\ (AdminOpen <=> ~StatsOpen)

-----------------------------------------------------------------------------
(* The admin page.                                                         *)

LEMMA AdminResetInv ==
    ASSUME NEW pc \in {"sleep", "closed"}, AdminReset(pc)
    PROVE  AdminInv' /\ (AdminOpen' <=> pc = "sleep")
<1>1. [d \in Db |-> FALSE] \in [Db -> BOOLEAN] /\ Unknown \in [Db -> BOOLEAN \cup {None}]
  BY DEF Unknown
<1>2. ToggleIdle \in Toggle /\ [HomePollIdle EXCEPT !.pc = pc] \in HomePoll
  BY DEF ToggleIdle, Toggle, HomePollIdle, HomePoll, Answer
<1>3. open' \in [Db -> BOOLEAN]
  BY <1>1 DEF AdminReset
<1>4. homePoll'.pc = pc
  BY DEF AdminReset, HomePollIdle
<1>. QED
  BY <1>1, <1>2, <1>3, <1>4 DEF AdminReset, AdminInv, AdminOpen

LEMMA AdminInitInv ==
    ASSUME NEW pc \in {"sleep", "closed"}, AdminInit(pc)
    PROVE  AdminInv /\ (AdminOpen <=> pc = "sleep")
<1>1. [d \in Db |-> FALSE] \in [Db -> BOOLEAN] /\ Unknown \in [Db -> BOOLEAN \cup {None}]
  BY DEF Unknown
<1>2. ToggleIdle \in Toggle /\ [HomePollIdle EXCEPT !.pc = pc] \in HomePoll
  BY DEF ToggleIdle, Toggle, HomePollIdle, HomePoll, Answer
<1>3. open \in [Db -> BOOLEAN]
  BY <1>1 DEF AdminInit
<1>4. homePoll.pc = pc
  BY DEF AdminInit, HomePollIdle
<1>. QED
  BY <1>1, <1>2, <1>3, <1>4 DEF AdminInit, AdminInv, AdminOpen

\* A poll, whatever it brings.
LEMMA HomePollInv ==
    ASSUME AdminInv, AdminOpen,
           HomePollStarts \/ HomePollSettingsArrive \/ HomePollSettingsFail \/ HomePollEnds
    PROVE  AdminInv' /\ AdminOpen'
<1>1. UNCHANGED <<open, saving, toggle>>
  BY DEF HomePollStarts, HomePollSettingsArrive, HomePollSettingsFail, HomePollEnds
<1>2. homePoll' \in HomePoll /\ homePoll'.pc # "closed"
  BY DEF HomePollStarts, HomePollSettingsArrive, HomePollSettingsFail, HomePollEnds, HomePollIdle,
         HomePoll, Answer, Settings, AdminInv
<1>3. shown' \in [Db -> BOOLEAN \cup {None}]
  <2>1. homePoll.got # None => homePoll.got \in [Db -> BOOLEAN \cup {None}]
    BY DEF AdminInv, HomePoll, Answer
  <2>. QED
    BY <2>1 DEF HomePollStarts, HomePollSettingsArrive, HomePollSettingsFail, HomePollEnds, ApplyTick,
                AdminInv
<1>. QED
  BY <1>1, <1>2, <1>3 DEF AdminInv, AdminOpen, InFlight

\* A click that starts takes the slot, and is in flight.
LEMMA ToggleStartsInv ==
    ASSUME AdminInv, AdminOpen, NEW t \in Tab, NEW d \in Db, NEW enabled \in BOOLEAN,
           ToggleMcpWrites(t, d, enabled)
    PROVE  AdminInv' /\ AdminOpen'
<1>. DEFINE run == [pc |-> "post", db |-> d, enabled |-> enabled, got |-> None]
<1>1. run \in Toggle
  BY DEF Toggle, Answer
<1>2. toggle' = [toggle EXCEPT ![t] = run] /\ saving' = d /\ UNCHANGED <<open, shown, homePoll>>
  BY DEF ToggleMcpWrites
<1>3. toggle' \in [Tab -> Toggle] /\ toggle'[t] = run
  BY <1>1, <1>2 DEF AdminInv
<1>4. InFlight(d)'
  BY <1>3 DEF InFlight
<1>. QED
  BY <1>2, <1>3, <1>4 DEF AdminInv, AdminOpen, InFlight

\* A click that goes on stays in flight, for the same row.
LEMMA ToggleGoesOnInv ==
    ASSUME AdminInv, AdminOpen, NEW t \in Tab, PostIsServed(t) \/ RereadIsServed(t)
    PROVE  AdminInv' /\ AdminOpen'
<1>1. UNCHANGED <<shown, saving, homePoll>> /\ toggle \in [Tab -> Toggle]
  BY DEF PostIsServed, RereadIsServed, AdminInv
<1>2. open' \in [Db -> BOOLEAN]
  BY <1>1 DEF PostIsServed, RereadIsServed, AdminInv, Toggle
<1>3. PICK run \in Toggle : /\ toggle' = [toggle EXCEPT ![t] = run]
                            /\ run.db = toggle[t].db /\ run.pc # "idle"
  <2>1. CASE PostIsServed(t)
    <3>. DEFINE run == [toggle[t] EXCEPT !.pc = "reread", !.enabled = FALSE]
    <3>1. toggle' = [toggle EXCEPT ![t] = run]
      BY <1>1, <2>1 DEF PostIsServed
    <3>2. run \in Toggle /\ run.db = toggle[t].db /\ run.pc = "reread"
      BY <1>1 DEF Toggle
    <3>. QED
      BY <3>1, <3>2
  <2>2. CASE RereadIsServed(t)
    <3>. DEFINE run == [toggle[t] EXCEPT !.got = open]
    <3>1. toggle' = [toggle EXCEPT ![t] = run]
      BY <1>1, <2>2 DEF RereadIsServed, Settings
    <3>2. run \in Toggle /\ run.db = toggle[t].db /\ run.pc = toggle[t].pc
      BY <1>1 DEF Toggle, Answer, AdminInv
    <3>. QED
      BY <2>2, <3>1, <3>2 DEF RereadIsServed
  <2>. QED
    BY <2>1, <2>2
<1>4. /\ toggle' \in [Tab -> Toggle] /\ toggle'[t] = run
      /\ \A u \in Tab : u # t => toggle'[u] = toggle[u]
  BY <1>1, <1>3
<1>5. saving # None => InFlight(saving)'
  BY <1>1, <1>3, <1>4 DEF AdminInv, InFlight
<1>. QED
  BY <1>1, <1>2, <1>4, <1>5 DEF AdminInv, AdminOpen, InFlight

\* A click that ends, for good or in error, frees the slot, whose it is or not.
LEMMA ToggleEndsInv ==
    ASSUME AdminInv, AdminOpen, NEW t \in Tab, RereadArrives(t) \/ ToggleFails(t)
    PROVE  AdminInv' /\ AdminOpen'
<1>1. saving' = None /\ homePoll' = homePoll /\ toggle' = [toggle EXCEPT ![t] = ToggleIdle]
  BY DEF RereadArrives, ToggleFails, FinishSave
<1>2. ToggleIdle \in Toggle
  BY DEF ToggleIdle, Toggle, Answer
<1>3. open' \in [Db -> BOOLEAN]
  <2>1. toggle[t] \in Toggle
    BY DEF AdminInv
  <2>. QED
    BY <2>1 DEF RereadArrives, ToggleFails, AdminInv, Toggle
<1>4. shown' \in [Db -> BOOLEAN \cup {None}]
  <2>1. toggle[t].got # None => toggle[t].got \in [Db -> BOOLEAN \cup {None}]
    BY DEF AdminInv, Toggle, Answer
  <2>. QED
    BY <2>1 DEF RereadArrives, ToggleFails, FinishSave, AdminInv
<1>. QED
  BY <1>1, <1>2, <1>3, <1>4 DEF AdminInv, AdminOpen

LEMMA AdminStepInv ==
    ASSUME AdminInv, AdminOpen, AdminNext
    PROVE  AdminInv' /\ AdminOpen'
<1>1. ASSUME NEW d \in Db, WindowMoves(d) PROVE AdminInv' /\ AdminOpen'
  BY <1>1 DEF WindowMoves, AdminInv, AdminOpen, InFlight
<1>2. CASE HomePollStarts \/ HomePollSettingsArrive \/ HomePollSettingsFail \/ HomePollEnds
  BY <1>2, HomePollInv
<1>3. ASSUME NEW t \in Tab, NEW d \in Db, NEW enabled \in BOOLEAN, ToggleMcpWrites(t, d, enabled)
      PROVE  AdminInv' /\ AdminOpen'
  BY <1>3, ToggleStartsInv
<1>4. ASSUME NEW t \in Tab, ToggleStep(t) \/ ToggleFails(t) PROVE AdminInv' /\ AdminOpen'
  BY <1>4, ToggleGoesOnInv, ToggleEndsInv DEF ToggleStep
<1>. QED
  BY <1>1, <1>2, <1>3, <1>4 DEF AdminNext
-----------------------------------------------------------------------------
(* The statistics page.                                                    *)

Unmoved == UNCHANGED <<view, selected, chart, chart_server, regrouped>>

LEMMA CurrentIsListed ==
    ASSUME NEW list \in Lists \cup {<<>>}, NEW choice
    PROVE  CurrentServer(list, choice) \in Server \cup {Nil}
<1>1. list # <<>> => list \in Lists /\ list[1].server \in Servers(list)
  BY ListAssumption DEF Servers, Range
<1>2. list \in Lists => Servers(list) \subseteq Server
  BY DEF Servers, Server
<1>3. list = <<>> => Servers(list) = {}
  BY DEF Servers, Range
<1>. QED
  BY <1>1, <1>2, <1>3 DEF CurrentServer

LEMMA StartedType ==
    ASSUME NEW list \in Lists \cup {<<>>}, NEW choice
    PROVE  /\ Started(list, choice).pc \in {"idle", "fetching"}
           /\ Started(list, choice).server \in Server \cup {Nil}
  BY CurrentIsListed DEF Started, NoFetch

LEMMA ShownIsListed ==
    ASSUME NEW list \in Lists \cup {<<>>}, NEW choice
    PROVE  Shown(list, choice) \subseteq Path
<1>1. list \in Lists => {db.path : db \in Range(list)} \subseteq Path
  BY DEF Path
<1>2. list = <<>> => Range(list) = {}
  BY DEF Range
<1>. QED
  BY <1>1, <1>2 DEF Shown

LEMMA StatsResetInv ==
    ASSUME NEW pc \in {"first", "closed"}, StatsReset(pc)
    PROVE  StatsInv' /\ (StatsOpen' <=> pc = "first")
<1>1. config' \in Lists \cup {<<>>} /\ selected' \in Server \cup {Nil}
  BY DEF StatsReset, Found
<1>2. /\ poll' = [p \in Poller |-> poll'[p]] /\ poll'["loop"].pc = pc
      /\ \A p \in Poller : poll'[p].got = Nil
  BY DEF StatsReset, Poller, NoPoll
<1>4. busy' \in [Card -> Path \cup {Nil}] /\ task' = [t \in Task |-> task'[t]]
  BY DEF StatsReset, NotBusy
<1>5. \A t \in Task : ClickIsOnScreen(t)'
  BY TaskAssumption DEF StatsReset, Poller, ClickIsOnScreen
<1>3. /\ fetch' = [r \in Refresher |-> fetch'[r]]
      /\ \A r \in Refresher : fetch'[r].pc = "idle" /\ fetch'[r].server = Nil
  BY DEF StatsReset, NoFetch
<1>. QED
  BY <1>1, <1>2, <1>3, <1>4, <1>5 DEF StatsReset, StatsInv, StatsOpen, ChartUnderItsHeading

LEMMA StatsInitInv ==
    ASSUME NEW pc \in {"first", "closed"}, StatsInit(pc)
    PROVE  StatsInv /\ (StatsOpen <=> pc = "first")
<1>1. config \in Lists \cup {<<>>} /\ selected \in Server \cup {Nil}
  BY DEF StatsInit, Found
<1>2. /\ poll = [p \in Poller |-> poll[p]] /\ poll["loop"].pc = pc
      /\ \A p \in Poller : poll[p].got = Nil
  BY DEF StatsInit, Poller, NoPoll
<1>4. busy \in [Card -> Path \cup {Nil}] /\ task = [t \in Task |-> task[t]]
  BY DEF StatsInit, NotBusy
<1>5. \A t \in Task : ClickIsOnScreen(t)
  BY TaskAssumption DEF StatsInit, Poller, ClickIsOnScreen
<1>3. /\ fetch = [r \in Refresher |-> fetch[r]]
      /\ \A r \in Refresher : fetch[r].pc = "idle" /\ fetch[r].server = Nil
  BY DEF StatsInit, NoFetch
<1>. QED
  BY <1>1, <1>2, <1>3, <1>4, <1>5 DEF StatsInit, StatsInv, StatsOpen, ChartUnderItsHeading

\* A click that nobody touches stays where it is, as long as its card does.
LEMMA ClickStays ==
    ASSUME NEW t \in Task, ClickIsOnScreen(t), task'[t] = task[t], poll'[t] = poll[t],
           task[t].path \in Shown(view, selected) => task[t].path \in Shown(view', selected')
    PROVE  ClickIsOnScreen(t)'
  BY DEF ClickIsOnScreen

LEMMA ClicksStay ==
    ASSUME StatsInv, UNCHANGED <<view, selected, task, poll>>
    PROVE  \A t \in Task : ClickIsOnScreen(t)'
  BY ClickStays DEF StatsInv, Poller

\* The runs that are over take their clicks with them; the others stay, on cards
\* that are still on the screen.
LEMMA OverInv ==
    ASSUME StatsInv, NEW pollers \in SUBSET Poller, Over(pollers),
           Unmounted(Shown(view', selected')) \subseteq pollers
    PROVE  /\ task' = [t \in Task |-> task'[t]]
           /\ \A t \in Task : ClickIsOnScreen(t)'
           /\ poll' = [p \in Poller |-> poll'[p]]
           /\ \A p \in Poller : poll'[p] \in {NoPoll, poll[p]}
           /\ \A p \in Poller : poll'[p].got \in Lists \cup {<<>>, Nil}
<1>1. task' = [t \in Task |-> task'[t]] /\ poll' = [p \in Poller |-> poll'[p]]
  BY DEF Over
<1>2. /\ \A p \in Poller : poll'[p] \in {NoPoll, poll[p]}
      /\ \A p \in Poller : poll'[p].got \in Lists \cup {<<>>, Nil}
  BY DEF Over, StatsInv, NoPoll
<1>3. ASSUME NEW t \in Task PROVE ClickIsOnScreen(t)'
  <2>1. CASE t \in pollers
    BY <2>1 DEF Over, ClickIsOnScreen, Poller
  <2>2. CASE t \notin pollers
    <3>1. task'[t] = task[t] /\ poll'[t] = poll[t]
      BY <2>2 DEF Over, Poller
    <3>2. ClickIsOnScreen(t) /\ task[t].path \in Shown(view', selected') \cup {Nil}
      BY <2>2 DEF Unmounted, StatsInv
    <3>3. Nil \notin Shown(view, selected)
      BY ShownIsListed, TaskAssumption DEF StatsInv
    <3>. QED
      BY <3>1, <3>2, <3>3, ClickStays
  <2>. QED
    BY <2>1, <2>2
<1>. QED
  BY <1>1, <1>2, <1>3

\* A refresh that starts, on the clock's time or an operator's.
LEMMA RefreshStartsInv ==
    ASSUME StatsInv, StatsOpen, NEW r \in Refresher,
           (r = "clock" /\ ClockTicks) \/ SpawnedStarts(r)
    PROVE  StatsInv' /\ StatsOpen'
<1>1. /\ fetch' = [fetch EXCEPT ![r] = Started(view, selected)]
      /\ UNCHANGED <<config, view, selected, chart, chart_server, chart_note, error, busy, task, poll,
                     regrouped>>
  BY DEF ClockTicks, SpawnedStarts
<1>2. /\ Started(view, selected).pc \in {"idle", "spawned", "fetching"}
      /\ Started(view, selected).server \in Server \cup {Nil}
  BY StartedType DEF StatsInv
<1>3. /\ fetch' = [q \in Refresher |-> fetch'[q]]
      /\ \A q \in Refresher : /\ fetch'[q].pc \in {"idle", "spawned", "fetching"}
                              /\ fetch'[q].server \in Server \cup {Nil}
  BY <1>1, <1>2 DEF StatsInv
<1>4. ChartUnderItsHeading'
  BY <1>1 DEF StatsInv, ChartUnderItsHeading, Current
<1>. QED
  BY <1>1, <1>3, <1>4, ClicksStay DEF StatsInv, StatsOpen

\* The panels of a refresh that ends are those of the heading, or are dropped.
LEMMA FetchEndsInv ==
    ASSUME StatsInv, StatsOpen, NEW r \in Refresher, FetchEnds(r)
    PROVE  StatsInv' /\ StatsOpen'
<1>1. /\ fetch' = [fetch EXCEPT ![r] = NoFetch] /\ fetch[r].server \in Server \cup {Nil}
      /\ UNCHANGED <<config, view, selected, error, busy, task, poll>>
  BY DEF FetchEnds, StatsInv
<1>2. /\ fetch' = [q \in Refresher |-> fetch'[q]]
      /\ \A q \in Refresher : /\ fetch'[q].pc \in {"idle", "spawned", "fetching"}
                              /\ fetch'[q].server \in Server \cup {Nil}
  BY <1>1 DEF StatsInv, NoFetch
<1>3. Current' = Current
  BY <1>1 DEF Current
<1>4. ChartUnderItsHeading' /\ chart_server' \in Server \cup {Nil}
      /\ (chart_note' = "loading" => chart' = <<>>)
  <2>1. CASE StillWanted(fetch[r].server)
    BY <1>1, <1>3, <2>1 DEF FetchEnds, StillWanted, ChartUnderItsHeading
  <2>2. CASE ~StillWanted(fetch[r].server)
    BY <1>3, <2>2 DEF FetchEnds, ChartUnderItsHeading, StatsInv
  <2>. QED
    BY <2>1, <2>2
<1>. QED
  BY <1>1, <1>2, <1>4, ClicksStay DEF StatsInv, StatsOpen

LEMMA SelectServerInv ==
    ASSUME StatsInv, StatsOpen, NEW server \in Server, NEW r \in Click, SelectServer(server, r)
    PROVE  StatsInv' /\ StatsOpen'
<1>1. /\ selected' = server /\ chart' = <<>> /\ chart_server' = Nil /\ chart_note' = "loading"
      /\ fetch' = [fetch EXCEPT ![r] = [NoFetch EXCEPT !.pc = "spawned"]]
      /\ UNCHANGED <<config, view, error, busy>>
  BY DEF SelectServer, ClearChart
<1>2. /\ fetch' = [q \in Refresher |-> fetch'[q]]
      /\ \A q \in Refresher : /\ fetch'[q].pc \in {"idle", "spawned", "fetching"}
                              /\ fetch'[q].server \in Server \cup {Nil}
  BY <1>1 DEF StatsInv, NoFetch, Refresher
<1>. DEFINE gone == Unmounted(Shown(view, server))
<1>3. /\ gone \in SUBSET Poller /\ "loop" \notin gone
      /\ Over(gone) /\ Unmounted(Shown(view', selected')) = gone
  BY <1>1, TaskAssumption DEF SelectServer, Unmounted, Poller
<1>4. /\ task' = [t \in Task |-> task'[t]] /\ \A t \in Task : ClickIsOnScreen(t)'
      /\ poll' = [p \in Poller |-> poll'[p]]
      /\ \A p \in Poller : poll'[p].got \in Lists \cup {<<>>, Nil}
  BY <1>3, OverInv
<1>5. poll'["loop"] = poll["loop"]
  BY <1>3 DEF Over, Poller
<1>. QED
  BY <1>1, <1>2, <1>4, <1>5 DEF StatsInv, StatsOpen, ChartUnderItsHeading

\* A poll up to the answer of its first half.
LEMMA PollAsksInv ==
    ASSUME StatsInv, StatsOpen, NEW p \in Poller, PollStarts(p) \/ StatsArrive(p) \/ StatsFail(p)
    PROVE  StatsInv' /\ StatsOpen'
<1>1. UNCHANGED <<config, view, selected, chart, chart_server, chart_note, busy, task, fetch, regrouped>>
  BY DEF PollStarts, StatsArrive, StatsFail
<1>2. PICK pc, got : /\ poll' = [poll EXCEPT ![p] = [pc |-> pc, got |-> got]]
                     /\ got \in Lists \cup {<<>>, Nil} /\ pc # "closed"
                     /\ p \in Task => pc \in {"stats", "settings"}
                                      /\ poll[p].pc \in {"stats", "settings"}
  <2>4. ASSUME p \in Task PROVE poll[p].pc \in {"idle", "stats", "settings"}
    <3>1. ClickIsOnScreen(p)
      BY <2>4 DEF StatsInv
    <3>. QED
      BY <3>1 DEF ClickIsOnScreen, NoPoll
  <2>1. CASE PollStarts(p)
    BY <2>1, TaskAssumption DEF PollStarts
  <2>2. CASE StatsArrive(p)
    BY <2>2, <2>4 DEF StatsArrive, NextHalf, Asking, StatsInv
  <2>3. CASE StatsFail(p)
    BY <2>3, <2>4 DEF StatsFail, NextHalf, Asking, StatsInv
  <2>. QED
    BY <2>1, <2>2, <2>3
<1>3. poll' = [q \in Poller |-> poll'[q]] /\ \A q \in Poller : poll'[q].got \in Lists \cup {<<>>, Nil}
  BY <1>2 DEF StatsInv
<1>4. /\ \A t \in Task : ClickIsOnScreen(t)'
      /\ poll'["loop"].pc # "closed"
  <2>1. ASSUME NEW t \in Task, t # p PROVE ClickIsOnScreen(t)'
    BY <1>1, <1>2, <2>1, ClickStays DEF StatsInv, Poller
  <2>2. ASSUME p \in Task PROVE ClickIsOnScreen(p)'
    <3>1. poll'[p].pc \in {"stats", "settings"} /\ poll[p] # NoPoll
      BY <1>2, <2>2 DEF StatsInv, NoPoll
    <3>2. ClickIsOnScreen(p) /\ UNCHANGED <<view, selected, task>>
      BY <1>1, <2>2 DEF StatsInv
    <3>. QED
      BY <3>1, <3>2 DEF ClickIsOnScreen
  <2>3. poll'["loop"].pc # "closed"
    BY <1>2 DEF StatsInv, StatsOpen, Poller
  <2>. QED
    BY <2>1, <2>2, <2>3
<1>5. ChartUnderItsHeading'
  BY <1>1 DEF StatsInv, ChartUnderItsHeading, Current
<1>. QED
  BY <1>1, <1>3, <1>4, <1>5 DEF StatsInv, StatsOpen

\* A new list may move the heading, which `regrouped` remembers.
LEMMA PollEndsInv ==
    ASSUME StatsInv, StatsOpen, NEW p \in Poller, PollEnds(p)
    PROVE  StatsInv' /\ StatsOpen'
<1>. DEFINE over == {p} \cup Unmounted(Shown(view', selected))
<1>1. /\ Over(over) /\ poll[p].pc \in {"first settings", "settings"}
      /\ UNCHANGED <<config, selected, chart, chart_server, chart_note, busy>>
  BY DEF PollEnds
<1>2. view' \in Lists \cup {<<>>}
  BY DEF PollEnds, ApplyStats, StatsInv
<1>3. /\ fetch' = [q \in Refresher |-> fetch'[q]]
      /\ \A q \in Refresher : /\ fetch'[q].pc \in {"idle", "spawned", "fetching"}
                              /\ fetch'[q].server \in Server \cup {Nil}
  <2>1. /\ Started(view', selected).pc \in {"idle", "spawned", "fetching"}
        /\ Started(view', selected).server \in Server \cup {Nil}
    BY <1>2, StartedType
  <2>2. fetch' = fetch \/ fetch' = [fetch EXCEPT !["loop"] = Started(view', selected)]
    BY DEF PollEnds
  <2>. QED
    BY <2>1, <2>2 DEF StatsInv
<1>4. /\ task' = [t \in Task |-> task'[t]] /\ \A t \in Task : ClickIsOnScreen(t)'
      /\ poll' = [q \in Poller |-> poll'[q]]
      /\ \A q \in Poller : poll'[q].got \in Lists \cup {<<>>, Nil}
      /\ poll'["loop"].pc # "closed"
  <2>1. over \in SUBSET Poller /\ Unmounted(Shown(view', selected')) \subseteq over
    BY <1>1 DEF Unmounted, Poller
  <2>. HIDE DEF over
  <2>2. /\ task' = [t \in Task |-> task'[t]] /\ \A t \in Task : ClickIsOnScreen(t)'
        /\ poll' = [q \in Poller |-> poll'[q]]
        /\ \A q \in Poller : poll'[q] \in {NoPoll, poll[q]}
        /\ \A q \in Poller : poll'[q].got \in Lists \cup {<<>>, Nil}
    BY <1>1, <2>1, OverInv
  <2>3. poll'["loop"].pc # "closed"
    BY <2>2 DEF StatsOpen, NoPoll, Poller
  <2>. QED
    BY <2>2, <2>3
<1>5. ChartUnderItsHeading'
  BY <1>1 DEF PollEnds, StatsInv, ChartUnderItsHeading, Current
<1>. QED
  BY <1>1, <1>2, <1>3, <1>4, <1>5 DEF StatsInv, StatsOpen

LEMMA ConfirmedInv ==
    ASSUME StatsInv, StatsOpen, NEW t \in Task, NEW card \in Card, NEW path \in Path,
           Confirmed(t, card, path)
    PROVE  StatsInv' /\ StatsOpen'
<1>1. /\ busy' = [busy EXCEPT ![card] = path]
      /\ task' = [task EXCEPT ![t] = [pc |-> "post", card |-> card, path |-> path]]
      /\ path \in Shown(view, selected) /\ task[t].pc = "idle"
      /\ UNCHANGED <<config, view, selected, chart, chart_server, chart_note, error, poll, fetch,
                     regrouped>>
  BY DEF Confirmed
<1>2. busy' \in [Card -> Path \cup {Nil}] /\ task' = [u \in Task |-> task'[u]]
  BY <1>1 DEF StatsInv
<1>3. ASSUME NEW u \in Task PROVE ClickIsOnScreen(u)'
  <2>1. CASE u = t
    BY <1>1, <2>1 DEF StatsInv, ClickIsOnScreen
  <2>2. CASE u # t
    BY <1>1, <2>2, ClickStays DEF StatsInv
  <2>. QED
    BY <2>1, <2>2
<1>. QED
  BY <1>1, <1>2, <1>3 DEF StatsInv, StatsOpen, ChartUnderItsHeading, Current

LEMMA PostEndsInv ==
    ASSUME StatsInv, StatsOpen, NEW t \in Task, PostEnds(t)
    PROVE  StatsInv' /\ StatsOpen'
<1>1. /\ poll' = [poll EXCEPT ![t] = [pc |-> "stats", got |-> Nil]]
      /\ task' = [task EXCEPT ![t].pc = "poll"] /\ task[t].pc = "post"
      /\ busy' = [busy EXCEPT ![task[t].card] = Nil]
      /\ UNCHANGED <<config, view, selected, chart, chart_server, chart_note, error, fetch, regrouped>>
  BY DEF PostEnds
<1>2. busy' \in [Card -> Path \cup {Nil}] /\ task' = [u \in Task |-> task'[u]]
  BY <1>1 DEF StatsInv
<1>3. /\ poll' = [p \in Poller |-> poll'[p]] /\ poll'[t].pc = "stats"
      /\ \A p \in Poller : poll'[p].got \in Lists \cup {<<>>, Nil}
      /\ poll'["loop"] = poll["loop"]
  BY <1>1, TaskAssumption DEF StatsInv, Poller
<1>4. ASSUME NEW u \in Task PROVE ClickIsOnScreen(u)'
  <2>1. CASE u = t
    <3>1. task[t] \in [pc : {"post", "poll"}, card : Card, path : Shown(view, selected)]
      <4>1. ClickIsOnScreen(t)
        BY DEF StatsInv
      <4>. QED
        BY <1>1, <4>1 DEF ClickIsOnScreen, NoTask
    <3>2. task'[t] = [task[t] EXCEPT !.pc = "poll"]
      BY <1>1 DEF StatsInv
    <3>3. task'[t] \in [pc : {"post", "poll"}, card : Card, path : Shown(view, selected)]
          /\ task'[t].pc = "poll"
      BY <3>1, <3>2
    <3>. QED
      BY <1>1, <1>3, <2>1, <3>3 DEF ClickIsOnScreen
  <2>2. CASE u # t
    BY <1>1, <2>2, ClickStays DEF StatsInv, Poller
  <2>. QED
    BY <2>1, <2>2
<1>. QED
  BY <1>1, <1>2, <1>3, <1>4 DEF StatsInv, StatsOpen, ChartUnderItsHeading, Current

LEMMA StatsStepInv ==
    ASSUME StatsInv, StatsOpen, StatsNext
    PROVE  StatsInv' /\ StatsOpen'
<1>1. ASSUME NEW list \in Lists, Reconfigure(list) PROVE StatsInv' /\ StatsOpen'
  BY <1>1, ClicksStay DEF Reconfigure, StatsInv, StatsOpen, ChartUnderItsHeading, Current
<1>3. ASSUME NEW t \in Task, PostEnds(t) PROVE StatsInv' /\ StatsOpen'
  BY <1>3, PostEndsInv
<1>4. ASSUME NEW p \in Poller, PollStep(p) \/ StatsArrive(p) \/ StatsFail(p)
      PROVE  StatsInv' /\ StatsOpen'
  BY <1>4, PollAsksInv, PollEndsInv DEF PollStep
<1>5. ASSUME NEW r \in Refresher, FetchStep(r) PROVE StatsInv' /\ StatsOpen'
  BY <1>5, RefreshStartsInv, FetchEndsInv DEF FetchStep, Refresher
<1>6. ASSUME NEW server \in Server, NEW r \in Click, SelectServer(server, r)
      PROVE  StatsInv' /\ StatsOpen'
  BY <1>6, SelectServerInv
<1>7. ASSUME NEW t \in Task, NEW card \in Card, NEW path \in Path, Confirmed(t, card, path)
      PROVE  StatsInv' /\ StatsOpen'
  BY <1>7, ConfirmedInv
<1>. QED
  BY <1>1, <1>3, <1>4, <1>5, <1>6, <1>7 DEF StatsNext

-----------------------------------------------------------------------------
(* Both pages.                                                             *)

pagesVars == <<adminVars, statsVars>>

LEMMA StillInv ==
    /\ AdminInv /\ UNCHANGED adminVars => AdminInv' /\ (AdminOpen' <=> AdminOpen)
    /\ StatsInv /\ UNCHANGED statsVars => StatsInv' /\ (StatsOpen' <=> StatsOpen)
<1>1. AdminInv /\ UNCHANGED adminVars => AdminInv' /\ (AdminOpen' <=> AdminOpen)
  BY DEF adminVars, AdminInv, AdminOpen, InFlight
<1>2. StatsInv /\ UNCHANGED statsVars => StatsInv' /\ (StatsOpen' <=> StatsOpen)
  BY ClicksStay DEF statsVars, StatsInv, StatsOpen, ChartUnderItsHeading, Current
<1>. QED
  BY <1>1, <1>2

LEMMA StepInv == PagesInv /\ [Next]_pagesVars => PagesInv'
<1>. SUFFICES ASSUME PagesInv, [Next]_pagesVars PROVE PagesInv'
  OBVIOUS
<1>1. CASE UNCHANGED pagesVars
  BY <1>1, StillInv DEF pagesVars, PagesInv
<1>2. CASE AdminOpen /\ AdminNext /\ UNCHANGED statsVars
  BY <1>2, StillInv, AdminStepInv DEF PagesInv
<1>3. CASE StatsOpen /\ StatsNext /\ UNCHANGED adminVars
  BY <1>3, StillInv, StatsStepInv DEF PagesInv
<1>4. CASE ToStats
  BY <1>4, AdminResetInv, StatsResetInv DEF ToStats, PagesInv
<1>5. CASE ToHome
  BY <1>5, AdminResetInv, StatsResetInv DEF ToHome, PagesInv
<1>. QED
  BY <1>1, <1>2, <1>3, <1>4, <1>5 DEF Next

\* The invariants of the pages hold in every state, however polls, clicks and
\* refreshes interleave and whichever page is left (home.rs, stats.rs).
THEOREM Invariance == Spec => []PagesInv
<1>1. Init => PagesInv
  BY AdminInitInv, StatsInitInv DEF Init, PagesInv
<1>. QED
  BY <1>1, StepInv, PTL DEF Spec, pagesVars

-----------------------------------------------------------------------------
(* Theorems.                                                               *)

\* Every reachable state of the pages is well typed, and one page is open.
THEOREM TypeCorrect == Spec => []TypeOK
<1>1. AdminInv => AdminTypeOK
  BY DEF AdminInv, AdminTypeOK, HomePoll, Toggle, Answer
<1>2. StatsInv => StatsTypeOK
  BY DEF StatsInv, StatsTypeOK
<1>. QED
  BY <1>1, <1>2, Invariance, PTL DEF PagesInv, TypeOK

\* A row whose buttons are disabled has a click of its own in flight, whatever
\* other rows are being changed (HomeState.saving).
THEOREM QuietRowsAreChanging == Spec => []QuietRowIsChanging
<1>1. AdminInv => QuietRowIsChanging
  BY AdminAssumption DEF AdminInv, QuietRowIsChanging, IsSaving
<1>. QED
  BY <1>1, Invariance, PTL DEF PagesInv

\* Panels stand under the heading of their own server, unless a new list has
\* moved it since they were drawn (refresh_chart).
THEOREM NoForeignPanels == Spec => []ChartUnderItsHeading
  BY Invariance, PTL DEF PagesInv, StatsInv
=============================================================================
