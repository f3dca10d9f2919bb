----------------------------- MODULE AdminPage ------------------------------
(***************************************************************************)
(* ui/src/pages/home.rs: the page that opens and closes write windows.     *)
(*                                                                         *)
(* A loop polls the server once a second; a click posts a change and reads *)
(* the settings back.  Poll and clicks share one signal, and each awaits   *)
(* its answers on its own, so answers land in any order.  What is fetched *)
(* says what the server said when it was served, and is applied later.     *)
(***************************************************************************)
EXTENDS Integers

CONSTANTS Db,        \* the mounts
          Tab,       \* the toggles that may be in flight at once
          None       \* no answer, no row

ASSUME AdminAssumption == None \notin Db

VARIABLES open,      \* the server: whether the window of a mount is open
          shown,     \* HomeState.settings: what each row says, None before a poll
          saving,    \* HomeState.saving: the row whose window is being changed
          homePoll,  \* the poller
          toggle     \* tab -> one run of toggle_mcp_writes

adminVars == <<open, shown, saving, homePoll, toggle>>

Unknown == [d \in Db |-> None]

\* One fetch of the settings: sent, served (with what the server said), over.
HomePollIdle == [pc |-> "sleep", got |-> None]
ToggleIdle == [pc |-> "idle", db |-> None, enabled |-> FALSE, got |-> None]

\* HomeState::default: a visit starts with nothing known.  A page that is not
\* open has no loop and follows nothing.
AdminInit(pc) == /\ open \in IF pc = "closed" THEN {[d \in Db |-> FALSE]} ELSE [Db -> BOOLEAN]
                 /\ shown = Unknown /\ saving = None
                 /\ homePoll = [HomePollIdle EXCEPT !.pc = pc]
                 /\ toggle = [t \in Tab |-> ToggleIdle]

\* Leaving a page drops it and the tasks it has spawned.
AdminReset(pc) == /\ open' \in IF pc = "closed" THEN {[d \in Db |-> FALSE]} ELSE [Db -> BOOLEAN]
                  /\ shown' = Unknown /\ saving' = None
                  /\ homePoll' = [HomePollIdle EXCEPT !.pc = pc]
                  /\ toggle' = [t \in Tab |-> ToggleIdle]

-----------------------------------------------------------------------------
(* The server.                                                             *)

\* SettingsPublicModel::new: every mount with its window.
Settings == open

\* The window runs out, or another browser opens or closes it.
WindowMoves(d) ==
    /\ open' = [open EXCEPT ![d] = ~@]
    /\ UNCHANGED <<shown, saving, homePoll, toggle>>

-----------------------------------------------------------------------------
(* The poller.                                                             *)

HomePollStarts == /\ homePoll.pc = "sleep"
                  /\ homePoll' = [pc |-> "settings", got |-> None]
                  /\ UNCHANGED <<open, shown, saving, toggle>>

\* The answer says what the server said; it is held until the requests, which
\* are fetched next in either case, have arrived or failed.
HomePollSettingsArrive == /\ homePoll.pc = "settings"
                          /\ homePoll' = [pc |-> "requests", got |-> Settings]
                          /\ UNCHANGED <<open, shown, saving, toggle>>

\* Mistake: the loop returns on a failed fetch.
HomePollSettingsEnd == /\ homePoll.pc = "settings"
                       /\ homePoll' = [pc |-> "over", got |-> None]
                       /\ UNCHANGED <<open, shown, saving, toggle>>

\* apply_tick: a half that failed keeps the last known value.
ApplyTick(settings) == shown' = IF settings = None THEN shown ELSE settings

HomePollSettingsFail == /\ homePoll.pc = "settings"
                        /\ homePoll' = [pc |-> "requests", got |-> None]
                        /\ UNCHANGED <<open, shown, saving, toggle>>

\* One write for both halves.
HomePollEnds == /\ homePoll.pc = "requests"
                /\ ApplyTick(homePoll.got)
                /\ homePoll' = HomePollIdle
                /\ UNCHANGED <<open, saving, toggle>>

-----------------------------------------------------------------------------
(* The buttons of a row.                                                   *)

IsSaving(d) == saving = d

\* WriteAccessRow: an open row offers Disable and +10 min, a closed one Enable;
\* none of them while the row is being saved.
Offered(d) == IF shown[d] = None \/ IsSaving(d) THEN {}
              ELSE IF shown[d] = TRUE THEN {TRUE, FALSE} ELSE {TRUE}

ToggleMcpWrites(t, d, enabled) ==
    /\ toggle[t].pc = "idle" /\ enabled \in Offered(d)
    /\ saving' = d
    /\ toggle' = [toggle EXCEPT ![t] = [pc |-> "post", db |-> d, enabled |-> enabled, got |-> None]]
    /\ UNCHANGED <<open, shown, homePoll>>

\* The server opens or closes the window; only a good answer leads to the
\* re-read of the settings.
PostIsServed(t) ==
    /\ toggle[t].pc = "post"
    /\ open' = [open EXCEPT ![toggle[t].db] = toggle[t].enabled]
    /\ toggle' = [toggle EXCEPT ![t].pc = "reread", ![t].enabled = FALSE]
    /\ UNCHANGED <<shown, saving, homePoll>>

RereadIsServed(t) ==
    /\ toggle[t].pc = "reread" /\ toggle[t].got = None
    /\ toggle' = [toggle EXCEPT ![t].got = Settings]
    /\ UNCHANGED <<open, shown, saving, homePoll>>

\* Mistake: the error path returns without giving the row back.
FinishSaveIfAnswered(settings) ==
    /\ saving' = IF settings = None THEN saving ELSE None
    /\ shown' = IF settings = None THEN shown ELSE settings

FinishSave(settings) ==
    /\ saving' = None
    /\ shown' = IF settings = None THEN shown ELSE settings

RereadArrives(t) ==
    /\ toggle[t].pc = "reread" /\ toggle[t].got # None
    /\ FinishSave(toggle[t].got)
    /\ toggle' = [toggle EXCEPT ![t] = ToggleIdle]
    /\ UNCHANGED <<open, homePoll>>

\* The post fails, with or without effect, or the re-read does.
ToggleFails(t) ==
    /\ toggle[t].pc # "idle"
    /\ \/ UNCHANGED open
       \/ toggle[t].pc = "post" /\ open' = [open EXCEPT ![toggle[t].db] = toggle[t].enabled]
    /\ FinishSave(None)
    /\ toggle' = [toggle EXCEPT ![t] = ToggleIdle]
    /\ UNCHANGED homePoll

-----------------------------------------------------------------------------
ToggleStep(t) == PostIsServed(t) \/ RereadIsServed(t) \/ RereadArrives(t)

AdminNext ==
    \/ \E d \in Db : WindowMoves(d)
    \/ HomePollStarts \/ HomePollSettingsArrive \/ HomePollSettingsFail \/ HomePollEnds
    \/ \E t \in Tab, d \in Db, enabled \in BOOLEAN : ToggleMcpWrites(t, d, enabled)
    \/ \E t \in Tab : ToggleStep(t) \/ ToggleFails(t)

\* The loop and the tasks run whenever they can; a request that is sent again
\* and again is answered in the end.
AdminFairness == /\ WF_adminVars(HomePollStarts) /\ WF_adminVars(HomePollEnds)
                 /\ SF_adminVars(HomePollSettingsArrive)
                 /\ \A t \in Tab : WF_adminVars(ToggleStep(t))

-----------------------------------------------------------------------------
(* Properties.                                                             *)

AdminTypeOK ==
    /\ open \in [Db -> BOOLEAN] /\ shown \in [Db -> BOOLEAN \cup {None}]
    /\ saving \in Db \cup {None}
    /\ homePoll.pc \in {"closed", "sleep", "settings", "requests"}
    /\ homePoll.got \in [Db -> BOOLEAN] \cup {None}
    /\ \A t \in Tab : /\ toggle[t].pc \in {"idle", "post", "reread"}
                      /\ toggle[t].db \in Db \cup {None}

InFlight(d) == \E t \in Tab : toggle[t].pc # "idle" /\ toggle[t].db = d

\* A row is never quiet without a reason: whatever the order in which clicks
\* on several rows end, a row whose buttons are disabled has a click of its own
\* in flight (HomeState.saving).
QuietRowIsChanging == \A d \in Db : IsSaving(d) => InFlight(d)

\* A row gets its buttons back, whether its post or its re-read succeeded or
\* not.
EveryRowWakes == \A d \in Db : IsSaving(d) ~> ~IsSaving(d)

\* The page agrees with the server in the end: once the window of a mount
\* stays as it is, the row says so for good, although a poll that was served
\* before a click may still overwrite what the click read back.
AdminOpen == homePoll.pc # "closed"
PageCatchesUp == \A d \in Db, v \in BOOLEAN :
    <>[](AdminOpen /\ open[d] = v) => <>[](shown[d] = v)
=============================================================================
