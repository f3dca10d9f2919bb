----------------------------- MODULE WriteGate -----------------------------
(***************************************************************************)
(* The write gate of the server: the per-database write window             *)
(* (src/src/app/db_ctx.rs), the clicks that open and close it              *)
(* (SetMcpWritesAction), and the sql_request tool calls it guards          *)
(* (src/src/mcp_service/sql_request.rs) from the moment they arrive to the *)
(* entry they leave in the request log, including what Postgres does with  *)
(* the statements it is handed.                                            *)
(*                                                                         *)
(* Handlers run on a multi-threaded runtime, so every access to a shared   *)
(* word - the clock, the deadline, the id counter, the ring - is a step of *)
(* its own and the steps of all handlers interleave.                       *)
(***************************************************************************)
EXTENDS RequestLog

CONSTANTS
    Db,              \* the mounted databases
    Call,            \* sql_request tool calls; each is made at most once
    Click,           \* Enable clicks; each is made at most once
    Window,          \* MCP_WRITES_WINDOW, in units of the clock
    MaxLag,          \* bound: clock units a click handler spends between reading
                     \* the clock and updating the deadline
    MaxTime,         \* bound: the last reading of the clock
    LastClick        \* bound: the last reading of the clock at which a click arrives

ASSUME WindowAssumption ==
    /\ Window \in Nat
    /\ MaxLag \in Nat
    /\ MaxLag <= Window
    /\ MaxTime \in Nat
    /\ LastClick \in Nat

ASSUME HandlerAssumption == Call \intersect Click = {}

VARIABLES
    now,             \* DateTimeAsMicroseconds::now(), shared by every handler
    until,           \* until[d]: mcp_writes_enabled_until, 0 when closed
    pc,              \* pc[h]: how far the handler of a call or of a click has got
    click,           \* click[k]: the database of a click, and its handler's `now`
    call,            \* call[c]: the database and kind of a call, and its handler's locals
    pg,              \* pg[c]: what Postgres has done with the statement of c
    saw_open,        \* history: the window of the database of write c was open at
                     \* some moment between the arrival and the admission of c
    answered         \* history: the answers since the server started, in order

gateVars == <<now, until, pc, click, call, pg, saw_open, answered>>
vars == <<gateVars, logVars>>

Handler == Call \union Click

Pc == {"idle", "update", "gate", "compare", "await", "log", "push", "done"}
Status == {"none", "ok", "error", "blocked"}

ClickRun == [db : Db, now : Nat]
CallRun == [db : Db, is_write : BOOLEAN, started : Nat, until : Nat,
            status : Status, id : Nat]
Entry == [id : Nat, call : Call, db : Db, is_write : BOOLEAN,
          started : Nat, status : Status]
Answer == [id : Nat, call : Call]

TypeOK ==
    /\ now \in Nat
    /\ until \in [Db -> Nat]
    /\ pc \in [Handler -> Pc]
    /\ click \in [Click -> ClickRun]
    /\ call \in [Call -> CallRun]
    /\ pg \in [Call -> {"none", "sent", "applied", "rejected"}]
    /\ saw_open \in [Call -> BOOLEAN]
    /\ answered \in Seq(Answer)
    /\ items \in Seq(Entry)
    /\ next_id \in Nat

-----------------------------------------------------------------------------
(* The window.                                                             *)

(***************************************************************************)
(* Deliberate mistakes, each a way this code could plausibly be wrong,     *)
(* stand before the definition they would replace.  Here: a click that     *)
(* starts over instead of stacking, and one that stores what is left       *)
(* instead of when it ends.                                                *)
(***************************************************************************)
ExtendedUntilFromNow(current, at) == at + Window

ExtendedUntilAsRemaining(current, at) == (current - at) + Window

(***************************************************************************)
(* `extended_until`: a full window on top of whatever is left; a deadline  *)
(* that has passed does not carry over.                                    *)
(***************************************************************************)
ExtendedUntil(current, at) == (IF current > at THEN current ELSE at) + Window

IsWriteEnabledOnceSet(deadline, at) == deadline > 0   \* mistake: no clock

(***************************************************************************)
(* `mcp_writes_enabled_until().is_some()` for a deadline already loaded.   *)
(***************************************************************************)
IsWriteEnabled(deadline, at) == deadline > at

IsOpen(d) == IsWriteEnabled(until[d], now)

InProgress(h) == pc[h] \notin {"idle", "done"}

AtTheGate(c) == pc[c] \in {"gate", "compare"}

(***************************************************************************)
(* A handler that has ended: its local variables are gone.                 *)
(***************************************************************************)
Finished(run) ==
    [db |-> run.db, is_write |-> run.is_write, started |-> 0, until |-> 0,
     status |-> "none", id |-> 0]

Landed(run) == [db |-> run.db, now |-> 0]

-----------------------------------------------------------------------------
Init ==
    /\ now = 1
    /\ until = [d \in Db |-> 0]
    /\ pc = [h \in Handler |-> "idle"]
    /\ click \in [Click -> [db : Db, now : {0}]]
    /\ call \in [Call -> [db : Db, is_write : BOOLEAN, started : {0}, until : {0},
                          status : {"none"}, id : {0}]]
    /\ pg = [c \in Call |-> "none"]
    /\ saw_open = [c \in Call |-> FALSE]
    /\ answered = << >>
    /\ LogInit

(***************************************************************************)
(* The clock moves one unit, never past a click handler that has lagged    *)
(* MaxLag units behind its own reading of it.                              *)
(***************************************************************************)
Tick ==
    /\ now < MaxTime
    /\ \A k \in Click : pc[k] = "update" => now < click[k].now + MaxLag
    /\ now' = now + 1
    /\ UNCHANGED <<until, pc, click, call, pg, saw_open, answered, logVars>>

-----------------------------------------------------------------------------
(* The operator: POST /api/Settings/McpWrites.                             *)

(***************************************************************************)
(* `enabled: true`, first step: `enable_mcp_writes` reads the clock once,  *)
(* before the read-modify-write that uses it.                              *)
(***************************************************************************)
EnableReadClock(k) ==
    /\ pc[k] = "idle"
    /\ now <= LastClick
    /\ pc' = [pc EXCEPT ![k] = "update"]
    /\ click' = [click EXCEPT ![k].now = now]
    /\ UNCHANGED <<now, until, call, pg, saw_open, answered, logVars>>

(***************************************************************************)
(* `enabled: true`, second step: `fetch_update` is a compare-and-swap loop,*)
(* so it sees the deadline as it is now, with the clock as it was then.    *)
(***************************************************************************)
EnableUpdate(k) ==
    LET d == click[k].db
        extended == ExtendedUntil(until[d], click[k].now)
    IN  /\ pc[k] = "update"
        /\ until' = [until EXCEPT ![d] = extended]
        /\ pc' = [pc EXCEPT ![k] = "done"]
        /\ click' = [click EXCEPT ![k] = Landed(@)]
        /\ saw_open' = [c \in Call |->
               \/ saw_open[c]
               \/ AtTheGate(c) /\ call[c].db = d /\ IsWriteEnabled(extended, now)]
        /\ UNCHANGED <<now, call, pg, answered, logVars>>

(***************************************************************************)
(* `enabled: false`: one atomic store of 0.                                *)
(***************************************************************************)
DisableMcpWrites(d) ==
    /\ until' = [until EXCEPT ![d] = 0]
    /\ UNCHANGED <<now, pc, click, call, pg, saw_open, answered, logVars>>

-----------------------------------------------------------------------------
(* The agent: one call of the sql_request tool.                            *)

(***************************************************************************)
(* A statement handed to the driver: from here on Postgres may run it.     *)
(***************************************************************************)
DoRequest(c) == pg' = [pg EXCEPT ![c] = "sent"]

(***************************************************************************)
(* The call arrives and is classified.  A read goes straight to Postgres,  *)
(* a write to the gate.                                                    *)
(***************************************************************************)
ReceiveRead(c) ==
    /\ pc[c] = "idle"
    /\ ~call[c].is_write
    /\ pc' = [pc EXCEPT ![c] = "await"]
    /\ call' = [call EXCEPT ![c].started = now]
    /\ DoRequest(c)
    /\ UNCHANGED <<now, until, click, saw_open, answered, logVars>>

ReceiveWrite(c) ==
    /\ pc[c] = "idle"
    /\ call[c].is_write
    /\ pc' = [pc EXCEPT ![c] = "gate"]
    /\ call' = [call EXCEPT ![c].started = now]
    /\ saw_open' = [saw_open EXCEPT ![c] = IsOpen(call[c].db)]
    /\ UNCHANGED <<now, until, click, pg, answered, logVars>>

\* Mistake: the gate of another mount.
LoadAnyDeadline(c) ==
    /\ pc[c] = "gate"
    /\ pc' = [pc EXCEPT ![c] = "compare"]
    /\ \E d \in Db : call' = [call EXCEPT ![c].until = until[d]]
    /\ UNCHANGED <<now, until, click, pg, saw_open, answered, logVars>>

(***************************************************************************)
(* `ensure_mcp_writes_enabled`, first half: the deadline is loaded.        *)
(***************************************************************************)
LoadDeadline(c) ==
    /\ pc[c] = "gate"
    /\ pc' = [pc EXCEPT ![c] = "compare"]
    /\ call' = [call EXCEPT ![c].until = until[call[c].db]]
    /\ UNCHANGED <<now, until, click, pg, saw_open, answered, logVars>>

(***************************************************************************)
(* Second half: the loaded deadline against the clock.  A call that passes *)
(* awaits Postgres; a refused one only has its log entry left to write.    *)
(***************************************************************************)
Admit(c) ==
    /\ pc[c] = "compare"
    /\ IsWriteEnabled(call[c].until, now)
    /\ pc' = [pc EXCEPT ![c] = "await"]
    /\ call' = [call EXCEPT ![c].until = 0]
    /\ DoRequest(c)
    /\ UNCHANGED <<now, until, click, saw_open, answered, logVars>>

\* Mistake: the refusal is only noticed after the statement has gone out.
RefuseTooLate(c) ==
    /\ pc[c] = "compare"
    /\ ~IsWriteEnabled(call[c].until, now)
    /\ pc' = [pc EXCEPT ![c] = "log"]
    /\ call' = [call EXCEPT ![c].status = "blocked"]
    /\ DoRequest(c)
    /\ UNCHANGED <<now, until, click, saw_open, answered, logVars>>

Refuse(c) ==
    /\ pc[c] = "compare"
    /\ ~IsWriteEnabled(call[c].until, now)
    /\ pc' = [pc EXCEPT ![c] = "log"]
    /\ call' = [call EXCEPT ![c].status = "blocked"]
    /\ UNCHANGED <<now, until, click, pg, saw_open, answered, logVars>>

(***************************************************************************)
(* `do_request` returns: with the rows of a statement Postgres ran, or     *)
(* with an error - which also covers a driver that stopped waiting for a   *)
(* statement Postgres has run or may still run.                            *)
(***************************************************************************)
ReturnOk(c) ==
    /\ pc[c] = "await"
    /\ pg[c] = "applied"
    /\ pc' = [pc EXCEPT ![c] = "log"]
    /\ call' = [call EXCEPT ![c].status = "ok"]
    /\ UNCHANGED <<now, until, click, pg, saw_open, answered, logVars>>

\* Mistake: no timeout, only an answer ends the wait.
ReturnErrorOnAnswer(c) ==
    /\ pc[c] = "await"
    /\ pg[c] = "rejected"
    /\ pc' = [pc EXCEPT ![c] = "log"]
    /\ call' = [call EXCEPT ![c].status = "error"]
    /\ UNCHANGED <<now, until, click, pg, saw_open, answered, logVars>>

ReturnError(c) ==
    /\ pc[c] = "await"
    /\ pc' = [pc EXCEPT ![c] = "log"]
    /\ call' = [call EXCEPT ![c].status = "error"]
    /\ UNCHANGED <<now, until, click, pg, saw_open, answered, logVars>>

(***************************************************************************)
(* `sql_log.add`: the id first, then the push.                             *)
(***************************************************************************)
LogTakeId(c) ==
    /\ pc[c] = "log"
    /\ pc' = [pc EXCEPT ![c] = "push"]
    /\ call' = [call EXCEPT ![c].id = next_id]
    /\ TakeId
    /\ UNCHANGED <<now, until, click, pg, saw_open, answered, items>>

EntryOf(c) ==
    [id |-> call[c].id, call |-> c, db |-> call[c].db, is_write |-> call[c].is_write,
     started |-> call[c].started, status |-> call[c].status]

LogPush(c) ==
    /\ pc[c] = "push"
    /\ pc' = [pc EXCEPT ![c] = "done"]
    /\ call' = [call EXCEPT ![c] = Finished(@)]
    /\ PushItem(EntryOf(c))
    /\ answered' = Append(answered, [id |-> call[c].id, call |-> c])
    /\ UNCHANGED <<now, until, click, pg, saw_open, next_id>>

-----------------------------------------------------------------------------
(* Postgres, as seen through the driver.                                   *)

PgApply(c) ==
    /\ pg[c] = "sent"
    /\ pg' = [pg EXCEPT ![c] = "applied"]
    /\ UNCHANGED <<now, until, pc, click, call, saw_open, answered, logVars>>

(***************************************************************************)
(* Refused by Postgres, cancelled by the driver, or never delivered.       *)
(***************************************************************************)
PgReject(c) ==
    /\ pg[c] = "sent"
    /\ pg' = [pg EXCEPT ![c] = "rejected"]
    /\ UNCHANGED <<now, until, pc, click, call, saw_open, answered, logVars>>

-----------------------------------------------------------------------------
(***************************************************************************)
(* The process dies and comes up again.  Windows and log are held in       *)
(* memory only; handlers in progress are gone without an entry; a          *)
(* statement Postgres already has is Postgres' to finish.                  *)
(***************************************************************************)
Restart ==
    /\ until' = [d \in Db |-> 0]
    /\ pc' = [h \in Handler |-> IF InProgress(h) THEN "done" ELSE pc[h]]
    /\ click' = [k \in Click |-> Landed(click[k])]
    /\ call' = [c \in Call |-> Finished(call[c])]
    /\ items' = << >>
    /\ next_id' = 1
    /\ answered' = << >>
    /\ UNCHANGED <<now, pg, saw_open>>

-----------------------------------------------------------------------------
CallStep(c) ==
    \/ LoadDeadline(c) \/ Admit(c) \/ Refuse(c)
    \/ ReturnOk(c) \/ ReturnError(c)
    \/ LogTakeId(c) \/ LogPush(c)

Next ==
    \/ Tick
    \/ \E k \in Click : EnableReadClock(k) \/ EnableUpdate(k)
    \/ \E d \in Db : DisableMcpWrites(d)
    \/ \E c \in Call : ReceiveRead(c) \/ ReceiveWrite(c) \/ CallStep(c)
    \/ \E c \in Call : PgApply(c) \/ PgReject(c)
    \/ Restart

Spec == Init /\ [][Next]_vars

(***************************************************************************)
(* Time passes, a handler that has started keeps running, and the driver   *)
(* always comes back from a statement, with an answer or an error.         *)
(***************************************************************************)
FairSpec ==
    /\ Spec
    /\ WF_vars(Tick)
    /\ \A k \in Click : WF_vars(EnableUpdate(k))
    /\ \A c \in Call : WF_vars(CallStep(c))

-----------------------------------------------------------------------------
(* What the gate promises.                                                 *)

(***************************************************************************)
(* A write reaches Postgres only if the window of the very database it     *)
(* runs on was open at some moment between the arrival of the call and its *)
(* admission - whatever clicks, resets, ticks and other calls do           *)
(* meanwhile.  In particular no call that arrives after a reset or a       *)
(* restart gets through on a window bought before it, and no click on one  *)
(* database admits a write to another (ensure_mcp_writes_enabled).         *)
(***************************************************************************)
AdmittedOnlyWhileOpen ==
    \A c \in Call : call[c].is_write /\ pg[c] # "none" => saw_open[c]

(***************************************************************************)
(* The log tells the truth about Postgres: an entry "blocked" stands for a *)
(* statement Postgres never saw, an entry "ok" for one it ran, and an      *)
(* entry names the database the statement went to (SqlRequestStatus: "     *)
(* `Blocked` never reaches Postgres").                                     *)
(***************************************************************************)
IsTruthful(e) ==
    /\ e.db = call[e.call].db
    /\ e.is_write = call[e.call].is_write
    /\ e.status = "blocked" => pg[e.call] = "none" /\ e.is_write
    /\ e.status = "ok" => pg[e.call] = "applied"

LogIsTruthful == \A i \in 1..Len(items) : IsTruthful(items[i])

(***************************************************************************)
(* Every call that was answered since the server started is in the log     *)
(* until MAX_ITEMS later answers have pushed it out: the ring holds the    *)
(* last MAX_ITEMS answers, refusals included, and no two answers were ever *)
(* given the same id (SqlRequestsLog::add).                                *)
(***************************************************************************)
Kept == IF Len(answered) < MAX_ITEMS THEN Len(answered) ELSE MAX_ITEMS

RingHoldsTheLastAnswers ==
    /\ Len(items) = Kept
    /\ \A i \in 1..Kept :
          LET answer == answered[Len(answered) - Kept + i]
          IN  items[i].id = answer.id /\ items[i].call = answer.call
    /\ \A i, j \in 1..Len(answered) : answered[i].id = answered[j].id => i = j

(***************************************************************************)
(* A deadline that expires lazily is a countdown: the window of every      *)
(* database behaves as WriteWindow promises.  Every click that ends counts *)
(* once, on its own database and for a full window, two at once included,  *)
(* unless a restart swallows it; resets do not leak to another database.   *)
(***************************************************************************)
Left == [d \in Db |-> IF IsOpen(d) THEN until[d] - now ELSE 0]

Request == [k \in Click |-> click[k].db]

Counted == {k \in Click : pc[k] = "done"}

Countdown == INSTANCE WriteWindow WITH left <- Left, request <- Request, counted <- Counted

WindowIsACountdown == Countdown!WindowSpec

(***************************************************************************)
(* "A single chronological timeline" (AppContext::sql_log), "newest first" *)
(* (get_all, GET /api/Requests): going down the page, the requests start   *)
(* no later than the ones above them.                                      *)
(***************************************************************************)
NewestFirst ==
    \A i, j \in 1..Len(items) : i < j => GetAll[i].started >= GetAll[j].started

(***************************************************************************)
(* No window stays open for ever: it closes by the clock alone, although   *)
(* nothing in the server watches for its end.                              *)
(***************************************************************************)
EveryWindowCloses == \A d \in Db : IsOpen(d) ~> ~IsOpen(d)

(***************************************************************************)
(* Every call that arrives is answered: refused, run or failed, but never  *)
(* left waiting on the gate or the log (or gone with the process).         *)
(***************************************************************************)
EveryCallIsAnswered == \A c \in Call : InProgress(c) ~> pc[c] = "done"

=============================================================================
