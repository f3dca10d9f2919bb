---------------------------- MODULE ServerConfig ----------------------------
(***************************************************************************)
(* The two endpoints that change the configuration of Postgres itself:     *)
(* track_io_timing (src/src/db_stats/track_io_timing.rs) and the setup of  *)
(* pg_stat_statements (src/src/db_stats/extension_setup.rs), with the      *)
(* clicks of several operators, an administrator at psql, and a Postgres   *)
(* that reloads and restarts when it likes.                                *)
(*                                                                         *)
(* ALTER SYSTEM writes a file; a reload, which pg_reload_conf() only asks  *)
(* for, brings track_io_timing into force, and a restart the libraries.    *)
(***************************************************************************)
EXTENDS Integers, Sequences, SequencesExt

CONSTANTS
    Click,           \* requests to the two endpoints
    Library,         \* the other libraries an administrator may preload
    Unsafe,          \* those whose names is_safe_library_list refuses
    EXTENSION        \* "pg_stat_statements"

ASSUME LibraryAssumption == Unsafe \subseteq Library /\ EXTENSION \notin Library

VARIABLES
    file,            \* postgresql.auto.conf: what ALTER SYSTEM has written
    server,          \* the running server
    pc,              \* pc[k]: the statement the handler of click k sends next
    click            \* click[k]: what is asked for, what was probed, the answer

vars == <<file, server, pc, click>>

Requested == {"on", "off", "create", "preload"}

(***************************************************************************)
(* A list in the file is a sequence of elements.  An element is one file   *)
(* name; a name with commas in it, which is no library, is the sequence of *)
(* what stands between them.                                               *)
(***************************************************************************)
Name == Library \union {EXTENSION}

ConfigFile == [libraries : Seq(Seq(Name)), io_timing : BOOLEAN]

Server == [up : BOOLEAN, available : BOOLEAN, installed : BOOLEAN,
           libraries : Seq(Name), io_timing : BOOLEAN, reload : BOOLEAN]

Answer == {"none", "ok", "blocked", "error"}

SetupRun == [requested : Requested, current_preload : Seq(Name), answer : Answer]

Pc == {"idle", "probe", "create", "preload", "alter", "reload", "read_back", "done"}

TypeOK ==
    /\ file \in ConfigFile
    /\ server \in Server
    /\ pc \in [Click -> Pc]
    /\ click \in [Click -> SetupRun]

-----------------------------------------------------------------------------
(* Postgres and its administrator.                                         *)

AsElements(list) == [i \in 1..Len(list) |-> <<list[i]>>]

Written(elements) == FlattenSeq(elements)

(***************************************************************************)
(* Postgres refuses to start over an element that is not one library.      *)
(***************************************************************************)
CanStart(elements) == \A i \in 1..Len(elements) : Len(elements[i]) = 1

ByHand == {<< >>} \union {<<l>> : l \in Library}

Init ==
    /\ \E list \in ByHand, io_timing, available \in BOOLEAN :
        /\ file = [libraries |-> AsElements(list), io_timing |-> io_timing]
        /\ server = [up |-> TRUE, available |-> available, installed |-> FALSE,
                     libraries |-> list, io_timing |-> io_timing, reload |-> FALSE]
    /\ pc = [k \in Click |-> "idle"]
    /\ click \in [Click -> [requested : Requested, current_preload : {<< >>},
                            answer : {"none"}]]

AdministratorSets ==
    /\ \E list \in ByHand : file' = [file EXCEPT !.libraries = AsElements(list)]
    /\ UNCHANGED <<server, pc, click>>

AdministratorReloads ==
    /\ server' = [server EXCEPT !.reload = TRUE]
    /\ UNCHANGED <<file, pc, click>>

PackageInstalled ==
    /\ server' = [server EXCEPT !.available = TRUE]
    /\ UNCHANGED <<file, pc, click>>

(***************************************************************************)
(* A reload is a signal: the postmaster gets to it after the statement     *)
(* that asked for it has returned.                                         *)
(***************************************************************************)
PostgresReloads ==
    /\ server.up
    /\ server.reload
    /\ server' = [server EXCEPT !.io_timing = file.io_timing, !.reload = FALSE]
    /\ UNCHANGED <<file, pc, click>>

PostgresRestarts ==
    /\ server' = IF CanStart(file.libraries)
                 THEN [server EXCEPT !.up = TRUE, !.libraries = Written(file.libraries),
                                     !.io_timing = file.io_timing, !.reload = FALSE]
                 ELSE [server EXCEPT !.up = FALSE]
    /\ UNCHANGED <<file, pc, click>>

-----------------------------------------------------------------------------
(* The handlers.  A statement that took effect may still come back as an   *)
(* error, when its answer is lost, and one that a handler has given up on  *)
(* may take effect later: its answer is there while pc still names it.     *)

Ends(k, answer) ==
    /\ pc' = [pc EXCEPT ![k] = "done"]
    /\ click' = [click EXCEPT ![k].answer = answer, ![k].current_preload = << >>]

EndsEitherWay(k) ==
    \/ click[k].answer = "none" /\ Ends(k, "ok")
    \/ Ends(k, "error")

GoesOn(k, step) ==
    \/ click[k].answer = "none" /\ pc' = [pc EXCEPT ![k] = step] /\ UNCHANGED click
    \/ Ends(k, "error")

Receive(k) ==
    /\ pc[k] = "idle"
    /\ pc' = [pc EXCEPT ![k] = IF click[k].requested \in {"on", "off"} THEN "alter" ELSE "probe"]
    /\ UNCHANGED <<file, server, click>>

(***************************************************************************)
(* No effect, and an error: refused, not delivered, or no connection.      *)
(***************************************************************************)
Fails(k) ==
    /\ pc[k] \notin {"idle", "done"}
    /\ Ends(k, "error")
    /\ UNCHANGED <<file, server>>

(***************************************************************************)
(* The driver's timeout, twice over: the operator is told of an error, the *)
(* statement is still under way.                                           *)
(***************************************************************************)
GivesUp(k) ==
    /\ pc[k] \in {"create", "preload", "alter", "reload"}
    /\ click' = [click EXCEPT ![k].answer = "error"]
    /\ UNCHANGED <<file, server, pc>>

(***************************************************************************)
(* `probe`, and what `run` decides on it before it sends anything else.    *)
(***************************************************************************)
IsListed(current) == EXTENSION \in ToSet(current)

IsSafe(current) == ToSet(current) \intersect Unsafe = {}

Probes(k) == pc[k] = "probe" /\ server.up

Refuse(k) ==
    /\ Probes(k)
    /\ \/ ~server.available
       \/ /\ click[k].requested = "preload"
          /\ IsListed(server.libraries) \/ ~IsSafe(server.libraries)
    /\ Ends(k, "blocked")
    /\ UNCHANGED <<file, server>>

\* Mistake: no look at whether the extension is listed already.
ProceedToPreloadAgain(k) ==
    /\ Probes(k)
    /\ server.available
    /\ click[k].requested = "preload"
    /\ IsSafe(server.libraries)
    /\ pc' = [pc EXCEPT ![k] = "preload"]
    /\ click' = [click EXCEPT ![k].current_preload = server.libraries]
    /\ UNCHANGED <<file, server>>

ProceedToPreload(k) ==
    /\ Probes(k)
    /\ server.available
    /\ click[k].requested = "preload"
    /\ ~IsListed(server.libraries)
    /\ IsSafe(server.libraries)
    /\ pc' = [pc EXCEPT ![k] = "preload"]
    /\ click' = [click EXCEPT ![k].current_preload = server.libraries]
    /\ UNCHANGED <<file, server>>

ProceedToCreate(k) ==
    /\ Probes(k)
    /\ server.available
    /\ click[k].requested = "create"
    /\ pc' = [pc EXCEPT ![k] = "create"]
    /\ UNCHANGED <<file, server, click>>

CreateExtension(k) ==
    /\ pc[k] = "create"
    /\ server.up
    /\ server' = [server EXCEPT !.installed = TRUE]
    /\ EndsEitherWay(k)
    /\ UNCHANGED file

(***************************************************************************)
(* `ALTER SYSTEM SET shared_preload_libraries = '<current>,<EXTENSION>'`:  *)
(* ONE string literal, which Postgres stores as one element of the list.   *)
(***************************************************************************)
AlterPreload(k) ==
    /\ pc[k] = "preload"
    /\ server.up
    /\ file' = [file EXCEPT !.libraries = <<Append(click[k].current_preload, EXTENSION)>>]
    /\ EndsEitherWay(k)
    /\ UNCHANGED server

\* Mistake: the value is read back without a reload.
AlterTimingOnly(k) ==
    /\ pc[k] = "alter"
    /\ server.up
    /\ file' = [file EXCEPT !.io_timing = (click[k].requested = "on")]
    /\ GoesOn(k, "read_back")
    /\ UNCHANGED server

AlterTiming(k) ==
    /\ pc[k] = "alter"
    /\ server.up
    /\ file' = [file EXCEPT !.io_timing = (click[k].requested = "on")]
    /\ GoesOn(k, "reload")
    /\ UNCHANGED server

AskForReload(k) ==
    /\ pc[k] = "reload"
    /\ server.up
    /\ server' = [server EXCEPT !.reload = TRUE]
    /\ GoesOn(k, "read_back")
    /\ UNCHANGED file

\* Mistake: an answer of its own, which the log has no status for.
ReadBackOrPending(k) ==
    /\ pc[k] = "read_back"
    /\ server.up
    /\ Ends(k, IF server.io_timing = (click[k].requested = "on") THEN "ok" ELSE "pending")
    /\ UNCHANGED <<file, server>>

(***************************************************************************)
(* The answer carries the value the server shows now, whatever was asked.  *)
(***************************************************************************)
ReadBack(k) ==
    /\ pc[k] = "read_back"
    /\ server.up
    /\ Ends(k, "ok")
    /\ UNCHANGED <<file, server>>

-----------------------------------------------------------------------------
Handler(k) ==
    \/ Receive(k) \/ Fails(k) \/ GivesUp(k) \/ Refuse(k)
    \/ ProceedToCreate(k) \/ CreateExtension(k)
    \/ ProceedToPreload(k) \/ AlterPreload(k)
    \/ AlterTiming(k) \/ AskForReload(k) \/ ReadBack(k)

Next ==
    \/ \E k \in Click : Handler(k)
    \/ AdministratorSets \/ AdministratorReloads \/ PackageInstalled
    \/ PostgresReloads \/ PostgresRestarts

Spec == Init /\ [][Next]_vars

-----------------------------------------------------------------------------
(* What the endpoints promise.                                             *)

(***************************************************************************)
(* Operators who click at the same time, again before the restart, or      *)
(* again after it, never list the library twice (appended_preload).        *)
(***************************************************************************)
NamedOnce ==
    LET written == Written(file.libraries)
    IN  \A i, j \in 1..Len(written) : written[i] = EXTENSION /\ written[j] = EXTENSION => i = j

(***************************************************************************)
(* A change of track_io_timing never waits in the file unseen: either it   *)
(* is in force, or a reload is on its way, or an operator who asked for    *)
(* this very value was told of an error - also when two operators switch   *)
(* it in opposite directions and one of them fails half-way                *)
(* (set_track_io_timing).                                                  *)
(***************************************************************************)
AskedFor(io_timing) == {k \in Click : click[k].requested = IF io_timing THEN "on" ELSE "off"}

NoChangeWaitsUnseen ==
    server.up /\ server.io_timing # file.io_timing =>
        \/ server.reload
        \/ \E k \in AskedFor(file.io_timing) : pc[k] = "reload" \/ click[k].answer = "error"

(***************************************************************************)
(* "Two ways to break a server, both guarded": the current value is        *)
(* "appended to, never replaced", so whatever the next restart would have  *)
(* loaded before a click it still loads after it (extension_setup.rs).     *)
(***************************************************************************)
LoadedAtRestart(elements) == IF CanStart(elements) THEN ToSet(Written(elements)) ELSE {}

LibrariesAreKept ==
    [][\A k \in Click : pc[k] = "preload" /\ pc'[k] # "preload" =>
          LoadedAtRestart(file.libraries) \subseteq LoadedAtRestart(file'.libraries)]_vars

=============================================================================
