---------------------------- MODULE WriteWindow ----------------------------
(***************************************************************************)
(* What an operator is promised about write access, with no clock and no   *)
(* deadline: every mounted database has its own countdown.  A click buys a *)
(* full window on top of whatever is left, time drains every countdown,    *)
(* a reset or a restart of the server empties it.                          *)
(*                                                                         *)
(* WriteGate implements this with one AtomicI64 per database that holds a  *)
(* deadline, and with a handler that reads the clock before it updates it. *)
(***************************************************************************)
EXTENDS Integers

CONSTANTS
    Db,              \* the mounted databases
    Click,           \* the Enable clicks; each is made at most once
    Window,          \* what one click is worth, 10 minutes in the source
    MaxLag           \* most a handler loses between its clock read and its update

VARIABLES
    left,            \* left[d]: write access left on d, in clock units
    request,         \* request[k]: the database click k is for
    counted          \* the clicks that are over and must not count again

windowVars == <<left, request, counted>>

WindowInit ==
    /\ left = [d \in Db |-> 0]
    /\ request \in [Click -> Db]
    /\ counted = {}

(***************************************************************************)
(* Time drains every open window and leaves the closed ones closed.        *)
(***************************************************************************)
Drain ==
    /\ left' = [d \in Db |-> IF left[d] > 0 THEN left[d] - 1 ELSE 0]
    /\ UNCHANGED <<request, counted>>

(***************************************************************************)
(* A click on an open window adds exactly one full window; a click on a    *)
(* closed one opens it for a full window, less the handler's own latency.  *)
(***************************************************************************)
Grant(k) ==
    LET d == request[k]
    IN  /\ k \notin counted
        /\ counted' = counted \union {k}
        /\ \/ /\ left[d] > 0
              /\ left' = [left EXCEPT ![d] = @ + Window]
           \/ /\ left[d] = 0
              /\ \E granted \in (Window - MaxLag)..Window :
                    left' = [left EXCEPT ![d] = granted]
        /\ UNCHANGED request

Reset(d) == left' = [left EXCEPT ![d] = 0] /\ UNCHANGED <<request, counted>>

(***************************************************************************)
(* A restart empties every window; a click in progress may be lost in it.  *)
(***************************************************************************)
Restart ==
    /\ left' = [d \in Db |-> 0]
    /\ counted \subseteq counted'
    /\ UNCHANGED request

WindowNext ==
    \/ Drain
    \/ \E k \in Click : Grant(k)
    \/ \E d \in Db : Reset(d)
    \/ Restart

WindowSpec == WindowInit /\ [][WindowNext]_windowVars

=============================================================================
