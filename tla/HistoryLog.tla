----------------------------- MODULE HistoryLog -----------------------------
(***************************************************************************)
(* What the metrics history promises its writers: a batch of rows becomes  *)
(* visible whole or not at all, rows leave only by age, and once a horizon *)
(* has passed nothing older than it is kept or can come back.              *)
(* MetricsStore implements it.                                             *)
(***************************************************************************)
EXTENDS Integers

CONSTANT Batches     \* the sets of rows a writer may offer

VARIABLES offered,   \* the batches a writer waits for
          log,       \* the rows a reader finds
          horizon    \* the age up to which rows have left

logVars == <<offered, log, horizon>>

Init == offered = {} /\ log = {} /\ horizon = 0

Offer == /\ offered \subseteq offered' /\ offered' \ offered \subseteq Batches
         /\ UNCHANGED <<log, horizon>>

Append == \E b \in offered : /\ \A r \in b : r.at >= horizon
                             /\ log' = log \cup b
                             /\ offered' = offered \ {b}
                             /\ UNCHANGED horizon

\* An error loses one batch, a crash all that are waiting.
Lose == offered' \in SUBSET offered /\ UNCHANGED <<log, horizon>>

Expire == /\ horizon' \in Int /\ horizon' >= horizon
          /\ log' = {r \in log : r.at >= horizon'}
          /\ UNCHANGED offered

Next == Offer \/ Append \/ Lose \/ Expire

Spec == Init /\ [][Next]_logVars
=============================================================================
