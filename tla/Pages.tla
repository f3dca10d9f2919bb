------------------------------- MODULE Pages --------------------------------
(***************************************************************************)
(* The two pages of the UI (ui/src/main.rs, AppRoute).  A visit starts a   *)
(* page with its loops and with nothing fetched; leaving it drops the page *)
(* together with the tasks it had in flight.                               *)
(***************************************************************************)
EXTENDS AdminPage, StatsPage

Init == \/ AdminInit("sleep") /\ StatsInit("closed")
        \/ AdminInit("closed") /\ StatsInit("first")

\* What the closed page would have shown is kept still.
ToStats == AdminOpen /\ AdminReset("closed") /\ StatsReset("first")
ToHome == StatsOpen /\ AdminReset("sleep") /\ StatsReset("closed")

Next == \/ AdminOpen /\ AdminNext /\ UNCHANGED statsVars
        \/ StatsOpen /\ StatsNext /\ UNCHANGED adminVars
        \/ ToStats \/ ToHome

Spec == Init /\ [][Next]_<<adminVars, statsVars>> /\ AdminFairness /\ StatsFairness

TypeOK == AdminTypeOK /\ StatsTypeOK /\ (AdminOpen <=> ~StatsOpen)
=============================================================================
