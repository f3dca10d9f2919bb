-------------------------- MODULE WriteGateProofs --------------------------
(***************************************************************************)
(* What TLAPS proves of WriteGate, for any number of databases, calls and  *)
(* clicks, any window and any ring capacity.                               *)
(***************************************************************************)
EXTENDS WriteGate, SequenceTheorems, TLAPS

-----------------------------------------------------------------------------
(* The ring.                                                               *)

(***************************************************************************)
(* Making room keeps the youngest entries of a queue, at most              *)
(* MAX_ITEMS - 1 of them, in their order (the pop_front loop of `add`).    *)
(***************************************************************************)
LEMMA MakeRoomKeepsTheYoungest ==
    ASSUME NEW S, NEW q \in Seq(S)
    PROVE  LET r == MakeRoom(q)
           IN  /\ r \in Seq(S)
               /\ Len(r) = IF Len(q) < MAX_ITEMS THEN Len(q) ELSE MAX_ITEMS - 1
               /\ \A i \in 1..Len(r) : r[i] = q[Len(q) - Len(r) + i]
<1> USE MaxItemsAssumption DEF MakeRoom
<1>1. CASE Len(q) < MAX_ITEMS
  BY <1>1
<1>2. CASE ~(Len(q) < MAX_ITEMS)
  <2> DEFINE m == Len(q) - MAX_ITEMS + 2
  <2>1. /\ Len(q) \in Nat
        /\ m \in 1..(Len(q) + 1)
        /\ MakeRoom(q) = SubSeq(q, m, Len(q))
    BY <1>2
  <2>2. \A i \in m..Len(q) : q[i] \in S
    BY <2>1, ElementOfSeq
  <2>3. /\ SubSeq(q, m, Len(q)) \in Seq(S)
        /\ Len(SubSeq(q, m, Len(q))) = MAX_ITEMS - 1
        /\ \A i \in 1..(MAX_ITEMS - 1) : SubSeq(q, m, Len(q))[i] = q[m + i - 1]
    <3> HIDE DEF m
    <3>1. /\ SubSeq(q, m, Len(q)) \in Seq(S)
          /\ Len(SubSeq(q, m, Len(q))) = IF m <= Len(q) THEN Len(q) - m + 1 ELSE 0
          /\ \A i \in 1..(Len(q) - m + 1) : SubSeq(q, m, Len(q))[i] = q[m + i - 1]
      BY <2>1, <2>2, SubSeqProperties
    <3>. QED
      BY <2>1, <3>1 DEF m
  <2>. QED
    BY <1>2, <2>1, <2>3
<1>. QED
  BY <1>1, <1>2

(***************************************************************************)
(* After a push the ring is never longer than MAX_ITEMS, its last entry is *)
(* the one pushed, and the others are the youngest of those before.        *)
(***************************************************************************)
LEMMA PushKeepsTheYoungest ==
    ASSUME NEW S, NEW q \in Seq(S), NEW e \in S, Len(q) <= MAX_ITEMS
    PROVE  LET r == Append(MakeRoom(q), e)
           IN  /\ r \in Seq(S)
               /\ Len(r) = IF Len(q) < MAX_ITEMS THEN Len(q) + 1 ELSE MAX_ITEMS
               /\ r[Len(r)] = e
               /\ \A i \in 1..(Len(r) - 1) : r[i] = q[Len(q) - Len(r) + 1 + i]
<1> DEFINE m == MakeRoom(q)
<1>1. /\ m \in Seq(S)
      /\ Len(m) = IF Len(q) < MAX_ITEMS THEN Len(q) ELSE MAX_ITEMS - 1
      /\ \A i \in 1..Len(m) : m[i] = q[Len(q) - Len(m) + i]
  BY MakeRoomKeepsTheYoungest
<1> HIDE DEF m
<1>2. /\ Append(m, e) \in Seq(S)
      /\ Len(Append(m, e)) = Len(m) + 1
      /\ Append(m, e)[Len(m) + 1] = e
      /\ \A i \in 1..Len(m) : Append(m, e)[i] = m[i]
  BY <1>1
<1>3. Len(q) \in Nat /\ Len(m) \in Nat
  BY <1>1
<1>. QED
  <2>1. \A i \in 1..Len(m) : Append(m, e)[i] = q[Len(q) - (Len(m) + 1) + 1 + i]
    BY <1>1, <1>2, <1>3
  <2>. QED
    <3> DEFINE r == Append(m, e)
    <3>1. /\ r \in Seq(S)
          /\ Len(r) = Len(m) + 1
          /\ r[Len(r)] = e
      BY <1>2
    <3>2. \A i \in 1..(Len(r) - 1) : r[i] = q[Len(q) - Len(r) + 1 + i]
      BY <2>1, <3>1, <1>3
    <3>3. Len(r) = IF Len(q) < MAX_ITEMS THEN Len(q) + 1 ELSE MAX_ITEMS
      BY <1>1, <1>3, <3>1, MaxItemsAssumption
    <3>. QED
      BY <3>1, <3>2, <3>3 DEF m

-----------------------------------------------------------------------------
(* Types.                                                                  *)

USE WindowAssumption, HandlerAssumption, MaxItemsAssumption

(***************************************************************************)
(* What the two ways back from Postgres have in common.                    *)
(***************************************************************************)
LEMMA ReturnStep ==
    ASSUME NEW c \in Call, ReturnOk(c) \/ ReturnError(c)
    PROVE  \E status \in Status :
              /\ pc[c] = "await"
              /\ pc' = [pc EXCEPT ![c] = "log"]
              /\ status \in {"ok", "error"}
              /\ status = "ok" => pg[c] = "applied"
              /\ call' = [call EXCEPT ![c].status = status]
              /\ UNCHANGED <<now, until, click, pg, saw_open, answered, items, next_id>>
<1>1. CASE ReturnOk(c)
  BY <1>1 DEF ReturnOk, Status, logVars
<1>2. CASE ReturnError(c)
  BY <1>2 DEF ReturnError, Status, logVars
<1>. QED
  BY <1>1, <1>2

(***************************************************************************)
(* A handler that sets one of its locals keeps the type of all of them.    *)
(***************************************************************************)
LEMMA LocalsKeepTheirTypes ==
    ASSUME NEW f \in [Call -> CallRun], NEW c \in Call
    PROVE  /\ \A at \in Nat : [f EXCEPT ![c].started = at] \in [Call -> CallRun]
           /\ \A deadline \in Nat : [f EXCEPT ![c].until = deadline] \in [Call -> CallRun]
           /\ \A id \in Nat : [f EXCEPT ![c].id = id] \in [Call -> CallRun]
           /\ \A status \in Status : [f EXCEPT ![c].status = status] \in [Call -> CallRun]
<1>1. \A at \in Nat : [f EXCEPT ![c].started = at] \in [Call -> CallRun]
  BY DEF CallRun
<1>2. \A deadline \in Nat : [f EXCEPT ![c].until = deadline] \in [Call -> CallRun]
  BY DEF CallRun
<1>3. \A id \in Nat : [f EXCEPT ![c].id = id] \in [Call -> CallRun]
  BY DEF CallRun
<1>4. \A status \in Status : [f EXCEPT ![c].status = status] \in [Call -> CallRun]
  BY DEF CallRun
<1>. QED
  BY <1>1, <1>2, <1>3, <1>4

(***************************************************************************)
(* Every reachable state is well typed.                                    *)
(***************************************************************************)
THEOREM TypeCorrect == Spec => []TypeOK
<1>1. Init => TypeOK
  BY DEF Init, LogInit, TypeOK, Pc, Status, ClickRun, CallRun
<1>2. TypeOK /\ [Next]_vars => TypeOK'
  <2> SUFFICES ASSUME TypeOK, [Next]_vars
               PROVE  TypeOK'
    OBVIOUS
  <2> USE DEF TypeOK, Pc, Handler
  <2>1. CASE Tick
    BY <2>1 DEF Tick, logVars
  <2>2. ASSUME NEW k \in Click, EnableReadClock(k)
        PROVE  TypeOK'
    BY <2>2 DEF EnableReadClock, ClickRun, logVars
  <2>3. ASSUME NEW k \in Click, EnableUpdate(k)
        PROVE  TypeOK'
    <3>1. ExtendedUntil(until[click[k].db], click[k].now) \in Nat
      BY DEF ExtendedUntil, ClickRun
    <3>. QED
      BY <2>3, <3>1 DEF EnableUpdate, Landed, ClickRun, logVars
  <2>4. ASSUME NEW d \in Db, DisableMcpWrites(d)
        PROVE  TypeOK'
    BY <2>4 DEF DisableMcpWrites, logVars
  <2>5. ASSUME NEW c \in Call, ReceiveRead(c)
        PROVE  TypeOK'
    <3>1. call' \in [Call -> CallRun]
      BY <2>5, LocalsKeepTheirTypes DEF ReceiveRead
    <3>. QED
      BY <2>5, <3>1 DEF ReceiveRead, DoRequest, logVars
  <2>6. ASSUME NEW c \in Call, ReceiveWrite(c)
        PROVE  TypeOK'
    <3>1. IsOpen(call[c].db) \in BOOLEAN
      BY DEF IsOpen, IsWriteEnabled
    <3>2. saw_open' \in [Call -> BOOLEAN]
      BY <2>6, <3>1, Zenon DEF ReceiveWrite
    <3>3. /\ pc' = [pc EXCEPT ![c] = "gate"]
          /\ call' = [call EXCEPT ![c].started = now]
          /\ UNCHANGED <<now, until, click, pg, answered, items, next_id>>
      BY <2>6 DEF ReceiveWrite, logVars
    <3>4. call' \in [Call -> CallRun]
      BY <3>3, LocalsKeepTheirTypes
    <3>. QED
      BY <3>2, <3>3, <3>4
  <2>7. ASSUME NEW c \in Call, LoadDeadline(c)
        PROVE  TypeOK'
    <3>1. until[call[c].db] \in Nat
      BY DEF CallRun
    <3>2. call' \in [Call -> CallRun]
      BY <2>7, <3>1, LocalsKeepTheirTypes DEF LoadDeadline
    <3>. QED
      BY <2>7, <3>2 DEF LoadDeadline, logVars
  <2>8. ASSUME NEW c \in Call, Admit(c)
        PROVE  TypeOK'
    <3>1. call' \in [Call -> CallRun]
      BY <2>8, LocalsKeepTheirTypes DEF Admit
    <3>. QED
      BY <2>8, <3>1 DEF Admit, DoRequest, logVars
  <2>9. ASSUME NEW c \in Call, Refuse(c)
        PROVE  TypeOK'
    <3>1. call' \in [Call -> CallRun]
      BY <2>9, LocalsKeepTheirTypes DEF Refuse, Status
    <3>. QED
      BY <2>9, <3>1 DEF Refuse, logVars
  <2>10. ASSUME NEW c \in Call, ReturnOk(c) \/ ReturnError(c)
         PROVE  TypeOK'
    <3>1. PICK status \in Status :
             /\ pc' = [pc EXCEPT ![c] = "log"]
             /\ call' = [call EXCEPT ![c].status = status]
             /\ UNCHANGED <<now, until, click, pg, saw_open, answered, items, next_id>>
      BY <2>10, ReturnStep
    <3>2. call' \in [Call -> CallRun]
      BY <3>1, LocalsKeepTheirTypes
    <3>. QED
      BY <3>1, <3>2
  <2>11. ASSUME NEW c \in Call, LogTakeId(c)
         PROVE  TypeOK'
    <3>1. /\ pc' = [pc EXCEPT ![c] = "push"]
          /\ call' = [call EXCEPT ![c].id = next_id]
          /\ next_id' = next_id + 1
          /\ UNCHANGED <<now, until, click, pg, saw_open, answered, items>>
      BY <2>11 DEF LogTakeId, TakeId
    <3>2. call' \in [Call -> CallRun]
      BY <3>1, LocalsKeepTheirTypes
    <3>. QED
      BY <3>1, <3>2
  <2>12. ASSUME NEW c \in Call, LogPush(c)
         PROVE  TypeOK'
    <3>1. EntryOf(c) \in Entry
      BY DEF EntryOf, Entry, CallRun
    <3>2. Append(MakeRoom(items), EntryOf(c)) \in Seq(Entry)
      BY <3>1, MakeRoomKeepsTheYoungest
    <3>3. Append(answered, [id |-> call[c].id, call |-> c]) \in Seq(Answer)
      BY DEF Answer, CallRun
    <3>4. Finished(call[c]) \in CallRun
      BY DEF Finished, CallRun, Status
    <3>. QED
      BY <2>12, <3>2, <3>3, <3>4 DEF LogPush, PushItem
  <2>13. ASSUME NEW c \in Call, PgApply(c) \/ PgReject(c)
         PROVE  TypeOK'
    BY <2>13 DEF PgApply, PgReject, logVars
  <2>14. CASE Restart
    <3>1. \A c \in Call : Finished(call[c]) \in CallRun
      BY DEF Finished, CallRun, Status
    <3>2. \A k \in Click : Landed(click[k]) \in ClickRun
      BY DEF Landed, ClickRun
    <3>. QED
      BY <2>14, <3>1, <3>2 DEF Restart
  <2>15. CASE UNCHANGED vars
    BY <2>15 DEF vars, gateVars, logVars
  <2>. QED
    BY <2>1, <2>2, <2>3, <2>4, <2>5, <2>6, <2>7, <2>8, <2>9, <2>10, <2>11, <2>12,
       <2>13, <2>14, <2>15 DEF Next, CallStep
<1>. QED
  BY <1>1, <1>2, PTL DEF Spec

-----------------------------------------------------------------------------
(* The gate.                                                               *)

(***************************************************************************)
(* A read goes straight to Postgres.                                       *)
(***************************************************************************)
LEMMA ReadStep ==
    ASSUME NEW c \in Call, ReceiveRead(c)
    PROVE  /\ ~call[c].is_write
           /\ pc' = [pc EXCEPT ![c] = "await"]
           /\ call' = [call EXCEPT ![c].started = now]
           /\ pg' = [pg EXCEPT ![c] = "sent"]
           /\ UNCHANGED <<now, until, saw_open>>
BY DEF ReceiveRead, DoRequest

(***************************************************************************)
(* Why no write slips through.  A call that has not arrived has sent       *)
(* nothing; a write at the gate whose database is open now, or was open    *)
(* when the call loaded its deadline, has seen it open; and only a write   *)
(* stands at the gate.                                                     *)
(***************************************************************************)
GateInv ==
    /\ \A c \in Call : pc[c] = "idle" => pg[c] = "none"
    /\ \A c \in Call : AtTheGate(c) => pg[c] = "none" /\ call[c].is_write
    /\ \A c \in Call : AtTheGate(c) /\ IsOpen(call[c].db) => saw_open[c]
    /\ \A c \in Call : pc[c] = "compare" /\ IsWriteEnabled(call[c].until, now)
                          => saw_open[c]
    /\ AdmittedOnlyWhileOpen

(***************************************************************************)
(* A step changes what GateInv says of one call only through that call's   *)
(* own step, a click on its database, or a restart.                        *)
(***************************************************************************)
LEMMA GateInvInductive == TypeOK /\ GateInv /\ [Next]_vars => GateInv'
<1> SUFFICES ASSUME TypeOK, GateInv, [Next]_vars
             PROVE  GateInv'
  OBVIOUS
<1> USE DEF TypeOK, Handler, CallRun, GateInv, AdmittedOnlyWhileOpen, AtTheGate, IsOpen,
            IsWriteEnabled
<1>1. CASE Tick
  BY <1>1 DEF Tick
<1>2. ASSUME NEW k \in Click, EnableReadClock(k)
      PROVE  GateInv'
  BY <1>2 DEF EnableReadClock
<1>3. ASSUME NEW k \in Click, EnableUpdate(k)
      PROVE  GateInv'
  BY <1>3 DEF EnableUpdate
<1>4. ASSUME NEW d \in Db, DisableMcpWrites(d)
      PROVE  GateInv'
  BY <1>4 DEF DisableMcpWrites
<1>5. ASSUME NEW c \in Call, ReceiveRead(c)
      PROVE  GateInv'
  <2>1. /\ ~call[c].is_write /\ pc'[c] = "await"
        /\ UNCHANGED <<now, until, saw_open>>
        /\ \A b \in Call : call'[b].db = call[b].db /\ call'[b].is_write = call[b].is_write
        /\ \A b \in Call \ {c} : pc'[b] = pc[b] /\ pg'[b] = pg[b]
                                 /\ call'[b].until = call[b].until
    <3>1. /\ ~call[c].is_write
          /\ pc' = [pc EXCEPT ![c] = "await"]
          /\ call' = [call EXCEPT ![c].started = now]
          /\ pg' = [pg EXCEPT ![c] = "sent"]
          /\ UNCHANGED <<now, until, saw_open>>
      BY <1>5, ReadStep
    <3>2. pc'[c] = "await" /\ \A b \in Call \ {c} : pc'[b] = pc[b] /\ pg'[b] = pg[b]
      BY <3>1
    <3>3. \A b \in Call : /\ call'[b].db = call[b].db
                          /\ call'[b].is_write = call[b].is_write
                          /\ call'[b].until = call[b].until
      BY <3>1, SMTT(30)
    <3>. QED
      BY <3>1, <3>2, <3>3
  <2> HIDE DEF TypeOK, Handler, CallRun
  <2>. QED
    BY <2>1
<1>6. ASSUME NEW c \in Call, ReceiveWrite(c)
      PROVE  GateInv'
  <2>1. /\ pg[c] = "none" /\ pc'[c] = "gate" /\ call'[c].is_write
        /\ saw_open'[c] = IsOpen(call[c].db)
        /\ UNCHANGED <<now, until, pg>>
        /\ \A b \in Call : call'[b].db = call[b].db /\ call'[b].is_write = call[b].is_write
        /\ \A b \in Call \ {c} : pc'[b] = pc[b] /\ saw_open'[b] = saw_open[b]
                                 /\ call'[b].until = call[b].until
    BY <1>6 DEF ReceiveWrite
  <2>2. \A d \in Db : IsOpen(d)' <=> IsOpen(d)
    BY <2>1
  <2>3. \A b \in Call : call[b].db \in Db
    OBVIOUS
  <2> HIDE DEF TypeOK, Handler, CallRun, IsOpen
  <2>. QED
    BY <2>1, <2>2, <2>3
<1>7. ASSUME NEW c \in Call, LoadDeadline(c)
      PROVE  GateInv'
  <2>1. /\ pc[c] = "gate" /\ pc'[c] = "compare" /\ call'[c].until = until[call[c].db]
        /\ UNCHANGED <<now, until, pg, saw_open>>
        /\ \A b \in Call : call'[b].db = call[b].db /\ call'[b].is_write = call[b].is_write
        /\ \A b \in Call \ {c} : pc'[b] = pc[b] /\ call'[b].until = call[b].until
    BY <1>7 DEF LoadDeadline
  <2> HIDE DEF TypeOK, Handler, CallRun
  <2>. QED
    BY <2>1
<1>8. ASSUME NEW c \in Call, Admit(c)
      PROVE  GateInv'
  BY <1>8 DEF Admit, DoRequest
<1>9. ASSUME NEW c \in Call, Refuse(c)
      PROVE  GateInv'
  BY <1>9 DEF Refuse
<1>10. ASSUME NEW c \in Call, ReturnOk(c) \/ ReturnError(c)
       PROVE  GateInv'
  <2>1. PICK status \in Status :
           /\ pc[c] = "await"
           /\ pc' = [pc EXCEPT ![c] = "log"]
           /\ call' = [call EXCEPT ![c].status = status]
           /\ UNCHANGED <<now, until, pg, saw_open>>
    <3> HIDE DEF TypeOK, Handler, CallRun, GateInv
    <3>. QED
      BY <1>10, ReturnStep
  <2>2. /\ pc'[c] = "log"
        /\ \A b \in Call : call'[b].db = call[b].db /\ call'[b].is_write = call[b].is_write
        /\ \A b \in Call \ {c} : pc'[b] = pc[b] /\ call'[b].until = call[b].until
    BY <2>1
  <2>. QED
    BY <2>1, <2>2
<1>11. ASSUME NEW c \in Call, LogTakeId(c)
       PROVE  GateInv'
  BY <1>11 DEF LogTakeId
<1>12. ASSUME NEW c \in Call, LogPush(c)
       PROVE  GateInv'
  BY <1>12 DEF LogPush, Finished
<1>13. ASSUME NEW c \in Call, PgApply(c) \/ PgReject(c)
       PROVE  GateInv'
  BY <1>13 DEF PgApply, PgReject
<1>14. CASE Restart
  BY <1>14 DEF Restart, Finished, InProgress
<1>15. CASE UNCHANGED vars
  BY <1>15 DEF vars, gateVars
<1>. QED
  BY <1>1, <1>2, <1>3, <1>4, <1>5, <1>6, <1>7, <1>8, <1>9, <1>10, <1>11, <1>12,
     <1>13, <1>14, <1>15 DEF Next, CallStep

(***************************************************************************)
(* No write reaches Postgres on a window that was never open while the     *)
(* call was at the gate.                                                   *)
(***************************************************************************)
THEOREM NoUngatedWrite == Spec => []AdmittedOnlyWhileOpen
<1>1. Init => GateInv
  BY DEF Init, GateInv, AdmittedOnlyWhileOpen, AtTheGate, Handler
<1>2. GateInv => AdmittedOnlyWhileOpen
  BY DEF GateInv
<1>. QED
  BY <1>1, <1>2, GateInvInductive, TypeCorrect, PTL DEF Spec

-----------------------------------------------------------------------------
(* The countdown.                                                          *)

(***************************************************************************)
(* A click handler between its clock read and its update is at most MaxLag *)
(* behind the clock.                                                       *)
(***************************************************************************)
LagInv ==
    \A k \in Click : pc[k] = "update" =>
        /\ click[k].now <= now
        /\ now <= click[k].now + MaxLag

LEMMA LagInvInductive == TypeOK /\ LagInv /\ [Next]_vars => LagInv'
<1> SUFFICES ASSUME TypeOK, LagInv, [Next]_vars
             PROVE  LagInv'
  OBVIOUS
<1> USE DEF TypeOK, Handler, ClickRun, LagInv
<1>1. CASE Tick
  BY <1>1 DEF Tick
<1>2. ASSUME NEW k \in Click, EnableReadClock(k)
      PROVE  LagInv'
  BY <1>2 DEF EnableReadClock
<1>3. ASSUME NEW k \in Click, EnableUpdate(k)
      PROVE  LagInv'
  BY <1>3 DEF EnableUpdate
<1>4. ASSUME NEW d \in Db, DisableMcpWrites(d)
      PROVE  LagInv'
  BY <1>4 DEF DisableMcpWrites
<1>5. ASSUME NEW c \in Call,
             \/ ReceiveRead(c) \/ ReceiveWrite(c) \/ CallStep(c)
             \/ PgApply(c) \/ PgReject(c)
      PROVE  LagInv'
  <2>1. /\ UNCHANGED <<now, click>>
        /\ \A k \in Click : pc'[k] = pc[k]
    BY <1>5 DEF ReceiveRead, ReceiveWrite, CallStep, LoadDeadline, Admit, Refuse, ReturnOk,
                ReturnError, LogTakeId, LogPush, PgApply, PgReject
  <2>. QED
    BY <2>1
<1>6. CASE Restart
  BY <1>6 DEF Restart, InProgress
<1>7. CASE UNCHANGED vars
  BY <1>7 DEF vars, gateVars
<1>. QED
  BY <1>1, <1>2, <1>3, <1>4, <1>5, <1>6, <1>7 DEF Next

(***************************************************************************)
(* The deadline implements the countdown: initial states map to initial    *)
(* states, and every step of the gate drains, grants, resets, restarts or  *)
(* leaves every countdown alone.                                           *)
(***************************************************************************)
LEMMA StepIsACountdownStep ==
    TypeOK /\ LagInv /\ [Next]_vars => [Countdown!WindowNext]_(Countdown!windowVars)
<1> SUFFICES ASSUME TypeOK, LagInv, [Next]_vars
             PROVE  [Countdown!WindowNext]_(Countdown!windowVars)
  OBVIOUS
<1> USE DEF TypeOK, Handler, ClickRun, LagInv, IsOpen, IsWriteEnabled
<1>1. CASE Tick
  <2>1. Left' = [d \in Db |-> IF Left[d] > 0 THEN Left[d] - 1 ELSE 0]
    BY <1>1 DEF Tick, Left
  <2>2. UNCHANGED <<Request, Counted>>
    BY <1>1 DEF Tick, Request, Counted
  <2>. QED
    BY <2>1, <2>2 DEF Countdown!WindowNext, Countdown!Drain
<1>2. ASSUME NEW k \in Click, EnableUpdate(k)
      PROVE  [Countdown!WindowNext]_(Countdown!windowVars)
  <2> DEFINE d == click[k].db
             base == IF until[d] > click[k].now THEN until[d] ELSE click[k].now
             after == IF base + Window > now THEN base + Window - now ELSE 0
  <2>1. /\ d \in Db
        /\ until' = [until EXCEPT ![d] = base + Window]
        /\ now' = now
        /\ click[k].now <= now
        /\ now <= click[k].now + MaxLag
        /\ base \in Nat
    BY <1>2 DEF EnableUpdate, ExtendedUntil
  <2>0. /\ Request[k] = d
        /\ k \notin Counted
        /\ Counted' = Counted \union {k}
        /\ UNCHANGED Request
    <3>1. /\ pc[k] = "update" /\ pc' = [pc EXCEPT ![k] = "done"]
          /\ click' = [click EXCEPT ![k] = Landed(@)]
      BY <1>2 DEF EnableUpdate
    <3>2. \A j \in Click : click'[j].db = click[j].db
      BY <3>1 DEF Landed
    <3>. QED
      BY <3>1, <3>2 DEF Request, Counted
  <2>2. Left' = [Left EXCEPT ![d] = after]
    <3> SUFFICES ASSUME NEW e \in Db
                 PROVE  Left'[e] = IF e = d THEN after ELSE Left[e]
      BY <2>1 DEF Left
    <3> HIDE DEF d, base
    <3>. QED
      BY <2>1 DEF Left
  <2>3. CASE until[d] > now
    <3>1. Left[d] > 0 /\ after = Left[d] + Window
      <4>1. base = until[d] /\ until[d] \in Nat
        BY <2>1, <2>3
      <4>2. Left[d] = until[d] - now
        <5> HIDE DEF d
        <5>. QED
          BY <2>1, <2>3 DEF Left
      <4>3. base + Window > now /\ base + Window - now = (base - now) + Window
        BY <2>1, <2>3, <4>1
      <4> HIDE DEF d, base
      <4>4. after = (base - now) + Window
        BY <4>3
      <4>5. until[d] - now > 0
        BY <2>1, <2>3
      <4>. QED
        BY <4>1, <4>2, <4>4, <4>5
    <3>2. Countdown!Grant(k)
      <4> HIDE DEF d, after
      <4>. QED
        BY <2>0, <2>1, <2>2, <3>1 DEF Countdown!Grant
    <3>. QED
      BY <3>2 DEF Countdown!WindowNext
  <2>4. CASE ~(until[d] > now)
    <3>1. Left[d] = 0 /\ after \in (Window - MaxLag)..Window
      BY <2>1, <2>4 DEF Left
    <3>2. Countdown!Grant(k)
      <4> HIDE DEF d, after
      <4>. QED
        BY <2>0, <2>1, <2>2, <3>1 DEF Countdown!Grant
    <3>. QED
      BY <3>2 DEF Countdown!WindowNext
  <2>. QED
    BY <2>3, <2>4
<1>3. ASSUME NEW d \in Db, DisableMcpWrites(d)
      PROVE  [Countdown!WindowNext]_(Countdown!windowVars)
  <2>1. Left' = [Left EXCEPT ![d] = 0]
    <3>1. until' = [until EXCEPT ![d] = 0] /\ now' = now
      BY <1>3 DEF DisableMcpWrites
    <3> SUFFICES ASSUME NEW e \in Db
                 PROVE  Left'[e] = IF e = d THEN 0 ELSE Left[e]
      BY DEF Left
    <3>. QED
      BY <3>1 DEF Left
  <2>2. UNCHANGED <<Request, Counted>>
    BY <1>3 DEF DisableMcpWrites, Request, Counted
  <2>3. Countdown!Reset(d)
    BY <2>1, <2>2 DEF Countdown!Reset
  <2>. QED
    BY <2>3 DEF Countdown!WindowNext
<1>4. CASE Restart
  <2>1. Left' = [d \in Db |-> 0]
    BY <1>4 DEF Restart, Left
  <2>2. Counted \subseteq Counted'
    BY <1>4 DEF Restart, InProgress, Counted
  <2>3. Request' = Request
    <3>1. \A k \in Click : click'[k].db = click[k].db
      BY <1>4 DEF Restart, Landed
    <3>. QED
      BY <3>1 DEF Request
  <2>4. Countdown!Restart
    BY <2>1, <2>2, <2>3 DEF Countdown!Restart
  <2>. QED
    BY <2>4 DEF Countdown!WindowNext
<1>5. ASSUME UNCHANGED <<now, until, Request, Counted>>
      PROVE  [Countdown!WindowNext]_(Countdown!windowVars)
  <2>1. Left' = Left
    BY <1>5 DEF Left
  <2>. QED
    BY <1>5, <2>1 DEF Countdown!windowVars
<1>6. ASSUME NEW k \in Click, EnableReadClock(k)
      PROVE  UNCHANGED <<now, until, Request, Counted>>
  <2>1. /\ \A j \in Click : click'[j].db = click[j].db
        /\ \A j \in Click : pc'[j] = "done" <=> pc[j] = "done"
        /\ UNCHANGED <<now, until>>
    BY <1>6 DEF EnableReadClock
  <2>. QED
    BY <2>1 DEF Request, Counted
<1>7. ASSUME NEW c \in Call,
             \/ ReceiveRead(c) \/ ReceiveWrite(c) \/ CallStep(c)
             \/ PgApply(c) \/ PgReject(c)
      PROVE  UNCHANGED <<now, until, Request, Counted>>
  <2>1. /\ \A j \in Click : pc'[j] = pc[j]
        /\ UNCHANGED <<now, until, click>>
    BY <1>7 DEF ReceiveRead, ReceiveWrite, CallStep, LoadDeadline, Admit, Refuse, ReturnOk,
                ReturnError, LogTakeId, LogPush, PgApply, PgReject
  <2>. QED
    BY <2>1 DEF Request, Counted
<1>8. CASE UNCHANGED vars
  <2>1. UNCHANGED <<now, until, Request, Counted>>
    BY <1>8 DEF vars, gateVars, Request, Counted
  <2>. QED
    BY <1>5, <2>1
<1>. QED
  BY <1>1, <1>2, <1>3, <1>4, <1>5, <1>6, <1>7, <1>8 DEF Next

(***************************************************************************)
(* Every database's write window behaves as WriteWindow promises, whatever *)
(* the number of databases, clicks and calls.                              *)
(***************************************************************************)
THEOREM DeadlineIsACountdown == Spec => WindowIsACountdown
<1>1. Init => LagInv /\ Countdown!WindowInit
  BY DEF Init, LagInv, Handler, Countdown!WindowInit, Left, Request, Counted, IsOpen,
         IsWriteEnabled
<1>. QED
  BY <1>1, LagInvInductive, StepIsACountdownStep, TypeCorrect, PTL
     DEF Spec, WindowIsACountdown, Countdown!WindowSpec

-----------------------------------------------------------------------------
(* The log.                                                                *)

(***************************************************************************)
(* Once a handler has ended, nothing the log says of its call can change.  *)
(***************************************************************************)
LEMMA DoneIsSettled ==
    ASSUME TypeOK, GateInv, [Next]_vars, NEW c \in Call, pc[c] = "done"
    PROVE  /\ pc'[c] = "done"
           /\ call'[c].db = call[c].db
           /\ call'[c].is_write = call[c].is_write
           /\ pg[c] = "none" => pg'[c] = "none"
           /\ pg[c] = "applied" => pg'[c] = "applied"
<1> DEFINE Settled == /\ pc'[c] = "done"
                      /\ call'[c].db = call[c].db
                      /\ call'[c].is_write = call[c].is_write
                      /\ pg[c] = "none" => pg'[c] = "none"
                      /\ pg[c] = "applied" => pg'[c] = "applied"
<1> USE DEF TypeOK, Handler, CallRun
<1>1. CASE Tick \/ UNCHANGED vars \/ \E d \in Db : DisableMcpWrites(d)
  BY <1>1 DEF Tick, vars, gateVars, DisableMcpWrites
<1>2. ASSUME NEW k \in Click, EnableReadClock(k) \/ EnableUpdate(k)
      PROVE  Settled
  BY <1>2 DEF EnableReadClock, EnableUpdate
<1>3. ASSUME NEW b \in Call, ReceiveRead(b) \/ ReceiveWrite(b)
      PROVE  Settled
  BY <1>3 DEF ReceiveRead, ReceiveWrite, DoRequest
<1>4. ASSUME NEW b \in Call, LoadDeadline(b) \/ Admit(b) \/ Refuse(b)
      PROVE  Settled
  BY <1>4 DEF LoadDeadline, Admit, Refuse, DoRequest
<1>5. ASSUME NEW b \in Call, ReturnOk(b) \/ ReturnError(b)
      PROVE  Settled
  <2>1. PICK status \in Status :
           /\ pc[b] = "await"
           /\ pc' = [pc EXCEPT ![b] = "log"]
           /\ call' = [call EXCEPT ![b].status = status]
           /\ UNCHANGED pg
    BY <1>5, ReturnStep
  <2>. QED
    BY <2>1
<1>6. ASSUME NEW b \in Call, LogTakeId(b) \/ LogPush(b)
      PROVE  Settled
  BY <1>6 DEF LogTakeId, LogPush
<1>7. ASSUME NEW b \in Call, PgApply(b) \/ PgReject(b)
      PROVE  Settled
  BY <1>7 DEF PgApply, PgReject
<1>8. CASE Restart
  BY <1>8 DEF Restart, InProgress, Finished
<1>. QED
  BY <1>1, <1>2, <1>3, <1>4, <1>5, <1>6, <1>7, <1>8 DEF Next, CallStep

(***************************************************************************)
(* Why the log is truthful: what a handler is about to log is true when it *)
(* logs it, and only calls whose handlers have ended have an entry.        *)
(***************************************************************************)
IsTrueOf(c) ==
    /\ call[c].status = "blocked" => pg[c] = "none" /\ call[c].is_write
    /\ call[c].status = "ok" => pg[c] = "applied"

ReportInv == \A c \in Call : pc[c] \in {"log", "push"} => IsTrueOf(c)

LEMMA ReportInvInductive ==
    TypeOK /\ GateInv /\ ReportInv /\ [Next]_vars => ReportInv'
<1> SUFFICES ASSUME TypeOK, GateInv, ReportInv, [Next]_vars
             PROVE  ReportInv'
  OBVIOUS
<1> USE DEF TypeOK, Handler, CallRun, ReportInv, IsTrueOf
<1>1. CASE Tick \/ UNCHANGED vars \/ \E d \in Db : DisableMcpWrites(d)
  BY <1>1 DEF Tick, vars, gateVars, DisableMcpWrites
<1>2. ASSUME NEW k \in Click, EnableReadClock(k) \/ EnableUpdate(k)
      PROVE  ReportInv'
  BY <1>2 DEF EnableReadClock, EnableUpdate
<1>3. ASSUME NEW b \in Call, ReceiveRead(b) \/ ReceiveWrite(b)
      PROVE  ReportInv'
  <2>1. /\ pc'[b] \in {"await", "gate"}
        /\ \A c \in Call \ {b} : pc'[c] = pc[c] /\ call'[c] = call[c] /\ pg'[c] = pg[c]
    BY <1>3 DEF ReceiveRead, ReceiveWrite, DoRequest
  <2>. QED
    BY <2>1
<1>4. ASSUME NEW b \in Call, LoadDeadline(b) \/ Admit(b)
      PROVE  ReportInv'
  <2>1. /\ pc'[b] \in {"compare", "await"}
        /\ \A c \in Call \ {b} : pc'[c] = pc[c] /\ call'[c] = call[c] /\ pg'[c] = pg[c]
    BY <1>4 DEF LoadDeadline, Admit, DoRequest
  <2>. QED
    BY <2>1
<1>5. ASSUME NEW b \in Call, Refuse(b)
      PROVE  ReportInv'
  <2>1. pg[b] = "none" /\ call[b].is_write
    BY <1>5 DEF Refuse, GateInv, AtTheGate
  <2>. QED
    BY <1>5, <2>1 DEF Refuse
<1>6. ASSUME NEW b \in Call, ReturnOk(b) \/ ReturnError(b)
      PROVE  ReportInv'
  <2>1. PICK status \in Status :
           /\ pc' = [pc EXCEPT ![b] = "log"]
           /\ status \in {"ok", "error"}
           /\ status = "ok" => pg[b] = "applied"
           /\ call' = [call EXCEPT ![b].status = status]
           /\ UNCHANGED pg
    BY <1>6, ReturnStep
  <2>. QED
    BY <2>1
<1>7. ASSUME NEW b \in Call, LogTakeId(b)
      PROVE  ReportInv'
  <2>1. /\ pc[b] = "log"
        /\ UNCHANGED pg
        /\ \A c \in Call : call'[c].status = call[c].status /\ call'[c].is_write = call[c].is_write
        /\ \A c \in Call \ {b} : pc'[c] = pc[c]
    BY <1>7, SMTT(30) DEF LogTakeId
  <2>. QED
    BY <2>1
<1>8. ASSUME NEW b \in Call, LogPush(b)
      PROVE  ReportInv'
  BY <1>8 DEF LogPush
<1>9. ASSUME NEW b \in Call, PgApply(b) \/ PgReject(b)
      PROVE  ReportInv'
  BY <1>9 DEF PgApply, PgReject
<1>10. CASE Restart
  BY <1>10 DEF Restart, InProgress, Finished
<1>. QED
  BY <1>1, <1>2, <1>3, <1>4, <1>5, <1>6, <1>7, <1>8, <1>9, <1>10 DEF Next, CallStep

LogInv ==
    /\ \A i \in 1..Len(items) : pc[items[i].call] = "done"
    /\ LogIsTruthful

(***************************************************************************)
(* The three things that can happen to the ring in a step.                 *)
(***************************************************************************)
LEMMA RingStep ==
    ASSUME [Next]_vars
    PROVE  \/ items' = items
           \/ items' = << >>
           \/ \E c \in Call : LogPush(c)
<1>1. CASE \E c \in Call : LogTakeId(c)
  BY <1>1 DEF LogTakeId
<1>2. CASE UNCHANGED vars
  BY <1>2 DEF vars, logVars
<1>3. CASE Restart
  BY <1>3 DEF Restart
<1>4. ASSUME NEW c \in Call, ReturnOk(c) \/ ReturnError(c)
      PROVE  items' = items
  BY <1>4, ReturnStep
<1>. QED
  BY <1>1, <1>2, <1>3, <1>4
     DEF Next, CallStep, logVars, Tick, EnableReadClock, EnableUpdate, DisableMcpWrites,
         ReceiveRead, ReceiveWrite, LoadDeadline, Admit, Refuse, PgApply, PgReject

LEMMA LogInvInductive ==
    TypeOK /\ GateInv /\ ReportInv /\ LogInv /\ [Next]_vars => LogInv'
<1> SUFFICES ASSUME TypeOK, GateInv, ReportInv, LogInv, [Next]_vars
             PROVE  LogInv'
  OBVIOUS
<1> DEFINE Fine(e) == pc[e.call] = "done" /\ IsTruthful(e)
           Stays(e) == /\ pc'[e.call] = "done"
                       /\ e.db = call'[e.call].db
                       /\ e.is_write = call'[e.call].is_write
                       /\ e.status = "blocked" => pg'[e.call] = "none" /\ e.is_write
                       /\ e.status = "ok" => pg'[e.call] = "applied"
<1>1. ASSUME NEW e \in Entry, Fine(e)
      PROVE  Stays(e)
  <2>1. e.call \in Call
    BY DEF Entry
  <2>. QED
    BY <1>1, <2>1, DoneIsSettled DEF IsTruthful
<1>2. \A i \in 1..Len(items) : Stays(items[i])
  <2>1. \A i \in 1..Len(items) : items[i] \in Entry /\ Fine(items[i])
    BY DEF LogInv, LogIsTruthful, TypeOK
  <2> HIDE DEF Fine, Stays
  <2>. QED
    BY <1>1, <2>1
<1>0. ASSUME \A i \in 1..Len(items') : Stays(items'[i])
      PROVE  LogInv'
  BY <1>0 DEF LogInv, LogIsTruthful, IsTruthful
<1> HIDE DEF Fine, Stays
<1>3. CASE items' = items
  BY <1>0, <1>2, <1>3
<1>4. CASE items' = << >>
  BY <1>0, <1>4
<1>5. ASSUME NEW c \in Call, LogPush(c)
      PROVE  LogInv'
  <2> DEFINE e == EntryOf(c)
             m == MakeRoom(items)
  <2>1. Stays(e)
    <3>1. /\ pc[c] = "push"
          /\ pc' = [pc EXCEPT ![c] = "done"]
          /\ call' = [call EXCEPT ![c] = Finished(@)]
          /\ pg' = pg
      BY <1>5 DEF LogPush
    <3>2. IsTrueOf(c)
      BY <3>1 DEF ReportInv
    <3>3. call'[c].db = call[c].db /\ call'[c].is_write = call[c].is_write
      BY <3>1 DEF Finished, TypeOK
    <3>4. pc'[c] = "done"
      BY <3>1 DEF TypeOK, Handler
    <3>5. /\ e.call = c /\ e.db = call[c].db /\ e.is_write = call[c].is_write
          /\ e.status = call[c].status
      BY DEF EntryOf
    <3> HIDE DEF e
    <3>. QED
      BY <3>1, <3>2, <3>3, <3>4, <3>5 DEF IsTrueOf, Stays
  <2>2. e \in Entry
    BY DEF EntryOf, Entry, TypeOK, CallRun
  <2>3. /\ m \in Seq(Entry)
        /\ \A i \in 1..Len(m) : \E j \in 1..Len(items) : m[i] = items[j]
    <3>1. /\ m \in Seq(Entry)
          /\ Len(m) = IF Len(items) < MAX_ITEMS THEN Len(items) ELSE MAX_ITEMS - 1
          /\ \A i \in 1..Len(m) : m[i] = items[Len(items) - Len(m) + i]
      BY MakeRoomKeepsTheYoungest DEF TypeOK
    <3> HIDE DEF m
    <3>2. Len(items) \in Nat /\ Len(m) \in Nat /\ Len(m) <= Len(items)
      BY <3>1 DEF TypeOK
    <3>3. \A i \in 1..Len(m) : Len(items) - Len(m) + i \in 1..Len(items)
      BY <3>2
    <3>. QED
      BY <3>1, <3>3
  <2>4. items' = Append(m, e)
    BY <1>5 DEF LogPush, PushItem
  <2> HIDE DEF m, e
  <2>5. \A i \in 1..Len(items') : items'[i] = e \/ \E j \in 1..Len(items) : items'[i] = items[j]
    BY <2>2, <2>3, <2>4
  <2>. QED
    BY <1>0, <1>2, <2>1, <2>5
<1>. QED
  BY <1>3, <1>4, <1>5, RingStep

(***************************************************************************)
(* No entry of the log ever says of a statement what Postgres did not do:  *)
(* refusals never reached Postgres, successes did, under the right name.   *)
(***************************************************************************)
THEOREM LogNeverLies == Spec => []LogIsTruthful
<1>1. Init => GateInv /\ ReportInv /\ LogInv
  BY DEF Init, LogInit, GateInv, ReportInv, LogInv, LogIsTruthful, AdmittedOnlyWhileOpen,
         AtTheGate, Handler
<1>2. LogInv => LogIsTruthful
  BY DEF LogInv
<1>. QED
  BY <1>1, <1>2, GateInvInductive, ReportInvInductive, LogInvInductive, TypeCorrect, PTL
     DEF Spec

-----------------------------------------------------------------------------
(* The ring buffer.                                                        *)

(***************************************************************************)
(* Why ids stay apart although an id is taken long before its entry is     *)
(* pushed: every id handed out is below the counter, and no two of those   *)
(* answered or in the hands of a handler are the same.                     *)
(***************************************************************************)
RingInv ==
    /\ RingHoldsTheLastAnswers
    /\ \A i \in 1..Len(answered) : answered[i].id < next_id
    /\ \A c \in Call : pc[c] = "push" =>
          /\ call[c].id < next_id
          /\ \A i \in 1..Len(answered) : answered[i].id # call[c].id
    /\ \A b, c \in Call : pc[b] = "push" /\ pc[c] = "push" /\ call[b].id = call[c].id
          => b = c

(***************************************************************************)
(* Only taking an id, pushing an entry and a restart touch the log.        *)
(***************************************************************************)
LEMMA OtherStepsLeaveTheLog ==
    ASSUME TypeOK, [Next]_vars, ~Restart,
           ~ \E c \in Call : LogTakeId(c) \/ LogPush(c)
    PROVE  /\ UNCHANGED <<items, next_id, answered>>
           /\ \A c \in Call : pc'[c] = "push" => pc[c] = "push" /\ call'[c].id = call[c].id
<1> DEFINE Left0 == /\ UNCHANGED <<items, next_id, answered>>
                    /\ \A c \in Call : pc'[c] = "push" =>
                          pc[c] = "push" /\ call'[c].id = call[c].id
<1> USE DEF TypeOK, Handler, CallRun, logVars
<1>1. CASE Tick \/ UNCHANGED vars \/ \E d \in Db : DisableMcpWrites(d)
  BY <1>1 DEF Tick, vars, gateVars, DisableMcpWrites
<1>2. ASSUME NEW k \in Click, EnableReadClock(k) \/ EnableUpdate(k)
      PROVE  Left0
  BY <1>2 DEF EnableReadClock, EnableUpdate
<1>3. ASSUME NEW b \in Call, ReceiveRead(b)
      PROVE  Left0
  BY <1>3 DEF ReceiveRead
<1>4. ASSUME NEW b \in Call, ReceiveWrite(b)
      PROVE  Left0
  BY <1>4 DEF ReceiveWrite
<1>5. ASSUME NEW b \in Call, LoadDeadline(b) \/ Admit(b) \/ Refuse(b)
      PROVE  Left0
  BY <1>5 DEF LoadDeadline, Admit, Refuse
<1>6. ASSUME NEW b \in Call, ReturnOk(b) \/ ReturnError(b)
      PROVE  Left0
  <2>1. PICK status \in Status :
           /\ pc' = [pc EXCEPT ![b] = "log"]
           /\ call' = [call EXCEPT ![b].status = status]
           /\ UNCHANGED <<items, next_id, answered>>
    BY <1>6, ReturnStep
  <2>. QED
    BY <2>1
<1>7. ASSUME NEW b \in Call, PgApply(b) \/ PgReject(b)
      PROVE  Left0
  BY <1>7 DEF PgApply, PgReject
<1>. QED
  BY <1>1, <1>2, <1>3, <1>4, <1>5, <1>6, <1>7 DEF Next, CallStep

LEMMA RingInvInductive == TypeOK /\ RingInv /\ [Next]_vars => RingInv'
<1> SUFFICES ASSUME TypeOK, RingInv, [Next]_vars
             PROVE  RingInv'
  OBVIOUS
<1>0. /\ items \in Seq(Entry) /\ answered \in Seq(Answer) /\ next_id \in Nat
      /\ \A i \in 1..Len(answered) : answered[i].id \in Nat
      /\ \A c \in Call : call[c].id \in Nat
  <2>1. items \in Seq(Entry) /\ answered \in Seq(Answer) /\ next_id \in Nat
    BY DEF TypeOK
  <2>2. \A i \in 1..Len(answered) : answered[i] \in Answer
    BY <2>1
  <2>3. \A c \in Call : call[c].id \in Nat
    BY DEF TypeOK, CallRun
  <2>. QED
    BY <2>1, <2>2, <2>3 DEF Answer
<1>1. ASSUME ~Restart, ~ \E c \in Call : LogTakeId(c) \/ LogPush(c)
      PROVE  RingInv'
  <2>1. /\ UNCHANGED <<items, next_id, answered>>
        /\ \A c \in Call : pc'[c] = "push" => pc[c] = "push" /\ call'[c].id = call[c].id
    BY <1>1, OtherStepsLeaveTheLog
  <2>2. RingHoldsTheLastAnswers'
    BY <2>1 DEF RingInv, RingHoldsTheLastAnswers, Kept
  <2>. QED
    BY <2>1, <2>2 DEF RingInv
<1>2. CASE Restart
  <2>1. items' = << >> /\ answered' = << >> /\ \A c \in Call : pc'[c] # "push"
    BY <1>2 DEF Restart, InProgress, TypeOK, Handler
  <2>. QED
    BY <2>1 DEF RingInv, RingHoldsTheLastAnswers, Kept
<1>3. ASSUME NEW c \in Call, LogTakeId(c)
      PROVE  RingInv'
  <2>1. /\ UNCHANGED <<items, answered>>
        /\ next_id' = next_id + 1
        /\ call'[c].id = next_id
        /\ \A b \in Call \ {c} : pc'[b] = pc[b] /\ call'[b].id = call[b].id
    BY <1>3 DEF LogTakeId, TakeId, TypeOK, Handler, CallRun
  <2>2. RingHoldsTheLastAnswers'
    BY <2>1 DEF RingInv, RingHoldsTheLastAnswers, Kept
  <2>3. \A i \in 1..Len(answered) : answered[i].id < next_id' /\ answered[i].id # next_id
    BY <1>0, <2>1 DEF RingInv
  <2>4. ASSUME NEW b \in Call, pc'[b] = "push"
        PROVE  /\ call'[b].id < next_id'
               /\ \A i \in 1..Len(answered) : answered[i].id # call'[b].id
               /\ b # c => pc[b] = "push" /\ call'[b].id = call[b].id /\ call[b].id # next_id
    BY <1>0, <2>1, <2>3, <2>4 DEF RingInv
  <2>5. \A a, b \in Call : pc'[a] = "push" /\ pc'[b] = "push" /\ call'[a].id = call'[b].id
                           => a = b
    BY <2>1, <2>4 DEF RingInv
  <2>. QED
    BY <2>1, <2>2, <2>3, <2>4, <2>5 DEF RingInv
<1>4. ASSUME NEW c \in Call, LogPush(c)
      PROVE  RingInv'
  <2> DEFINE e == EntryOf(c)
             a == [id |-> call[c].id, call |-> c]
             r == Append(MakeRoom(items), e)
             n == Len(items)
             m == Len(r)
             total == Len(answered)
             from(i) == n - m + 1 + i
             Same(entry, answer) == entry.id = answer.id /\ entry.call = answer.call
  <2>1. /\ pc[c] = "push"
        /\ items' = r
        /\ answered' = Append(answered, a)
        /\ next_id' = next_id
        /\ pc'[c] = "done"
        /\ \A b \in Call \ {c} : pc'[b] = pc[b] /\ call'[b] = call[b]
    BY <1>4 DEF LogPush, PushItem, TypeOK, Handler
  <2>2. e \in Entry /\ Same(e, a) /\ a.id = call[c].id
    BY DEF EntryOf, Entry, TypeOK, CallRun
  <2>3. /\ n \in Nat /\ total \in Nat
        /\ n = IF total < MAX_ITEMS THEN total ELSE MAX_ITEMS
    BY <1>0 DEF RingInv, RingHoldsTheLastAnswers, Kept
  <2>4. /\ r \in Seq(Entry)
        /\ m = IF n < MAX_ITEMS THEN n + 1 ELSE MAX_ITEMS
        /\ r[m] = e
        /\ \A i \in 1..(m - 1) : r[i] = items[from(i)]
    <3>1. Len(items) <= MAX_ITEMS
      BY <2>3
    <3> HIDE DEF e
    <3>. QED
      BY <1>0, <2>2, <3>1, PushKeepsTheYoungest
  <2>5. Len(answered') = total + 1 /\ answered'[total + 1] = a
        /\ \A i \in 1..total : answered'[i] = answered[i]
    <3> HIDE DEF a
    <3>. QED
      BY <1>0, <2>1
  <2>6. /\ \A i \in 1..n : Same(items[i], answered[total - n + i])
        /\ \A i \in 1..total : answered[i].id < next_id /\ answered[i].id # call[c].id
        /\ \A i, j \in 1..total : answered[i].id = answered[j].id => i = j
        /\ call[c].id < next_id
    <3>1. \A i \in 1..n : Same(items[i], answered[total - n + i])
      BY <2>3 DEF RingInv, RingHoldsTheLastAnswers, Kept
    <3>2. /\ \A i \in 1..total : answered[i].id < next_id /\ answered[i].id # call[c].id
          /\ call[c].id < next_id
      BY <2>1 DEF RingInv
    <3>3. \A i, j \in 1..total : answered[i].id = answered[j].id => i = j
      BY DEF RingInv, RingHoldsTheLastAnswers
    <3>. QED
      BY <3>1, <3>2, <3>3
  <2> HIDE DEF e, a, r, n, m, total, Same
  <2>7. /\ m \in Nat \ {0} /\ m <= n + 1 /\ n <= total
        /\ \A i \in 1..(m - 1) : from(i) \in 1..n
        /\ \A i \in 1..m : i = m \/ i \in 1..(m - 1)
        /\ \A i \in 1..(total + 1) : i = total + 1 \/ i \in 1..total
    BY <2>3, <2>4
  <2>8. \A i \in 1..m : Same(r[i], answered'[total + 1 - m + i])
    <3>1. ASSUME NEW i \in 1..(m - 1)
          PROVE  Same(r[i], answered'[total + 1 - m + i])
      <4>1. from(i) \in 1..n /\ r[i] = items[from(i)]
        BY <2>4, <2>7
      <4>2. Same(items[from(i)], answered[total - n + from(i)])
        BY <4>1, <2>6
      <4>3. /\ total - n + from(i) = total + 1 - m + i
            /\ total - n + from(i) \in 1..total
        BY <2>3, <2>7, <4>1
      <4> HIDE DEF from
      <4>. QED
        BY <2>5, <4>1, <4>2, <4>3
    <3>2. Same(r[m], answered'[total + 1 - m + m])
      <4>1. total + 1 - m + m = total + 1
        BY <2>3, <2>7
      <4>. QED
        BY <2>2, <2>4, <2>5, <4>1
    <3>. QED
      BY <2>7, <3>1, <3>2
  <2>9. \A i \in 1..Len(answered') : answered'[i].id < next_id'
    BY <2>1, <2>2, <2>5, <2>6, <2>7
  <2>10. \A i, j \in 1..Len(answered') : answered'[i].id = answered'[j].id => i = j
    BY <2>2, <2>5, <2>6, <2>7
  <2>11. ASSUME NEW b \in Call, pc'[b] = "push"
         PROVE  /\ b # c /\ pc[b] = "push" /\ call'[b].id = call[b].id
                /\ call[b].id < next_id
                /\ \A i \in 1..Len(answered') : answered'[i].id # call[b].id
    <3>1. b # c /\ pc[b] = "push" /\ call'[b].id = call[b].id
      BY <2>1, <2>11
    <3>2. call[b].id # call[c].id
      BY <2>1, <3>1 DEF RingInv
    <3>3. call[b].id < next_id /\ \A i \in 1..total : answered[i].id # call[b].id
      BY <3>1 DEF RingInv, total
    <3>. QED
      BY <2>2, <2>5, <2>7, <3>1, <3>2, <3>3
  <2>12. RingHoldsTheLastAnswers'
    <3>1. Kept' = m /\ Len(items') = m
      BY <2>1, <2>3, <2>4, <2>5 DEF Kept, m
    <3>2. \A i \in 1..Kept' : Same(items'[i], answered'[Len(answered') - Kept' + i])
      <4>1. \A i \in 1..m : Len(answered') - m + i = total + 1 - m + i
        BY <2>3, <2>5, <2>7
      <4>2. \A i \in 1..m : Same(items'[i], answered'[Len(answered') - m + i])
        BY <2>1, <2>8, <4>1, Zenon
      <4>. QED
        BY <3>1, <4>2, Zenon
    <3>. QED
      BY <2>10, <3>1, <3>2 DEF RingHoldsTheLastAnswers, Same
  <2>. QED
    BY <2>1, <2>9, <2>11, <2>12 DEF RingInv
<1>. QED
  BY <1>1, <1>2, <1>3, <1>4

(***************************************************************************)
(* The ring always holds exactly the last MAX_ITEMS answers, in the order  *)
(* they were given and under ids of their own, whatever handlers do        *)
(* between taking an id and pushing an entry.                              *)
(***************************************************************************)
THEOREM RingIsComplete == Spec => []RingHoldsTheLastAnswers
<1>1. Init => RingInv
  BY DEF Init, LogInit, RingInv, RingHoldsTheLastAnswers, Kept, Handler
<1>2. RingInv => RingHoldsTheLastAnswers
  BY DEF RingInv
<1>. QED
  BY <1>1, <1>2, RingInvInductive, TypeCorrect, PTL DEF Spec

=============================================================================
