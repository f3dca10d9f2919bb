------------------------- MODULE ServerConfigProofs -------------------------
(***************************************************************************)
(* What ServerConfig promises for any number of clicks and any libraries.  *)
(* The inductive invariant says what a handler has found out by the        *)
(* statement it is about to send, and that the file holds one list, with   *)
(* the extension in it once at most.                                       *)
(***************************************************************************)
EXTENDS ServerConfig, TLAPS

-----------------------------------------------------------------------------
(* The inductive invariant.                                                *)

\* An answer is given once; only a handler that has been given up on is still
\* at work after it.
AnsweredOnce(k) ==
    /\ pc[k] \in {"idle", "probe", "read_back"} => click[k].answer = "none"
    /\ pc[k] \in {"create", "preload", "alter", "reload"} => click[k].answer \in {"none", "error"}
    /\ pc[k] \in {"alter", "reload", "read_back"} => click[k].requested \in {"on", "off"}

\* What is appended to has been probed not to list the extension.
AppendsOnce(k) == pc[k] = "preload" => ~IsListed(click[k].current_preload)

OnceIn(list) == \A i, j \in 1..Len(list) : list[i] = EXTENSION /\ list[j] = EXTENSION => i = j

\* ALTER SYSTEM writes no list or one element.
OneElement ==
    \/ file.libraries = << >>
    \/ \E list \in Seq(Name) : file.libraries = <<list>> /\ OnceIn(list)

Inv ==
    /\ TypeOK
    /\ OneElement
    /\ \A k \in Click : AnsweredOnce(k) /\ AppendsOnce(k)
    /\ NoChangeWaitsUnseen

-----------------------------------------------------------------------------
(* The lists.                                                              *)

LEMMA WrittenNothing == Written(<< >>) = << >>
BY DEF Written, FlattenSeq

LEMMA WrittenElement ==
    ASSUME NEW list
    PROVE  Written(<<list>>) = list
<1>. DEFINE flatten == [i \in 1..1 |-> list]
            Step(f) == [i \in 1..Len(<<list>>) |->
                           IF i = 1 THEN <<list>>[i] ELSE f[i-1] \o <<list>>[i]]
            chosen == CHOOSE f : f = Step(f)
<1>1. flatten = Step(flatten)
  OBVIOUS
<1>2. chosen = Step(chosen)
  <2>. HIDE DEF flatten, Step
  <2>. QED
    BY <1>1
<1>3. chosen[1] = list
  <2>. HIDE DEF chosen
  <2>1. Step(chosen)[1] = list
    OBVIOUS
  <2>. QED
    BY <1>2, <2>1
<1>4. Written(<<list>>) = chosen[1]
  BY DEF Written, FlattenSeq
<1>. QED
  BY <1>3, <1>4

LEMMA ByHandIsOneElement ==
    ASSUME NEW list \in ByHand
    PROVE  /\ list \in Seq(Name)
           /\ AsElements(list) \in Seq(Seq(Name))
           /\ AsElements(list) = << >> \/ AsElements(list) = <<list>>
           /\ OnceIn(list)
<1>1. CASE list = << >>
  BY <1>1 DEF AsElements, OnceIn
<1>2. CASE list # << >>
  <2>1. PICK l \in Library : list = <<l>>
    BY <1>2 DEF ByHand
  <2>2. l \in Name /\ Len(list) = 1 /\ list[1] = l
    BY <2>1 DEF Name
  <2>3. AsElements(list) = <<list>>
    BY <2>1, <2>2 DEF AsElements
  <2>4. list \in Seq(Name)
    BY <2>1, <2>2
  <2>5. AsElements(list) \in Seq(Seq(Name))
    BY <2>3, <2>4
  <2>. QED
    BY <2>2, <2>3, <2>4, <2>5 DEF OnceIn
<1>. QED
  BY <1>1, <1>2

\* Appended to a list without it, the extension is listed once.
LEMMA AppendedOnce ==
    ASSUME NEW list \in Seq(Name), ~IsListed(list)
    PROVE  Append(list, EXTENSION) \in Seq(Name) /\ OnceIn(Append(list, EXTENSION))
<1>1. \A i \in 1..Len(list) : list[i] # EXTENSION
  BY DEF IsListed, ToSet
<1>2. /\ Append(list, EXTENSION) \in Seq(Name)
      /\ Len(Append(list, EXTENSION)) = Len(list) + 1
      /\ \A i \in 1..Len(list) : Append(list, EXTENSION)[i] = list[i]
  BY DEF Name
<1>. QED
  BY <1>1, <1>2 DEF OnceIn

-----------------------------------------------------------------------------
(* The handlers, one click at a time.                                      *)

\* What a step of a handler does to its click: the statement it sends next,
\* and the answer.
Moves(k, step, answer) ==
    /\ pc' \in [Click -> Pc] /\ click' \in [Click -> SetupRun]
    /\ pc'[k] = step /\ click'[k].answer = answer
    /\ \A j \in Click : j # k => pc'[j] = pc[j] /\ click'[j] = click[j]
    /\ \A j \in Click : click'[j].requested = click[j].requested

LEMMA EndsMoves ==
    ASSUME TypeOK, NEW k \in Click, NEW answer \in Answer, Ends(k, answer)
    PROVE  Moves(k, "done", answer)
<1>1. pc \in [Click -> Pc] /\ click \in [Click -> SetupRun] /\ << >> \in Seq(Name)
  BY DEF TypeOK
<1>2. /\ pc' \in [Click -> Pc] /\ pc'[k] = "done"
      /\ \A j \in Click : j # k => pc'[j] = pc[j]
  BY <1>1 DEF Ends, Pc
<1>3. /\ click' \in [Click -> SetupRun] /\ click'[k].answer = answer
      /\ click'[k].requested = click[k].requested
  BY <1>1 DEF Ends, SetupRun
<1>4. \A j \in Click : j # k => click'[j] = click[j]
  BY <1>1 DEF Ends
<1>. QED
  BY <1>2, <1>3, <1>4 DEF Moves

LEMMA ProceedsMoves ==
    ASSUME TypeOK, NEW k \in Click, NEW step \in Pc, pc' = [pc EXCEPT ![k] = step],
           UNCHANGED click
    PROVE  Moves(k, step, click[k].answer)
BY DEF TypeOK, Moves

LEMMA GoesOnMoves ==
    ASSUME TypeOK, NEW k \in Click, NEW step \in Pc, GoesOn(k, step)
    PROVE  \/ Moves(k, "done", "error")
           \/ click[k].answer = "none" /\ Moves(k, step, "none")
BY EndsMoves, ProceedsMoves DEF GoesOn, Answer

LEMMA EndsEitherWayMoves ==
    ASSUME TypeOK, NEW k \in Click, EndsEitherWay(k)
    PROVE  \/ Moves(k, "done", "error")
           \/ click[k].answer = "none" /\ Moves(k, "done", "ok")
BY EndsMoves DEF EndsEitherWay, Answer

-----------------------------------------------------------------------------
(* A step of a handler.                                                    *)

\* The operator who asked for the value will ask for a reload, or has been
\* told of an error.
Seen(k) == pc[k] = "reload" \/ click[k].answer = "error"

\* What a step of the handler of click k may do.
HandlerEffect(k) ==
    /\ \E step \in Pc, answer \in Answer : Moves(k, step, answer)
    /\ AnsweredOnce(k)'
    /\ AppendsOnce(k)'
    /\ file' \in ConfigFile /\ server' \in Server
    /\ server'.up = server.up /\ server'.io_timing = server.io_timing
    /\ server.reload => server'.reload
    /\ \/ file'.libraries = file.libraries
       \/ \E list \in Seq(Name) : file'.libraries = <<list>> /\ OnceIn(list)
    /\ file'.io_timing # file.io_timing => k \in AskedFor(file'.io_timing) /\ Seen(k)'
    /\ Seen(k) => Seen(k)' \/ server'.reload

LEMMA HandlerStep ==
    ASSUME TypeOK, NEW k \in Click, Handler(k), AnsweredOnce(k), AppendsOnce(k)
    PROVE  HandlerEffect(k)
<1>1. /\ file \in ConfigFile /\ server \in Server
      /\ pc \in [Click -> Pc] /\ click \in [Click -> SetupRun]
  BY DEF TypeOK
<1>2. CASE Receive(k)
  <2>. DEFINE step == IF click[k].requested \in {"on", "off"} THEN "alter" ELSE "probe"
  <2>1. step \in Pc /\ pc' = [pc EXCEPT ![k] = step] /\ click' = click
    BY <1>2 DEF Receive, Pc
  <2>2. /\ step = "alter" => click[k].requested \in {"on", "off"}
        /\ step \in {"alter", "probe"}
    OBVIOUS
  <2>. HIDE DEF step
  <2>3. Moves(k, step, click[k].answer)
    BY <2>1, ProceedsMoves
  <2>4. click[k].answer = "none" /\ pc[k] = "idle"
    BY <1>2 DEF Receive, AnsweredOnce
  <2>. QED
    BY <1>1, <1>2, <2>1, <2>2, <2>3, <2>4
       DEF Receive, HandlerEffect, AnsweredOnce, AppendsOnce, Moves, Seen, Answer
<1>3. CASE Fails(k)
  <2>1. Moves(k, "done", "error")
    BY <1>3, EndsMoves DEF Fails, Answer
  <2>. QED
    BY <1>1, <1>3, <2>1
       DEF Fails, HandlerEffect, AnsweredOnce, AppendsOnce, Moves, Seen, Answer, Pc
<1>4. CASE GivesUp(k)
  <2>1. /\ click' \in [Click -> SetupRun] /\ click'[k].answer = "error"
        /\ click'[k].requested = click[k].requested
        /\ click'[k].current_preload = click[k].current_preload
    BY <1>1, <1>4 DEF GivesUp, SetupRun, Answer
  <2>2. \A j \in Click : j # k => click'[j] = click[j]
    BY <1>1, <1>4 DEF GivesUp
  <2>3. Moves(k, pc[k], "error") /\ pc[k] \in Pc
    BY <1>1, <1>4, <2>1, <2>2 DEF GivesUp, Moves
  <2>4. AnsweredOnce(k)' /\ AppendsOnce(k)'
    BY <1>4, <2>1 DEF GivesUp, AnsweredOnce, AppendsOnce
  <2>. QED
    BY <1>1, <1>4, <2>1, <2>3, <2>4 DEF GivesUp, HandlerEffect, Seen, Answer
<1>5. CASE Refuse(k)
  <2>1. Moves(k, "done", "blocked") /\ pc[k] = "probe"
    BY <1>5, EndsMoves DEF Refuse, Probes, Answer
  <2>. QED
    BY <1>1, <1>5, <2>1
       DEF Refuse, HandlerEffect, AnsweredOnce, AppendsOnce, Moves, Seen, Answer, Pc
<1>6. CASE ProceedToCreate(k)
  <2>1. Moves(k, "create", click[k].answer)
    BY <1>6, ProceedsMoves DEF ProceedToCreate, Pc
  <2>2. pc[k] = "probe" /\ click[k].answer = "none"
    BY <1>6 DEF ProceedToCreate, Probes, AnsweredOnce
  <2>. QED
    BY <1>1, <1>6, <2>1, <2>2
       DEF ProceedToCreate, HandlerEffect, AnsweredOnce, AppendsOnce, Moves, Seen, Answer, Pc
<1>7. CASE CreateExtension(k)
  <2>1. server' \in Server /\ server'.up = server.up
        /\ server'.io_timing = server.io_timing /\ server'.reload = server.reload
    BY <1>1, <1>7 DEF CreateExtension, Server
  <2>2. \/ Moves(k, "done", "error")
        \/ click[k].answer = "none" /\ Moves(k, "done", "ok")
    BY <1>7, EndsEitherWayMoves DEF CreateExtension
  <2>3. pc[k] = "create" /\ file' = file
    BY <1>7 DEF CreateExtension
  <2>. QED
    BY <1>1, <2>1, <2>2, <2>3
       DEF HandlerEffect, AnsweredOnce, AppendsOnce, Moves, Seen, Answer, Pc
<1>8. CASE ProceedToPreload(k)
  <2>1. server.libraries \in Seq(Name) /\ ~IsListed(server.libraries)
    BY <1>1, <1>8 DEF ProceedToPreload, Server
  <2>2. pc[k] = "probe" /\ click[k].answer = "none"
    BY <1>8 DEF ProceedToPreload, Probes, AnsweredOnce
  <2>3. /\ click' \in [Click -> SetupRun] /\ click'[k].answer = click[k].answer
        /\ click'[k].requested = click[k].requested
        /\ click'[k].current_preload = server.libraries
    BY <1>1, <1>8, <2>1 DEF ProceedToPreload, SetupRun
  <2>4. \A j \in Click : j # k => click'[j] = click[j] /\ pc'[j] = pc[j]
    BY <1>1, <1>8 DEF ProceedToPreload
  <2>5. pc' \in [Click -> Pc] /\ pc'[k] = "preload"
    BY <1>1, <1>8 DEF ProceedToPreload, Pc
  <2>6. Moves(k, "preload", "none")
    BY <2>2, <2>3, <2>4, <2>5 DEF Moves
  <2>. QED
    BY <1>1, <1>8, <2>1, <2>2, <2>3, <2>5, <2>6
       DEF ProceedToPreload, HandlerEffect, AnsweredOnce, AppendsOnce, Seen, Answer, Pc
<1>9. CASE AlterPreload(k)
  <2>. DEFINE list == Append(click[k].current_preload, EXTENSION)
  <2>1. click[k].current_preload \in Seq(Name) /\ pc[k] = "preload"
    BY <1>1, <1>9 DEF AlterPreload, SetupRun
  <2>2. list \in Seq(Name) /\ OnceIn(list)
    BY <2>1, AppendedOnce DEF AppendsOnce
  <2>3. file' = [file EXCEPT !.libraries = <<list>>]
    BY <1>9 DEF AlterPreload
  <2>. HIDE DEF list
  <2>4. <<list>> \in Seq(Seq(Name))
    BY <2>2
  <2>5. /\ file' \in ConfigFile /\ file'.io_timing = file.io_timing
        /\ file'.libraries = <<list>>
    BY <1>1, <2>3, <2>4 DEF ConfigFile
  <2>6. \/ Moves(k, "done", "error")
        \/ click[k].answer = "none" /\ Moves(k, "done", "ok")
    BY <1>9, EndsEitherWayMoves DEF AlterPreload
  <2>7. server' = server
    BY <1>9 DEF AlterPreload
  <2>. QED
    BY <1>1, <2>1, <2>2, <2>5, <2>6, <2>7
       DEF HandlerEffect, AnsweredOnce, AppendsOnce, Moves, Seen, Answer, Pc
<1>10. CASE AlterTiming(k)
  <2>. DEFINE io_timing == click[k].requested = "on"
  <2>1. /\ pc[k] = "alter" /\ click[k].requested \in {"on", "off"} /\ server' = server
        /\ file' = [file EXCEPT !.io_timing = io_timing]
    BY <1>10 DEF AlterTiming, AnsweredOnce
  <2>2. io_timing \in BOOLEAN /\ k \in AskedFor(io_timing)
    BY <2>1 DEF AskedFor
  <2>. HIDE DEF io_timing
  <2>3. /\ file' \in ConfigFile /\ file'.libraries = file.libraries
        /\ file'.io_timing = io_timing
    BY <1>1, <2>1, <2>2 DEF ConfigFile
  <2>4. \/ Moves(k, "done", "error")
        \/ click[k].answer = "none" /\ Moves(k, "reload", "none")
    BY <1>10, GoesOnMoves DEF AlterTiming, Pc
  <2>5. click'[k].requested \in {"on", "off"}
    BY <2>1, <2>4 DEF Moves
  <2>6. Seen(k)'
    BY <2>4 DEF Moves, Seen
  <2>7. AnsweredOnce(k)' /\ AppendsOnce(k)'
    BY <2>4, <2>5 DEF Moves, AnsweredOnce, AppendsOnce
  <2>8. \E step \in Pc, answer \in Answer : Moves(k, step, answer)
    BY <2>4 DEF Pc, Answer
  <2>. QED
    BY <1>1, <2>1, <2>2, <2>3, <2>6, <2>7, <2>8 DEF HandlerEffect
<1>11. CASE AskForReload(k)
  <2>1. /\ server' \in Server /\ server'.up = server.up
        /\ server'.io_timing = server.io_timing /\ server'.reload
    BY <1>1, <1>11 DEF AskForReload, Server
  <2>2. /\ pc[k] = "reload" /\ file' = file /\ click[k].requested \in {"on", "off"}
    BY <1>11 DEF AskForReload, AnsweredOnce
  <2>3. \/ Moves(k, "done", "error")
        \/ click[k].answer = "none" /\ Moves(k, "read_back", "none")
    BY <1>11, GoesOnMoves DEF AskForReload, Pc
  <2>4. click'[k].requested \in {"on", "off"}
    BY <2>2, <2>3 DEF Moves
  <2>5. AnsweredOnce(k)' /\ AppendsOnce(k)'
    BY <2>3, <2>4 DEF Moves, AnsweredOnce, AppendsOnce
  <2>6. \E step \in Pc, answer \in Answer : Moves(k, step, answer)
    BY <2>3 DEF Pc, Answer
  <2>. QED
    BY <1>1, <2>1, <2>2, <2>5, <2>6 DEF HandlerEffect
<1>12. CASE ReadBack(k)
  <2>1. Moves(k, "done", "ok") /\ pc[k] = "read_back" /\ click[k].answer = "none"
    BY <1>12, EndsMoves DEF ReadBack, Answer, AnsweredOnce
  <2>. QED
    BY <1>1, <1>12, <2>1
       DEF ReadBack, HandlerEffect, AnsweredOnce, AppendsOnce, Moves, Seen, Answer, Pc
<1>. QED
  BY <1>2, <1>3, <1>4, <1>5, <1>6, <1>7, <1>8, <1>9, <1>10, <1>11, <1>12 DEF Handler

-----------------------------------------------------------------------------
(* Every step keeps the invariant.                                         *)

LEMMA HandlerKeeps ==
    ASSUME Inv, NEW k \in Click, Handler(k)
    PROVE  Inv'
<1>1. HandlerEffect(k)
  BY HandlerStep DEF Inv
<1>2. PICK step \in Pc, answer \in Answer : Moves(k, step, answer)
  BY <1>1 DEF HandlerEffect
<1>3. TypeOK'
  BY <1>1, <1>2 DEF HandlerEffect, Moves, TypeOK
<1>4. OneElement'
  BY <1>1 DEF Inv, OneElement, HandlerEffect
<1>5. ASSUME NEW j \in Click PROVE AnsweredOnce(j)' /\ AppendsOnce(j)'
  <2>1. CASE j = k
    BY <1>1, <2>1 DEF HandlerEffect
  <2>2. CASE j # k
    BY <1>2, <2>2 DEF Moves, Inv, AnsweredOnce, AppendsOnce
  <2>. QED
    BY <2>1, <2>2
<1>6. NoChangeWaitsUnseen'
  <2>. SUFFICES ASSUME server'.up, server'.io_timing # file'.io_timing, ~server'.reload
                PROVE  \E j \in AskedFor(file'.io_timing) : Seen(j)'
    BY <1>2 DEF NoChangeWaitsUnseen, AskedFor, Moves, Seen
  <2>1. CASE file'.io_timing # file.io_timing
    BY <1>1, <2>1 DEF HandlerEffect
  <2>2. CASE file'.io_timing = file.io_timing
    <3>1. PICK j \in AskedFor(file.io_timing) : Seen(j)
      BY <1>1, <2>2 DEF HandlerEffect, Inv, NoChangeWaitsUnseen, Seen
    <3>2. Seen(j)'
      <4>1. CASE j = k
        BY <1>1, <3>1, <4>1 DEF HandlerEffect
      <4>2. CASE j # k
        BY <1>2, <3>1, <4>2 DEF Moves, Seen, AskedFor
      <4>. QED
        BY <4>1, <4>2
    <3>. QED
      BY <2>2, <3>2
  <2>. QED
    BY <2>1, <2>2
<1>. QED
  BY <1>3, <1>4, <1>5, <1>6 DEF Inv

LEMMA OutsideKeeps ==
    ASSUME Inv, \/ AdministratorSets \/ AdministratorReloads \/ PackageInstalled
                \/ PostgresReloads \/ PostgresRestarts
    PROVE  Inv'
<1>1. pc' = pc /\ click' = click
  BY DEF AdministratorSets, AdministratorReloads, PackageInstalled, PostgresReloads,
         PostgresRestarts
<1>2. file \in ConfigFile /\ server \in Server
  BY DEF Inv, TypeOK
<1>3. \A k \in Click : AnsweredOnce(k)' /\ AppendsOnce(k)'
  BY <1>1 DEF Inv, AnsweredOnce, AppendsOnce
<1>4. CASE AdministratorSets
  <2>1. PICK list \in ByHand : file' = [file EXCEPT !.libraries = AsElements(list)]
    BY <1>4 DEF AdministratorSets
  <2>2. /\ list \in Seq(Name) /\ AsElements(list) \in Seq(Seq(Name)) /\ OnceIn(list)
        /\ AsElements(list) = << >> \/ AsElements(list) = <<list>>
    BY ByHandIsOneElement
  <2>3. /\ file' \in ConfigFile /\ file'.io_timing = file.io_timing
        /\ file'.libraries = AsElements(list)
    BY <1>2, <2>1, <2>2 DEF ConfigFile
  <2>4. server' = server
    BY <1>4 DEF AdministratorSets
  <2>5. OneElement'
    BY <2>2, <2>3 DEF OneElement
  <2>6. NoChangeWaitsUnseen'
    BY <1>1, <2>3, <2>4 DEF Inv, NoChangeWaitsUnseen, AskedFor
  <2>. QED
    BY <1>1, <1>3, <2>3, <2>4, <2>5, <2>6 DEF Inv, TypeOK
<1>5. CASE AdministratorReloads \/ PackageInstalled
  <2>1. /\ server' \in Server /\ server'.up = server.up
        /\ server'.io_timing = server.io_timing /\ (server.reload => server'.reload)
    BY <1>2, <1>5 DEF AdministratorReloads, PackageInstalled, Server
  <2>2. file' = file
    BY <1>5 DEF AdministratorReloads, PackageInstalled
  <2>3. OneElement'
    BY <2>2 DEF Inv, OneElement
  <2>4. NoChangeWaitsUnseen'
    BY <1>1, <2>1, <2>2 DEF Inv, NoChangeWaitsUnseen, AskedFor
  <2>. QED
    BY <1>1, <1>3, <2>1, <2>2, <2>3, <2>4 DEF Inv, TypeOK
<1>6. CASE PostgresReloads
  <2>1. file.io_timing \in BOOLEAN
    BY <1>2 DEF ConfigFile
  <2>2. server' \in Server /\ server'.io_timing = file.io_timing /\ file' = file
    BY <1>2, <1>6, <2>1 DEF PostgresReloads, Server
  <2>3. OneElement'
    BY <2>2 DEF Inv, OneElement
  <2>4. NoChangeWaitsUnseen'
    BY <2>2 DEF NoChangeWaitsUnseen
  <2>. QED
    BY <1>1, <1>3, <2>2, <2>3, <2>4 DEF Inv, TypeOK
<1>7. CASE PostgresRestarts
  <2>1. Written(file.libraries) \in Seq(Name)
    <3>1. CASE file.libraries = << >>
      <4>1. Written(file.libraries) = << >>
        BY <3>1, WrittenNothing
      <4>. QED
        BY <4>1
    <3>2. ASSUME NEW list \in Seq(Name), file.libraries = <<list>>
          PROVE  Written(file.libraries) \in Seq(Name)
      BY <3>2, WrittenElement
    <3>. QED
      BY <3>1, <3>2 DEF Inv, OneElement
  <2>2. file.io_timing \in BOOLEAN
    BY <1>2 DEF ConfigFile
  <2>3. server' \in Server /\ (server'.up => server'.io_timing = file.io_timing)
    <3>1. CASE CanStart(file.libraries)
      BY <1>2, <1>7, <2>1, <2>2, <3>1 DEF PostgresRestarts, Server
    <3>2. CASE ~CanStart(file.libraries)
      BY <1>2, <1>7, <3>2 DEF PostgresRestarts, Server
    <3>. QED
      BY <3>1, <3>2
  <2>4. file' = file
    BY <1>7 DEF PostgresRestarts
  <2>5. OneElement'
    BY <2>4 DEF Inv, OneElement
  <2>6. NoChangeWaitsUnseen'
    BY <2>3, <2>4 DEF NoChangeWaitsUnseen
  <2>. QED
    BY <1>1, <1>3, <2>3, <2>4, <2>5, <2>6 DEF Inv, TypeOK
<1>. QED
  BY <1>4, <1>5, <1>6, <1>7

LEMMA InitInv == Init => Inv
<1>. SUFFICES ASSUME Init PROVE Inv
  OBVIOUS
<1>1. PICK list \in ByHand, io_timing, available \in BOOLEAN :
        /\ file = [libraries |-> AsElements(list), io_timing |-> io_timing]
        /\ server = [up |-> TRUE, available |-> available, installed |-> FALSE,
                     libraries |-> list, io_timing |-> io_timing, reload |-> FALSE]
  BY DEF Init
<1>2. /\ list \in Seq(Name) /\ AsElements(list) \in Seq(Seq(Name)) /\ OnceIn(list)
      /\ AsElements(list) = << >> \/ AsElements(list) = <<list>>
  BY ByHandIsOneElement
<1>3. file \in ConfigFile /\ server \in Server
  BY <1>1, <1>2 DEF ConfigFile, Server
<1>4. OneElement
  BY <1>1, <1>2 DEF OneElement
<1>5. NoChangeWaitsUnseen
  BY <1>1 DEF NoChangeWaitsUnseen
<1>6. pc \in [Click -> Pc] /\ \A k \in Click : pc[k] = "idle"
  BY DEF Init, Pc
<1>7. click \in [Click -> SetupRun] /\ \A k \in Click : click[k].answer = "none"
  <2>1. [requested : Requested, current_preload : {<< >>}, answer : {"none"}] \subseteq SetupRun
    <3>1. << >> \in Seq(Name)
      OBVIOUS
    <3>. QED
      BY <3>1 DEF SetupRun, Answer
  <2>. QED
    BY <2>1 DEF Init
<1>. QED
  BY <1>3, <1>4, <1>5, <1>6, <1>7 DEF Inv, TypeOK, AnsweredOnce, AppendsOnce

LEMMA StepInv == Inv /\ [Next]_vars => Inv'
<1>. SUFFICES ASSUME Inv, [Next]_vars PROVE Inv'
  OBVIOUS
<1>1. CASE UNCHANGED vars
  BY <1>1 DEF vars, Inv, TypeOK, OneElement, AnsweredOnce, AppendsOnce, NoChangeWaitsUnseen,
              AskedFor
<1>. QED
  BY <1>1, HandlerKeeps, OutsideKeeps DEF Next

-----------------------------------------------------------------------------
(* The theorems.                                                           *)

\* The inductive invariant holds however the clicks of
\* track_io_timing.rs and extension_setup.rs overlap with one another, with
\* an administrator and with reloads and restarts.
THEOREM Invariance == Spec => []Inv
BY InitInv, StepInv, PTL DEF Spec

\* Every reachable state of the file, the server and the handlers is one
\* their types allow; a handler answers with a status its log knows.
THEOREM TypeCorrect == Spec => []TypeOK
<1>1. Inv => TypeOK
  BY DEF Inv
<1>. QED
  BY <1>1, Invariance, PTL

\* The library is never listed twice: what `appended_preload` appends to has
\* been probed not to list it, and replaces whatever an overlapping click
\* has written.
THEOREM ListedOnce == Spec => []NamedOnce
<1>1. Inv => NamedOnce
  <2>. SUFFICES ASSUME Inv PROVE NamedOnce
    OBVIOUS
  <2>1. CASE file.libraries = << >>
    BY <2>1, WrittenNothing DEF NamedOnce
  <2>2. ASSUME NEW list \in Seq(Name), file.libraries = <<list>>, OnceIn(list)
        PROVE  NamedOnce
    BY <2>2, WrittenElement DEF NamedOnce, OnceIn
  <2>. QED
    BY <2>1, <2>2 DEF Inv, OneElement
<1>. QED
  BY <1>1, Invariance, PTL

\* `set_track_io_timing` leaves no change in the file that nobody knows of: a
\* value that is not in force has a reload on its way, or a handler about to
\* ask for one, or an operator who asked for it and was told of an error.
THEOREM ChangesAreSeen == Spec => []NoChangeWaitsUnseen
<1>1. Inv => NoChangeWaitsUnseen
  BY DEF Inv
<1>. QED
  BY <1>1, Invariance, PTL

=============================================================================
