--------------------------- MODULE CollectorProofs ----------------------------
(***************************************************************************)
(* What Collector promises for any databases, statements, timers and       *)
(* bounds.  The inductive invariant, Inv, says of each database how its    *)
(* readings follow one another: the sample kept in the cache, the sample   *)
(* in the hands of a task, and the server itself.                          *)
(***************************************************************************)
EXTENDS Collector, FiniteSums

-----------------------------------------------------------------------------
(* The inductive invariant.                                                *)

\* A slow task that goes on has capabilities.
TypeInv ==
    /\ TypeOK
    /\ \A d \in Db : slow[d].pc \in {"tables", "statements", "drain", "disk_io", "apply"}
                        => slow[d].caps \in Capabilities

\* y is a reading of pg_stat_database no older than x; with no reset in
\* between, its counter has moved by the work that was done.
Follows(x, y) ==
    /\ x.stats_reset <= y.stats_reset /\ x.work <= y.work
    /\ x.stats_reset = y.stats_reset => y.count - x.count = y.work - x.work

ReadingsFollow(d) ==
    LET sample == fast[d].sample
        last == cache[d].previous_health
    IN  /\ sample # None => Follows(sample, server[d])
        /\ last # None => Follows(last, server[d])
        /\ sample # None /\ last # None => Follows(last, sample)

\* What is shown of the load is what was done between the first and the last
\* reading, and what waits to be stored has been shown.
LoadIsBooked(d) ==
    LET load == ledger["load"][d]
        last == cache[d].previous_health
    IN  /\ load.first = None <=> last = None
        /\ load.first = None => load.shown = 0
        /\ server[d].stats_reset = 0 /\ load.first # None => load.first + load.shown = last.work
        /\ load.stored <= load.shown
        /\ fast[d].pc = "read_back" => load.stored + Known(cache[d].rates) <= load.shown
        /\ fast[d].row # None => load.stored + Known(fast[d].row.rates) <= load.shown

RateIsExact(d) == cache[d].rates # None =>
                      cache[d].rates.delta = cache[d].rates.upto - cache[d].rates.from

LoadInv == \A d \in Db : ReadingsFollow(d) /\ RateIsExact(d) /\ LoadIsBooked(d)

\* How far a counter has risen, not counting from before it was reset.
Rise(after, before) == IF after < before THEN 0 ELSE after - before

\* y is a reading of pg_stat_statements no older than x; whichever statements
\* are added up, they have risen by no more than the work that was done.
Outgrows(x, y) ==
    /\ x.work <= y.work
    /\ \A M \in SUBSET Statement :
          SumFunction([s \in M |-> Rise(y.calls[s], x.calls[s])]) <= y.work - x.work

ReadingsGrow(d) ==
    LET sample == slow[d].sample
        last == cache[d].previous_statements
    IN  /\ sample # None => Outgrows(sample, server[d])
        /\ last # None => Outgrows(last, server[d])
        /\ sample # None /\ last # None => Outgrows(last, sample)

\* A throughput is a floor from the moment it is computed, unless a row of its
\* earlier sample was masked, and has been shown when it waits to be stored.
MinutesAreBooked(d) ==
    LET task == slow[d]
        minutes == ledger["minutes"][d]
    IN  /\ task.throughput # None =>
               /\ task.pc \in {"disk_io", "apply", "joined"}
               /\ task.throughput.masked \/ IsFloor(task.throughput.calls)
               /\ task.pc # "joined" => task.sample # None
               /\ task.pc = "joined" =>
                      minutes.stored + Known(task.throughput.calls) <= minutes.shown
        /\ cache[d].throughput # None =>
               cache[d].throughput.masked \/ IsFloor(cache[d].throughput.calls)
        /\ minutes.stored <= minutes.shown

MinutesInv == \A d \in Db : ReadingsGrow(d) /\ MinutesAreBooked(d)

Inv == TypeInv /\ LoadInv /\ MinutesInv

-----------------------------------------------------------------------------
(* What the operators of StatsCache return and change.                     *)

LEMMA RatesType ==
    ASSUME NEW current \in HealthSample, NEW previous \in HealthSample \cup {None}
    PROVE  HealthRates(current, previous) \in WindowFigures \cup {None}
BY DEF HealthRates, Delta, HealthSample, WindowFigures

LEMMA KnownType ==
    ASSUME NEW figures \in WindowFigures \cup {None}
    PROVE  Known(figures) \in Nat
BY DEF Known, WindowFigures

\* Of the statements in both samples the risen ones are summed.
LEMMA CallsType ==
    ASSUME NEW current \in StatementsSample, NEW previous \in StatementsSample \cup {None}
    PROVE  CallsInWindow(current, previous) \in Nat \cup {None}
<1>1. CASE previous = None \/ Matched(current, previous) = {}
  BY <1>1 DEF CallsInWindow
<1>2. CASE ~(previous = None \/ Matched(current, previous) = {})
  <2>. DEFINE M == Matched(current, previous)
              f == [s \in M |-> Risen(current, previous, s)]
  <2>1. IsFiniteSet(M)
    BY StatementAssumption, FS_Subset DEF Matched
  <2>2. f \in [M -> Nat]
    <3>1. \A s \in M : QueryId[s] \in QueryIds
      BY DEF Matched, QueryIds
    <3>. QED
      BY <1>2, <3>1 DEF Matched, Risen, Delta, StatementsSample
  <2>3. SumFunction(f) \in Nat
    BY <2>1, <2>2, SumIsNatural
  <2>. QED
    BY <1>2, <2>3 DEF CallsInWindow
<1>. QED
  BY <1>1, <1>2

LEMMA MinuteType ==
    ASSUME NEW current \in StatementsSample, NEW previous \in StatementsSample \cup {None},
           NEW longest \in Nat
    PROVE  MinuteThroughput(current, previous, longest) \in Throughput
<1>1. CallsInWindow(current, previous) \in Nat \cup {None}
  BY CallsType
<1>2. current.work \in Nat /\ (previous # None => previous.work \in Nat)
  BY DEF StatementsSample
<1>3. (IF previous = None THEN FALSE ELSE Masked(previous)) \in BOOLEAN
  BY DEF Masked
<1>. QED
  BY <1>1, <1>2, <1>3 DEF MinuteThroughput, Throughput, WindowFigures

\* The sample of a slow tick is what the server has, under any order of its rows.
LEMMA SampleIsRead ==
    ASSUME NEW d \in Db, server[d] \in ServerState, SlowReadsStatements(d)
    PROVE  \E sample \in StatementsSample \cup {None} :
              /\ slow' = [slow EXCEPT ![d].pc = "drain", ![d].sample = sample]
              /\ sample # None => sample.calls = server[d].calls /\ sample.work = server[d].work
<1>1. PICK last \in LastInserted(server[d].calls) :
         slow' = [slow EXCEPT ![d].pc = "drain",
               ![d].sample = IF slow[d].caps.installed /\ server[d].up
                             THEN [calls |-> server[d].calls, work |-> server[d].work,
                                   by_query_id |-> [q \in QueryIds |-> server[d].calls[last[q]]]]
                             ELSE None]
  BY DEF SlowReadsStatements
<1>. DEFINE kept == [q \in QueryIds |-> server[d].calls[last[q]]]
            read == [calls |-> server[d].calls, work |-> server[d].work, by_query_id |-> kept]
            sample == IF slow[d].caps.installed /\ server[d].up THEN read ELSE None
<1>2. server[d].calls \in [Statement -> Nat] /\ server[d].work \in Nat
  BY DEF ServerState
<1>3. kept \in [QueryIds -> Nat]
  BY <1>2 DEF LastInserted
<1>. HIDE DEF kept
<1>4. read \in StatementsSample /\ read.calls = server[d].calls /\ read.work = server[d].work
  BY <1>2, <1>3 DEF StatementsSample
<1>5. slow' = [slow EXCEPT ![d].pc = "drain", ![d].sample = sample]
  BY <1>1 DEF kept
<1>. HIDE DEF read
<1>. QED
  BY <1>4, <1>5

LEMMA CapabilitiesEffect ==
    ASSUME CacheTypeOK, NEW d \in Db, NEW reached \in Capabilities,
           ApplyCapabilities(d, reached)
    PROVE  /\ CacheTypeOK'
           /\ \A e \in Db : /\ cache'[e].previous_health = cache[e].previous_health
                            /\ cache'[e].previous_statements = cache[e].previous_statements
                            /\ cache'[e].rates = cache[e].rates
                            /\ cache'[e].throughput = cache[e].throughput
<1>1. \A e \in Db : e # d => cache'[e] = cache[e]
  BY DEF ApplyCapabilities, CacheTypeOK
<1>2. cache'[d] = [cache[d] EXCEPT !.server = reached] /\ cache[d] \in CacheState
  BY DEF ApplyCapabilities, CacheTypeOK
<1>3. cache'[d] \in CacheState
  BY <1>2 DEF CacheState
<1>4. CacheTypeOK'
  BY <1>1, <1>3 DEF ApplyCapabilities, CacheTypeOK
<1>5. /\ cache'[d].previous_health = cache[d].previous_health
      /\ cache'[d].previous_statements = cache[d].previous_statements
      /\ cache'[d].rates = cache[d].rates /\ cache'[d].throughput = cache[d].throughput
  BY <1>2 DEF CacheState
<1>. QED
  BY <1>1, <1>4, <1>5

LEMMA FastTickEffect ==
    ASSUME CacheTypeOK, NEW d \in Db, NEW activity \in BOOLEAN,
           NEW sample \in HealthSample \cup {None}, NEW last_error \in BOOLEAN,
           ApplyFastTick(d, activity, sample, last_error)
    PROVE  /\ CacheTypeOK'
           /\ cache'[d].previous_health =
                 IF sample = None THEN cache[d].previous_health ELSE sample
           /\ cache'[d].rates = IF sample = None THEN None
                                ELSE HealthRates(sample, cache[d].previous_health)
           /\ \A e \in Db : /\ e # d => cache'[e] = cache[e]
                            /\ cache'[e].previous_statements = cache[e].previous_statements
                            /\ cache'[e].throughput = cache[e].throughput
                            /\ cache'[e].server = cache[e].server
<1>. DEFINE previous == cache[d].previous_health
            rates == IF sample = None THEN None ELSE HealthRates(sample, previous)
            kept == IF sample = None THEN previous ELSE sample
            act == StateOf(activity)
            health == StateOf(sample # None)
<1>1. cache' = [cache EXCEPT ![d].activity = act, ![d].health = health, ![d].rates = rates,
                             ![d].previous_health = kept, ![d].last_error = last_error]
  BY DEF ApplyFastTick
<1>2. previous \in HealthSample \cup {None}
  BY DEF CacheTypeOK, CacheState
<1>3. rates \in WindowFigures \cup {None} /\ kept \in HealthSample \cup {None}
  BY <1>2, RatesType
<1>4. {act, health} \subseteq SectionState
  BY DEF StateOf, SectionState
<1>. HIDE DEF rates, kept, act, health
<1>5. \A e \in Db : e # d => cache'[e] = cache[e]
  BY <1>1 DEF CacheTypeOK
<1>6. cache'[d] = [cache[d] EXCEPT !.activity = act, !.health = health, !.rates = rates,
                                   !.previous_health = kept, !.last_error = last_error]
  BY <1>1 DEF CacheTypeOK
<1>7. cache[d] \in CacheState
  BY DEF CacheTypeOK
<1>8. cache'[d].previous_health = kept /\ cache'[d].rates = rates
  BY <1>6, <1>7 DEF CacheState
<1>9. /\ cache'[d].previous_statements = cache[d].previous_statements
      /\ cache'[d].throughput = cache[d].throughput /\ cache'[d].server = cache[d].server
  BY <1>6, <1>7 DEF CacheState
<1>10. cache'[d] \in CacheState
  BY <1>3, <1>4, <1>6, <1>7 DEF CacheState
<1>11. CacheTypeOK'
  BY <1>1, <1>5, <1>10 DEF CacheTypeOK
<1>. QED
  BY <1>5, <1>8, <1>9, <1>11 DEF rates, kept

LEMMA SlowTickEffect ==
    ASSUME CacheTypeOK, NEW d \in Db, NEW reached \in Capabilities, NEW tables \in BOOLEAN,
           NEW sample \in StatementsSample \cup {None}, NEW disk_io \in BOOLEAN,
           NEW throughput \in Throughput \cup {None},
           ApplySlowTick(d, reached, tables, sample, disk_io, throughput)
    PROVE  /\ CacheTypeOK'
           /\ cache'[d].previous_statements =
                 IF sample = None THEN cache[d].previous_statements ELSE sample
           /\ cache'[d].throughput =
                 IF throughput = None THEN cache[d].throughput ELSE throughput
           /\ \A e \in Db : /\ e # d => cache'[e] = cache[e]
                            /\ cache'[e].previous_health = cache[e].previous_health
                            /\ cache'[e].rates = cache[e].rates
<1>. DEFINE shown == StateOf(sample # None)
            minute == IF throughput = None THEN cache[d].throughput ELSE throughput
            kept == IF sample = None THEN cache[d].previous_statements ELSE sample
<1>1. {StateOf(tables), shown, StateOf(disk_io)} \subseteq SectionState
  BY DEF StateOf, SectionState
<1>2. minute \in Throughput \cup {None} /\ kept \in StatementsSample \cup {None}
  BY DEF CacheTypeOK, CacheState
<1>3. cache' = [cache EXCEPT ![d].server = reached, ![d].tables = StateOf(tables),
                             ![d].statements = shown, ![d].disk_io = StateOf(disk_io),
                             ![d].throughput = minute, ![d].previous_statements = kept]
  BY DEF ApplySlowTick, CacheTypeOK, CacheState
<1>. HIDE DEF shown, minute, kept
<1>4. \A e \in Db : e # d => cache'[e] = cache[e]
  BY <1>3 DEF CacheTypeOK
<1>5. cache'[d] = [cache[d] EXCEPT
                      !.server = reached, !.tables = StateOf(tables), !.statements = shown,
                      !.disk_io = StateOf(disk_io), !.throughput = minute,
                      !.previous_statements = kept]
  BY <1>3 DEF CacheTypeOK
<1>6. cache[d] \in CacheState
  BY DEF CacheTypeOK
<1>7. cache'[d].previous_statements = kept /\ cache'[d].throughput = minute
  BY <1>5, <1>6 DEF CacheState
<1>8. cache'[d].previous_health = cache[d].previous_health /\ cache'[d].rates = cache[d].rates
  BY <1>5, <1>6 DEF CacheState
<1>9. cache'[d] \in CacheState
  BY <1>1, <1>2, <1>5, <1>6 DEF CacheState
<1>10. CacheTypeOK'
  BY <1>3, <1>4, <1>9 DEF CacheTypeOK
<1>. QED
  BY <1>4, <1>7, <1>8, <1>10 DEF minute, kept

-----------------------------------------------------------------------------
(* Types.                                                                  *)

LEMMA InitType == Init => TypeInv
<1>. SUFFICES ASSUME Init PROVE TypeInv
  OBVIOUS
<1>1. CacheTypeOK
  BY DEF Init, CacheInit, CacheTypeOK, CacheState, Capabilities, SectionState
<1>2. server \in [Db -> ServerState] /\ history \in HistoryState
  BY CollectorAssumption DEF Init, ServerState
<1>3. fast \in [Db -> FastTask] /\ slow \in [Db -> SlowTask] /\ hourly \in HourlyTick
  BY DEF Init, FastTask, FastIdle, SlowTask, SlowIdle, HourlyTick, HourlyIdle
<1>4. ledger \in [{"load", "minutes"} -> [Db -> Account]]
  BY DEF Init, Account
<1>. QED
  BY <1>1, <1>2, <1>3, <1>4 DEF Init, TypeInv, TypeOK, SlowIdle

\* Postgres executes a statement, resets the counters of the database, or
\* forgets those of a statement; anything else the collector does not read as
\* a counter.
Executes(old, new) ==
    /\ new.work = old.work + 1 /\ new.count = old.count + 1
    /\ new.stats_reset = old.stats_reset
    /\ \E s \in Statement : new.calls = [old.calls EXCEPT ![s] = @ + 1]
Resets(old, new) ==
    /\ new.work = old.work /\ new.stats_reset = old.stats_reset + 1
    /\ new.calls = old.calls
Forgets(old, new) ==
    /\ new.work = old.work /\ new.count = old.count /\ new.stats_reset = old.stats_reset
    /\ \E s \in Statement : new.calls = [old.calls EXCEPT ![s] = 0]
Counts(old, new) ==
    /\ new.work = old.work /\ new.count = old.count /\ new.stats_reset = old.stats_reset
    /\ new.calls = old.calls

LEMMA EnvironmentMoves ==
    ASSUME TypeInv, NEW d \in Db, Environment(d)
    PROVE  /\ server' \in [Db -> ServerState]
           /\ \A e \in Db : e # d => server'[e] = server[e]
           /\ \/ Executes(server[d], server'[d])
              \/ Resets(server[d], server'[d])
              \/ Forgets(server[d], server'[d])
              \/ Counts(server[d], server'[d])
           /\ UNCHANGED <<history, fast, slow, hourly, written, windows, write_error, ledger,
                          cache>>
<1>1. server[d] \in ServerState /\ server \in [Db -> ServerState]
  BY DEF TypeInv, TypeOK
<1>2. CASE Work(d)
  <2>1. PICK s \in Statement :
           server' = [server EXCEPT ![d].work = @ + 1, ![d].count = @ + 1,
                                    ![d].calls[s] = @ + 1]
    BY <1>2 DEF Work
  <2>. DEFINE work == server[d].work + 1
              count == server[d].count + 1
              calls == [server[d].calls EXCEPT ![s] = @ + 1]
  <2>2. work \in Nat /\ count \in Nat /\ calls \in [Statement -> Nat]
    BY <1>1 DEF ServerState
  <2>3. server' = [server EXCEPT ![d].work = work, ![d].count = count, ![d].calls = calls]
    BY <1>1, <2>1 DEF ServerState
  <2>. HIDE DEF work, count, calls
  <2>4. server' \in [Db -> ServerState] /\ \A e \in Db : e # d => server'[e] = server[e]
    BY <1>1, <2>2, <2>3 DEF ServerState
  <2>5. /\ server'[d].work = work /\ server'[d].count = count /\ server'[d].calls = calls
        /\ server'[d].stats_reset = server[d].stats_reset
    BY <1>1, <2>3 DEF ServerState
  <2>. QED
    BY <1>2, <2>4, <2>5 DEF Work, Executes, work, count, calls
<1>3. CASE ResetStats(d)
  <2>. DEFINE resets == server[d].stats_reset + 1
  <2>1. resets \in Nat
    BY <1>1 DEF ServerState
  <2>2. server' = [server EXCEPT ![d].count = 0, ![d].stats_reset = resets]
    BY <1>1, <1>3 DEF ResetStats, ServerState
  <2>. HIDE DEF resets
  <2>3. server' \in [Db -> ServerState] /\ \A e \in Db : e # d => server'[e] = server[e]
    BY <1>1, <2>1, <2>2 DEF ServerState
  <2>4. /\ server'[d].work = server[d].work /\ server'[d].stats_reset = resets
        /\ server'[d].calls = server[d].calls
    BY <1>1, <2>2 DEF ServerState
  <2>. QED
    BY <1>3, <2>3, <2>4 DEF ResetStats, Resets, resets
<1>4. CASE ResetStatement(d)
  <2>1. PICK s \in Statement : server' = [server EXCEPT ![d].calls[s] = 0]
    BY <1>4 DEF ResetStatement
  <2>. DEFINE calls == [server[d].calls EXCEPT ![s] = 0]
  <2>2. calls \in [Statement -> Nat]
    BY <1>1 DEF ServerState
  <2>3. server' = [server EXCEPT ![d].calls = calls]
    BY <1>1, <2>1 DEF ServerState
  <2>. HIDE DEF calls
  <2>4. server' \in [Db -> ServerState] /\ \A e \in Db : e # d => server'[e] = server[e]
    BY <1>1, <2>2, <2>3 DEF ServerState
  <2>5. /\ server'[d].work = server[d].work /\ server'[d].stats_reset = server[d].stats_reset
        /\ server'[d].count = server[d].count /\ server'[d].calls = calls
    BY <1>1, <2>3 DEF ServerState
  <2>. QED
    BY <1>4, <2>4, <2>5 DEF ResetStatement, Forgets, calls
<1>5. CASE ConnectionFlips(d)
  <2>. DEFINE up == ~server[d].up
  <2>1. server' = [server EXCEPT ![d].up = up]
    BY <1>1, <1>5 DEF ConnectionFlips
  <2>2. up \in BOOLEAN
    OBVIOUS
  <2>. HIDE DEF up
  <2>3. server' \in [Db -> ServerState]
    BY <1>1, <2>1, <2>2 DEF ServerState
  <2>4. \A e \in Db : e # d => server'[e] = server[e]
    BY <1>1, <2>1
  <2>5. Counts(server[d], server'[d])
    BY <1>1, <2>1 DEF Counts, ServerState
  <2>. QED
    BY <1>5, <2>3, <2>4, <2>5 DEF ConnectionFlips
<1>6. CASE CreateExtension(d)
  <2>1. server' = [server EXCEPT ![d].installed = TRUE]
    BY <1>6 DEF CreateExtension
  <2>2. server' \in [Db -> ServerState]
    BY <1>1, <2>1 DEF ServerState
  <2>3. \A e \in Db : e # d => server'[e] = server[e]
    BY <1>1, <2>1
  <2>4. Counts(server[d], server'[d])
    BY <1>1, <2>1 DEF Counts, ServerState
  <2>. QED
    BY <1>6, <2>2, <2>3, <2>4 DEF CreateExtension
<1>. QED
  BY <1>2, <1>3, <1>4, <1>5, <1>6 DEF Environment

LEMMA EnvironmentType ==
    ASSUME TypeInv, NEW d \in Db, Environment(d)
    PROVE  TypeInv'
BY EnvironmentMoves DEF TypeInv, TypeOK, CacheTypeOK, windows

\* Showing a window adds to the books what is known of it.
LEMMA ShowEffect ==
    ASSUME TypeInv, NEW kind \in {"load", "minutes"}, NEW d \in Db, NEW sample,
           sample # None => sample.work \in Nat,
           NEW figures \in WindowFigures \cup {None}, ledger' = Show(kind, d, sample, figures)
    PROVE  /\ ledger' \in [{"load", "minutes"} -> [Db -> Account]]
           /\ \A k \in {"load", "minutes"}, e \in Db :
                 ledger'[k][e].stored = ledger[k][e].stored
           /\ \A k \in {"load", "minutes"}, e \in Db :
                 k # kind \/ e # d => ledger'[k][e] = ledger[k][e]
           /\ ledger'[kind][d].shown =
                 ledger[kind][d].shown + IF sample = None THEN 0 ELSE Known(figures)
           /\ ledger'[kind][d].first = IF ledger[kind][d].first = None /\ sample # None
                                       THEN sample.work ELSE ledger[kind][d].first
<1>. DEFINE old == ledger[kind][d]
            first == IF old.first = None /\ sample # None THEN sample.work ELSE old.first
            more == IF sample = None THEN 0 ELSE Known(figures)
            account == [old EXCEPT !.first = IF @ = None /\ sample # None THEN sample.work ELSE @,
                                   !.shown = @ + IF sample = None THEN 0 ELSE Known(figures)]
<1>1. ledger \in [{"load", "minutes"} -> [Db -> Account]] /\ old \in Account
  BY DEF TypeInv, TypeOK
<1>2. first \in Nat \cup {None} /\ more \in Nat
  BY <1>1, KnownType DEF Account
<1>3. ledger' = [ledger EXCEPT ![kind][d] = account]
  <2>. HIDE DEF account
  <2>1. account = [old EXCEPT !.first = IF @ = None /\ sample # None THEN sample.work ELSE @,
                              !.shown = @ + IF sample = None THEN 0 ELSE Known(figures)]
    BY DEF account
  <2>. QED
    BY <1>1, <2>1 DEF Show
<1>4. account = [old EXCEPT !.first = first, !.shown = old.shown + more]
  OBVIOUS
<1>. HIDE DEF old, first, more, account
<1>5. old.shown + more \in Nat
  BY <1>1, <1>2 DEF Account
<1>6. account \in Account
  BY <1>1, <1>2, <1>4, <1>5 DEF Account
<1>7. account.stored = old.stored /\ account.first = first
  BY <1>1, <1>4 DEF Account
<1>8. account.shown = old.shown + more
  BY <1>1, <1>4, <1>5 DEF Account
<1>9. /\ ledger'[kind][d] = account
      /\ \A k \in {"load", "minutes"}, e \in Db :
            k # kind \/ e # d => ledger'[k][e] = ledger[k][e]
      /\ ledger' \in [{"load", "minutes"} -> [Db -> Account]]
  BY <1>1, <1>3, <1>6
<1>. QED
  BY <1>7, <1>8, <1>9 DEF old, first, more

\* Storing rows adds to the books of their databases, or to none of them.
LEMMA StoreEffect ==
    ASSUME TypeInv, NEW kind \in {"load", "minutes"}, NEW rows, DOMAIN rows \subseteq Db,
           \A d \in DOMAIN rows : rows[d] \in WindowFigures \cup {None},
           ledger' = Store(kind, rows)
    PROVE  /\ ledger' \in [{"load", "minutes"} -> [Db -> Account]]
           /\ \A k \in {"load", "minutes"}, e \in Db :
                 /\ ledger'[k][e].first = ledger[k][e].first
                 /\ ledger'[k][e].shown = ledger[k][e].shown
                 /\ k # kind \/ e \notin DOMAIN rows => ledger'[k][e] = ledger[k][e]
           /\ \A e \in DOMAIN rows :
                 ledger'[kind][e].stored \in
                     {ledger[kind][e].stored, ledger[kind][e].stored + Known(rows[e])}
<1>1. ledger \in [{"load", "minutes"} -> [Db -> Account]]
  BY DEF TypeInv, TypeOK
<1>2. CASE ledger' = ledger
  BY <1>1, <1>2
<1>3. CASE ledger' # ledger
  <2>. DEFINE new == [d \in Db |-> IF d \in DOMAIN rows
                                   THEN [ledger[kind][d] EXCEPT !.stored = @ + Known(rows[d])]
                                   ELSE ledger[kind][d]]
  <2>1. ledger' = [ledger EXCEPT ![kind] = new]
    <3>. HIDE DEF new
    <3>1. new = [d \in Db |-> IF d \in DOMAIN rows
                              THEN [ledger[kind][d] EXCEPT !.stored = @ + Known(rows[d])]
                              ELSE ledger[kind][d]]
      BY DEF new
    <3>. QED
      BY <1>1, <1>3, <3>1 DEF Store
  <2>2. ASSUME NEW d \in Db
        PROVE  /\ new[d] \in Account
               /\ new[d].first = ledger[kind][d].first /\ new[d].shown = ledger[kind][d].shown
               /\ d \notin DOMAIN rows => new[d] = ledger[kind][d]
               /\ d \in DOMAIN rows =>
                     new[d].stored = ledger[kind][d].stored + Known(rows[d])
    <3>1. ledger[kind][d] \in Account
      BY <1>1
    <3>2. CASE d \in DOMAIN rows
      <4>1. Known(rows[d]) \in Nat
        BY <3>2, KnownType
      <4>2. new[d] = [ledger[kind][d] EXCEPT !.stored = @ + Known(rows[d])]
        BY <3>2
      <4>. QED
        BY <3>1, <3>2, <4>1, <4>2 DEF Account
    <3>3. CASE d \notin DOMAIN rows
      BY <3>1, <3>3
    <3>. QED
      BY <3>2, <3>3
  <2>3. new \in [Db -> Account]
    BY <2>2
  <2>. HIDE DEF new
  <2>4. /\ ledger'[kind] = new /\ ledger' \in [{"load", "minutes"} -> [Db -> Account]]
        /\ \A k \in {"load", "minutes"} : k # kind => ledger'[k] = ledger[k]
    BY <1>1, <2>1, <2>3
  <2>. QED
    BY <2>2, <2>4
<1>. QED
  BY <1>2, <1>3


\* What a fast step leaves alone.
LEMMA FastStepType ==
    ASSUME TypeInv, NEW d \in Db, FastStep(d)
    PROVE  TypeInv'
<1>1. fast[d] \in FastTask /\ fast \in [Db -> FastTask] /\ server[d] \in ServerState
  BY DEF TypeInv, TypeOK
<1>2. CASE FastCapabilitiesCached(d)
  BY <1>1, <1>2 DEF FastCapabilitiesCached, TypeInv, TypeOK, CacheTypeOK, FastTask, external,
                    windows
<1>3. CASE FastReadsCapabilities(d)
  <2>1. ReadCapabilities(d) \in Capabilities \cup {None}
    BY <1>1 DEF ReadCapabilities, Capabilities, SectionState, ServerState
  <2>2. fast' \in [Db -> FastTask]
    BY <1>1, <1>3, <2>1 DEF FastReadsCapabilities, FastTask
  <2>. QED
    BY <1>3, <2>2 DEF FastReadsCapabilities, TypeInv, TypeOK, CacheTypeOK, external, windows
<1>4. CASE FastAppliesCapabilities(d)
  <2>. DEFINE read == IF fast[d].caps = None THEN Unreachable ELSE fast[d].caps
  <2>1. read \in Capabilities
    BY <1>1 DEF FastTask, Unreachable, Capabilities, SectionState
  <2>2. CacheTypeOK'
    <3>1. ApplyCapabilities(d, read)
      BY <1>4 DEF FastAppliesCapabilities
    <3>. HIDE DEF read
    <3>. QED
      BY <2>1, <3>1, CapabilitiesEffect DEF TypeInv, TypeOK
  <2>3. fast' \in [Db -> FastTask]
    BY <1>1, <1>4 DEF FastAppliesCapabilities, FastTask
  <2>. QED
    BY <1>4, <2>2, <2>3 DEF FastAppliesCapabilities, TypeInv, TypeOK, external, windows
<1>5. CASE FastAppliesUnreachable(d)
  <2>1. CacheTypeOK'
    BY <1>5, FastTickEffect DEF FastAppliesUnreachable, TypeInv, TypeOK
  <2>2. fast' \in [Db -> FastTask]
    BY <1>1, <1>5 DEF FastAppliesUnreachable, FastTask
  <2>. QED
    BY <1>5, <2>1, <2>2 DEF FastAppliesUnreachable, TypeInv, TypeOK, external, windows
<1>6. CASE FastReadsActivity(d)
  <2>1. PICK longest \in Longest \cup {None} :
           fast' = [fast EXCEPT ![d].pc = "health", ![d].longest = longest]
    BY <1>6 DEF FastReadsActivity
  <2>2. fast' \in [Db -> FastTask]
    BY <1>1, <2>1 DEF FastTask
  <2>. QED
    BY <1>6, <2>2 DEF FastReadsActivity, TypeInv, TypeOK, CacheTypeOK, external, windows
<1>7. CASE FastReadsHealth(d)
  <2>. DEFINE sample == IF server[d].up
                        THEN [count |-> server[d].count,
                              stats_reset |-> server[d].stats_reset, work |-> server[d].work]
                        ELSE None
  <2>1. sample \in HealthSample \cup {None}
    BY <1>1 DEF ServerState, HealthSample
  <2>2. fast' = [fast EXCEPT ![d].pc = "observe", ![d].sample = sample]
    BY <1>7 DEF FastReadsHealth
  <2>. HIDE DEF sample
  <2>3. fast' \in [Db -> FastTask]
    BY <1>1, <2>1, <2>2 DEF FastTask
  <2>. QED
    BY <1>7, <2>3 DEF FastReadsHealth, TypeInv, TypeOK, CacheTypeOK, external, windows
<1>8. CASE FastObserves(d)
  <2>1. fast' \in [Db -> FastTask]
    BY <1>1, <1>8 DEF FastObserves, FastTask
  <2>2. longest_seen' \in [Db -> Nat]
    <3>1. fast[d].longest \in Nat \cup {None}
      BY <1>1, CollectorAssumption DEF FastTask
    <3>2. longest_seen \in [Db -> Nat]
      BY DEF TypeInv, TypeOK
    <3>. QED
      BY <1>8, <3>1, <3>2 DEF FastObserves, Longer
  <2>. QED
    BY <1>8, <2>1, <2>2 DEF FastObserves, TypeInv, TypeOK, CacheTypeOK, external
<1>9. CASE FastApplies(d)
  <2>1. ApplyFastTick(d, fast[d].longest # None, fast[d].sample, FALSE)
    BY <1>9 DEF FastApplies
  <2>2. fast[d].sample \in HealthSample \cup {None}
    BY <1>1 DEF FastTask
  <2>3. CacheTypeOK'
    BY <2>1, <2>2, FastTickEffect DEF TypeInv, TypeOK
  <2>4. cache'[d].rates \in WindowFigures \cup {None}
    BY <2>3 DEF CacheTypeOK, CacheState
  <2>5. ledger' = Show("load", d, fast[d].sample, cache'[d].rates)
    BY <1>9 DEF FastApplies
  <2>6. ledger' \in [{"load", "minutes"} -> [Db -> Account]]
    BY <2>2, <2>4, <2>5, ShowEffect DEF HealthSample
  <2>7. fast' \in [Db -> FastTask]
    BY <1>1, <1>9 DEF FastApplies, FastTask
  <2>. QED
    BY <1>9, <2>3, <2>6, <2>7 DEF FastApplies, TypeInv, TypeOK, external, windows
<1>10. CASE FastReadsBack(d)
  <2>. DEFINE row == IF cache[d].health = "ready" \/ cache[d].activity = "ready"
                     THEN [rates |-> cache[d].rates]
                     ELSE None
  <2>1. row \in Row \cup {None}
    BY DEF TypeInv, TypeOK, CacheTypeOK, CacheState, Row
  <2>2. fast' = [fast EXCEPT ![d].pc = "joined", ![d].row = row]
    BY <1>10 DEF FastReadsBack
  <2>. HIDE DEF row
  <2>3. fast' \in [Db -> FastTask]
    BY <1>1, <2>1, <2>2 DEF FastTask
  <2>. QED
    BY <1>10, <2>3 DEF FastReadsBack, TypeInv, TypeOK, CacheTypeOK, external, windows
<1>. QED
  BY <1>2, <1>3, <1>4, <1>5, <1>6, <1>7, <1>8, <1>9, <1>10 DEF FastStep


LEMMA SlowStepType ==
    ASSUME TypeInv, NEW d \in Db, SlowStep(d)
    PROVE  TypeInv'
<1>1. /\ slow[d] \in SlowTask /\ slow \in [Db -> SlowTask] /\ server[d] \in ServerState
      /\ cache[d] \in CacheState
  BY DEF TypeInv, TypeOK, CacheTypeOK
<1>2. CASE SlowReadsCapabilities(d)
  <2>. DEFINE read == ReadCapabilities(d)
              pc == IF read = None THEN "apply_down" ELSE "tables"
  <2>1. read \in Capabilities \cup {None}
    BY <1>1 DEF ReadCapabilities, Capabilities, SectionState, ServerState
  <2>2. slow' = [slow EXCEPT ![d].pc = pc, ![d].caps = read]
    BY <1>2 DEF SlowReadsCapabilities
  <2>3. pc \in {"apply_down", "tables"} /\ (pc = "tables" => read \in Capabilities)
    BY <2>1
  <2>. HIDE DEF read, pc
  <2>4. slow' \in [Db -> SlowTask]
    BY <1>1, <2>1, <2>2, <2>3 DEF SlowTask
  <2>5. slow'[d].pc = pc /\ slow'[d].caps = read /\ \A e \in Db : e # d => slow'[e] = slow[e]
    BY <1>1, <2>2 DEF SlowTask
  <2>. QED
    BY <1>2, <2>3, <2>4, <2>5 DEF SlowReadsCapabilities, TypeInv, TypeOK, CacheTypeOK,
                                  external, windows
<1>3. CASE SlowAppliesUnreachable(d)
  <2>1. CacheTypeOK'
    <3>1. Unreachable \in Capabilities
      BY DEF Unreachable, Capabilities, SectionState
    <3>. QED
      BY <1>3, <3>1, SlowTickEffect DEF SlowAppliesUnreachable, TypeInv, TypeOK
  <2>2. slow' \in [Db -> SlowTask]
    BY <1>1, <1>3 DEF SlowAppliesUnreachable, SlowTask
  <2>3. slow'[d].pc = "joined" /\ \A e \in Db : e # d => slow'[e] = slow[e]
    BY <1>1, <1>3 DEF SlowAppliesUnreachable, SlowTask
  <2>. QED
    BY <1>3, <2>1, <2>2, <2>3 DEF SlowAppliesUnreachable, TypeInv, TypeOK, external, windows
<1>4. CASE SlowReadsTables(d)
  <2>1. server[d].up \in BOOLEAN
    BY <1>1 DEF ServerState
  <2>2. slow' \in [Db -> SlowTask]
    BY <1>1, <1>4, <2>1 DEF SlowReadsTables, SlowTask
  <2>3. slow'[d].caps = slow[d].caps /\ \A e \in Db : e # d => slow'[e] = slow[e]
    BY <1>1, <1>4 DEF SlowReadsTables, SlowTask
  <2>. QED
    BY <1>4, <2>2, <2>3 DEF SlowReadsTables, TypeInv, TypeOK, CacheTypeOK, external, windows
<1>5. CASE SlowReadsStatements(d)
  <2>1. PICK sample \in StatementsSample \cup {None} :
           slow' = [slow EXCEPT ![d].pc = "drain", ![d].sample = sample]
    BY <1>1, <1>5, SampleIsRead
  <2>3. slow' \in [Db -> SlowTask]
    BY <1>1, <2>1 DEF SlowTask
  <2>4. slow'[d].caps = slow[d].caps /\ \A e \in Db : e # d => slow'[e] = slow[e]
    BY <1>1, <2>1 DEF SlowTask
  <2>. QED
    BY <1>5, <2>3, <2>4 DEF SlowReadsStatements, TypeInv, TypeOK, CacheTypeOK, external, windows
<1>6. CASE SlowDrainsMinute(d)
  <2>. DEFINE sample == slow[d].sample
              throughput == IF sample = None THEN None
                            ELSE MinuteThroughput(sample, cache[d].previous_statements,
                                                  longest_seen_minute[d])
  <2>1. throughput \in Throughput \cup {None}
    <3>1. longest_seen_minute[d] \in Nat
      BY DEF TypeInv, TypeOK
    <3>2. /\ sample \in StatementsSample \cup {None}
          /\ cache[d].previous_statements \in StatementsSample \cup {None}
      BY <1>1 DEF SlowTask, CacheState
    <3>. QED
      BY <3>1, <3>2, MinuteType
  <2>2. slow' = [slow EXCEPT ![d].pc = "disk_io", ![d].throughput = throughput]
    BY <1>6 DEF SlowDrainsMinute
  <2>. HIDE DEF throughput, sample
  <2>3. slow' \in [Db -> SlowTask]
    BY <1>1, <2>1, <2>2 DEF SlowTask
  <2>4. slow'[d].caps = slow[d].caps /\ \A e \in Db : e # d => slow'[e] = slow[e]
    BY <1>1, <2>2 DEF SlowTask
  <2>5. longest_seen_minute' \in [Db -> Nat]
    BY <1>6 DEF SlowDrainsMinute, TypeInv, TypeOK
  <2>. QED
    BY <1>6, <2>3, <2>4, <2>5 DEF SlowDrainsMinute, TypeInv, TypeOK, CacheTypeOK, external
<1>7. CASE SlowReadsDiskIo(d)
  <2>1. server[d].up \in BOOLEAN
    BY <1>1 DEF ServerState
  <2>2. slow' \in [Db -> SlowTask]
    BY <1>1, <1>7, <2>1 DEF SlowReadsDiskIo, SlowTask
  <2>3. slow'[d].caps = slow[d].caps /\ \A e \in Db : e # d => slow'[e] = slow[e]
    BY <1>1, <1>7 DEF SlowReadsDiskIo, SlowTask
  <2>. QED
    BY <1>7, <2>2, <2>3 DEF SlowReadsDiskIo, TypeInv, TypeOK, CacheTypeOK, external, windows
<1>8. CASE SlowApplies(d)
  <2>. DEFINE t == slow[d]
              calls == IF t.throughput = None THEN None ELSE t.throughput.calls
  <2>1. /\ t.caps \in Capabilities /\ t.tables \in BOOLEAN /\ t.disk_io \in BOOLEAN
        /\ t.sample \in StatementsSample \cup {None}
        /\ t.throughput \in Throughput \cup {None}
    BY <1>1, <1>8 DEF SlowApplies, SlowTask, TypeInv
  <2>2. CacheTypeOK'
    <3>1. ApplySlowTick(d, t.caps, t.tables, t.sample, t.disk_io, t.throughput)
      BY <1>8 DEF SlowApplies
    <3>. HIDE DEF t
    <3>. QED
      BY <2>1, <3>1, SlowTickEffect DEF TypeInv, TypeOK
  <2>3. ledger' = Show("minutes", d, t.sample, calls)
    BY <1>8 DEF SlowApplies
  <2>4. calls \in WindowFigures \cup {None}
    BY <2>1 DEF Throughput
  <2>. HIDE DEF calls
  <2>5. ledger' \in [{"load", "minutes"} -> [Db -> Account]]
    BY <2>1, <2>3, <2>4, ShowEffect DEF StatementsSample
  <2>6. slow' = [slow EXCEPT ![d] = [SlowIdle EXCEPT !.pc = "joined",
                                                     !.throughput = t.throughput]]
    BY <1>8 DEF SlowApplies
  <2>. HIDE DEF t
  <2>7. /\ [SlowIdle EXCEPT !.pc = "joined", !.throughput = t.throughput] \in SlowTask
        /\ [SlowIdle EXCEPT !.pc = "joined", !.throughput = t.throughput].pc = "joined"
    BY <2>1 DEF SlowIdle, SlowTask
  <2>8. /\ slow' \in [Db -> SlowTask] /\ slow'[d].pc = "joined"
        /\ \A e \in Db : e # d => slow'[e] = slow[e]
    BY <1>1, <2>6, <2>7
  <2>. QED
    BY <1>8, <2>2, <2>5, <2>8 DEF SlowApplies, TypeInv, TypeOK, external, windows
<1>. QED
  BY <1>2, <1>3, <1>4, <1>5, <1>6, <1>7, <1>8 DEF SlowStep

LEMMA FastTimerType ==
    ASSUME TypeInv, FastTimer
    PROVE  TypeInv'
<1>1. CASE FastSpawn
  <2>1. fast' \in [Db -> FastTask]
    BY <1>1 DEF FastSpawn, FastIdle, FastTask
  <2>. QED
    BY <1>1, <2>1 DEF FastSpawn, TypeInv, TypeOK, CacheTypeOK, external, windows
<1>2. CASE FastWrites
  <2>. DEFINE rows == [d \in {e \in Db : fast[e].row # None} |-> fast[d].row.rates]
  <2>1. fast' \in [Db -> FastTask]
    BY <1>2 DEF FastWrites, FastIdle, FastTask
  <2>2. ledger' = Store("load", rows)
    BY <1>2 DEF FastWrites
  <2>3. DOMAIN rows \subseteq Db /\ \A d \in DOMAIN rows : rows[d] \in WindowFigures \cup {None}
    BY DEF TypeInv, TypeOK, FastTask, Row
  <2>. HIDE DEF rows
  <2>4. ledger' \in [{"load", "minutes"} -> [Db -> Account]]
    BY <2>2, <2>3, StoreEffect
  <2>5. written' \in [{"fast", "slow"} -> {"nothing", "ok", "failed"}]
    BY <1>2 DEF FastWrites, Outcome, TypeInv, TypeOK
  <2>. QED
    BY <1>2, <2>1, <2>4, <2>5 DEF FastWrites, TypeInv, TypeOK, CacheTypeOK, external, windows
<1>3. CASE FastReports
  BY <1>3 DEF FastReports, TypeInv, TypeOK, CacheTypeOK, external, windows
<1>. QED
  BY <1>1, <1>2, <1>3 DEF FastTimer

LEMMA SlowTimerType ==
    ASSUME TypeInv, SlowTimer
    PROVE  TypeInv'
<1>1. CASE SlowSpawn
  <2>1. slow' \in [Db -> SlowTask] /\ \A d \in Db : slow'[d].pc = "caps"
    BY <1>1 DEF SlowSpawn, SlowIdle, SlowTask
  <2>. QED
    BY <1>1, <2>1 DEF SlowSpawn, TypeInv, TypeOK, CacheTypeOK, external, windows
<1>2. CASE SlowWrites
  <2>. DEFINE HasFigure(t) == IF t = None THEN FALSE
                              ELSE t.calls.delta # None \/ t.longest > 0
              rows == [d \in {e \in Db : HasFigure(slow[e].throughput)} |->
                          slow[d].throughput.calls]
  <2>1. slow' \in [Db -> SlowTask] /\ \A d \in Db : slow'[d].pc = "idle"
    BY <1>2 DEF SlowWrites, SlowIdle, SlowTask
  <2>2. ledger' = Store("minutes", rows)
    BY <1>2 DEF SlowWrites
  <2>3. DOMAIN rows \subseteq Db /\ \A d \in DOMAIN rows : rows[d] \in WindowFigures \cup {None}
    <3>1. \A d \in DOMAIN rows : d \in Db /\ slow[d].throughput # None
      OBVIOUS
    <3>2. \A d \in Db : slow[d].throughput \in Throughput \cup {None}
      BY DEF TypeInv, TypeOK, SlowTask
    <3>. QED
      BY <3>1, <3>2 DEF Throughput
  <2>. HIDE DEF rows
  <2>4. ledger' \in [{"load", "minutes"} -> [Db -> Account]]
    BY <2>2, <2>3, StoreEffect
  <2>5. written' \in [{"fast", "slow"} -> {"nothing", "ok", "failed"}]
    BY <1>2 DEF SlowWrites, Outcome, TypeInv, TypeOK
  <2>. QED
    BY <1>2, <2>1, <2>4, <2>5 DEF SlowWrites, TypeInv, TypeOK, CacheTypeOK, external, windows
<1>3. CASE SlowReports
  BY <1>3 DEF SlowReports, TypeInv, TypeOK, CacheTypeOK, external, windows
<1>. QED
  BY <1>1, <1>2, <1>3 DEF SlowTimer

\* The hourly tick touches nothing but its own state, its window and the
\* report.
LEMMA HourlyMoves ==
    ASSUME TypeInv, HourlyTimer
    PROVE  /\ TypeInv'
           /\ UNCHANGED <<external, fast, slow, written, longest_seen_minute, ledger, cache>>
<1>0. hourly \in HourlyTick /\ longest_seen \in [Db -> Nat]
  BY DEF TypeInv, TypeOK
<1>1. hourly' \in HourlyTick /\ longest_seen' \in [Db -> Nat] /\ write_error' \in BOOLEAN
  <2>1. CASE HourlyDisabled \/ HourlyStarts
    <3>1. CASE HourlyDisabled
      BY <1>0, <3>1 DEF HourlyDisabled, TypeInv, TypeOK
    <3>2. CASE HourlyStarts
      <4>1. hourly' \in HourlyTick
        BY <3>2 DEF HourlyStarts, HourlyIdle, HourlyTick
      <4>. QED
        BY <1>0, <3>2, <4>1 DEF HourlyStarts, TypeInv, TypeOK, windows
    <3>. QED
      BY <2>1, <3>1, <3>2
  <2>2. CASE \E d \in Db : HourlyDrains(d)
    <3>1. PICK d \in Db : HourlyDrains(d)
      BY <2>2
    <3>. DEFINE has_rows == \/ cache[d].tables = "ready"
                            \/ cache[d].statements = "ready"
                            \/ longest_seen[d] > 0
    <3>2. hourly' = [hourly EXCEPT !.pc = "write", !.todo = @ \ {d}, !.has_rows = has_rows]
      BY <3>1 DEF HourlyDrains
    <3>3. has_rows \in BOOLEAN
      OBVIOUS
    <3>. HIDE DEF has_rows
    <3>4. hourly' \in HourlyTick
      BY <1>0, <3>2, <3>3 DEF HourlyTick
    <3>. QED
      BY <1>0, <3>1, <3>4 DEF HourlyDrains, TypeInv, TypeOK
  <2>3. CASE HourlyWrites \/ HourlySweeps
    <3>1. PICK pc \in {"sweep", "drain", "report"}, failed \in BOOLEAN, has_rows \in BOOLEAN :
             hourly' = [hourly EXCEPT !.pc = pc, !.has_rows = has_rows, !.failed = failed]
      <4>1. CASE HourlyWrites
        <5>1. (hourly.failed \/ (hourly.has_rows /\ Outcome = "failed")) \in BOOLEAN
          OBVIOUS
        <5>2. (IF hourly.todo = {} THEN "sweep" ELSE "drain") \in {"sweep", "drain", "report"}
          OBVIOUS
        <5>. QED
          BY <4>1, <5>1, <5>2 DEF HourlyWrites
      <4>2. CASE HourlySweeps
        <5>1. (hourly.failed \/ Outcome = "failed") \in BOOLEAN /\ hourly.has_rows \in BOOLEAN
          BY <1>0 DEF HourlyTick
        <5>2. hourly' = [hourly EXCEPT !.pc = "report", !.has_rows = hourly.has_rows,
                                       !.failed = (hourly.failed \/ Outcome = "failed")]
          BY <1>0, <4>2 DEF HourlySweeps, HourlyTick
        <5>. QED
          BY <5>1, <5>2
      <4>. QED
        BY <2>3, <4>1, <4>2
    <3>2. hourly' \in HourlyTick
      BY <1>0, <3>1 DEF HourlyTick
    <3>. QED
      BY <1>0, <2>3, <3>2 DEF HourlyWrites, HourlySweeps, TypeInv, TypeOK, windows
  <2>4. CASE HourlyReports
    <3>1. hourly' \in HourlyTick /\ longest_seen' = longest_seen
      BY <2>4 DEF HourlyReports, HourlyIdle, HourlyTick, windows
    <3>2. (write_error \/ hourly.failed) \in BOOLEAN
      OBVIOUS
    <3>3. write_error' \in BOOLEAN
      BY <2>4, <3>2 DEF HourlyReports
    <3>. QED
      BY <1>0, <3>1, <3>3
  <2>. QED
    BY <2>1, <2>2, <2>3, <2>4 DEF HourlyTimer
<1>2. UNCHANGED <<external, fast, slow, written, longest_seen_minute, ledger, cache>>
  BY DEF HourlyTimer, HourlyDisabled, HourlyStarts, HourlyDrains, HourlyWrites, HourlySweeps,
         HourlyReports, windows
<1>. QED
  BY <1>1, <1>2 DEF TypeInv, TypeOK, CacheTypeOK, external


LEMMA TypeStep == TypeInv /\ [Next]_vars => TypeInv'
<1>. SUFFICES ASSUME TypeInv, [Next]_vars PROVE TypeInv'
  OBVIOUS
<1>1. ASSUME NEW d \in Db, Environment(d) \/ FastStep(d) \/ SlowStep(d) PROVE TypeInv'
  BY <1>1, EnvironmentType, FastStepType, SlowStepType
<1>2. CASE DiskFlips
  BY <1>2 DEF DiskFlips, HistoryState, TypeInv, TypeOK, CacheTypeOK, windows
<1>3. CASE FastTimer \/ SlowTimer \/ HourlyTimer
  BY <1>3, FastTimerType, SlowTimerType, HourlyMoves
<1>4. CASE UNCHANGED vars
  BY <1>4 DEF vars, external, windows, TypeInv, TypeOK, CacheTypeOK
<1>. QED
  BY <1>1, <1>2, <1>3, <1>4 DEF Next

-----------------------------------------------------------------------------
(* The readings of pg_stat_database.                                       *)

LEMMA FollowsServer ==
    ASSUME NEW x \in HealthSample, NEW old \in ServerState, NEW new \in ServerState,
           Follows(x, old), Executes(old, new) \/ Resets(old, new) \/ Forgets(old, new)
                                \/ Counts(old, new)
    PROVE  Follows(x, new)
<1>1. /\ x.work \in Nat /\ x.count \in Nat /\ x.stats_reset \in Nat
      /\ old.work \in Nat /\ old.count \in Nat /\ old.stats_reset \in Nat
      /\ new.work \in Nat /\ new.count \in Nat /\ new.stats_reset \in Nat
  BY DEF HealthSample, ServerState
<1>2. CASE Executes(old, new)
  BY <1>1, <1>2 DEF Follows, Executes
<1>3. CASE Resets(old, new)
  BY <1>1, <1>3 DEF Follows, Resets
<1>4. CASE Forgets(old, new) \/ Counts(old, new)
  BY <1>1, <1>4 DEF Follows, Forgets, Counts
<1>. QED
  BY <1>2, <1>3, <1>4

-----------------------------------------------------------------------------
(* What a step does to the load of one database.                           *)

LoadReport(d) == <<cache[d].previous_health, cache[d].rates, ledger["load"][d]>>

\* Nothing, but for the task moving on.
LoadStill(d) ==
    /\ UNCHANGED <<server[d], LoadReport(d), fast[d].sample, fast[d].row>>
    /\ fast'[d].pc = "read_back" => fast[d].pc = "read_back"

ServerRuns(d) ==
    /\ UNCHANGED <<LoadReport(d), fast[d]>>
    /\ \/ Executes(server[d], server'[d]) \/ Resets(server[d], server'[d])
       \/ Forgets(server[d], server'[d]) \/ Counts(server[d], server'[d])

LoadRead(d) ==
    /\ UNCHANGED <<server[d], LoadReport(d), fast[d].row>>
    /\ fast'[d].pc # "read_back"
    /\ fast'[d].sample # None =>
          fast'[d].sample = [count |-> server[d].count, stats_reset |-> server[d].stats_reset,
                             work |-> server[d].work]

LoadShown(d) ==
    LET sample == fast[d].sample
        last == cache[d].previous_health
        old == ledger["load"][d]
        new == ledger'["load"][d]
    IN  /\ UNCHANGED <<server[d], fast[d].row>>
        /\ fast'[d].sample = None
        /\ cache'[d].previous_health = IF sample = None THEN last ELSE sample
        /\ cache'[d].rates = IF sample = None THEN None ELSE HealthRates(sample, last)
        /\ new.first = IF old.first = None /\ sample # None THEN sample.work ELSE old.first
        /\ new.shown = old.shown + IF sample = None THEN 0 ELSE Known(cache'[d].rates)
        /\ new.stored = old.stored

LoadDown(d) ==
    /\ UNCHANGED <<server[d], cache[d].previous_health, ledger["load"][d], fast[d].sample,
                   fast[d].row>>
    /\ cache'[d].rates = None
    /\ fast'[d].pc # "read_back"

LoadReadBack(d) ==
    /\ UNCHANGED <<server[d], LoadReport(d), fast[d].sample>>
    /\ fast[d].pc = "read_back" /\ fast'[d].pc # "read_back"
    /\ fast'[d].row # None => fast'[d].row = [rates |-> cache[d].rates]

LoadStored(d) ==
    LET old == ledger["load"][d]
        new == ledger'["load"][d]
    IN  /\ UNCHANGED <<server[d], cache[d].previous_health, cache[d].rates>>
        /\ fast'[d].sample = None /\ fast'[d].row = None /\ fast'[d].pc # "read_back"
        /\ new.first = old.first /\ new.shown = old.shown
        /\ \/ new.stored = old.stored
           \/ fast[d].row # None /\ new.stored = old.stored + Known(fast[d].row.rates)

LoadMove(d) ==
    \/ LoadStill(d) \/ ServerRuns(d) \/ LoadRead(d) \/ LoadShown(d) \/ LoadDown(d)
    \/ LoadReadBack(d) \/ LoadStored(d)

\* Each of these keeps the part of the invariant that is about the load.
LEMMA LoadMoveKeeps ==
    ASSUME TypeInv, TypeInv', NEW d \in Db, LoadMove(d),
           ReadingsFollow(d), RateIsExact(d), LoadIsBooked(d)
    PROVE  ReadingsFollow(d)' /\ RateIsExact(d)' /\ LoadIsBooked(d)'
<1>. DEFINE sample == fast[d].sample
            last == cache[d].previous_health
            load == ledger["load"][d]
<1>1. /\ sample \in HealthSample \cup {None} /\ last \in HealthSample \cup {None}
      /\ server[d] \in ServerState /\ cache[d].rates \in WindowFigures \cup {None}
      /\ load.first \in Nat \cup {None} /\ load.shown \in Nat /\ load.stored \in Nat
      /\ fast[d].row \in Row \cup {None}
  BY DEF TypeInv, TypeOK, CacheTypeOK, CacheState, FastTask, Account
<1>2. /\ fast'[d].sample \in HealthSample \cup {None}
      /\ cache'[d].previous_health \in HealthSample \cup {None}
      /\ server'[d] \in ServerState /\ cache'[d].rates \in WindowFigures \cup {None}
      /\ ledger'["load"][d].first \in Nat \cup {None} /\ ledger'["load"][d].shown \in Nat
      /\ ledger'["load"][d].stored \in Nat
      /\ fast'[d].row \in Row \cup {None}
  BY DEF TypeInv, TypeOK, CacheTypeOK, CacheState, FastTask, Account
<1>3. CASE LoadStill(d)
  BY <1>3 DEF LoadStill, LoadReport, ReadingsFollow, RateIsExact, LoadIsBooked
<1>4. CASE ServerRuns(d)
  <2>1. ReadingsFollow(d)'
    BY <1>1, <1>2, <1>4, FollowsServer DEF ServerRuns, LoadReport, ReadingsFollow
  <2>2. server'[d].stats_reset = 0 => server[d].stats_reset = 0
    BY <1>1, <1>2, <1>4 DEF ServerRuns, Executes, Resets, Forgets, Counts, ServerState
  <2>. QED
    BY <1>4, <2>1, <2>2 DEF ServerRuns, LoadReport, RateIsExact, LoadIsBooked
<1>5. CASE LoadRead(d)
  <2>1. ReadingsFollow(d)'
    BY <1>1, <1>2, <1>5 DEF LoadRead, LoadReport, ReadingsFollow, Follows, HealthSample,
                            ServerState
  <2>. QED
    BY <1>5, <2>1 DEF LoadRead, LoadReport, RateIsExact, LoadIsBooked
<1>6. CASE LoadShown(d)
  <2>1. ReadingsFollow(d)'
    BY <1>6 DEF LoadShown, ReadingsFollow
  <2>2. CASE sample = None
    <3>1. RateIsExact(d)' /\ Known(cache'[d].rates) = 0
      BY <1>6, <2>2 DEF LoadShown, RateIsExact, Known
    <3>. QED
      BY <1>1, <1>2, <1>6, <2>1, <2>2, <3>1 DEF LoadShown, LoadIsBooked
  <2>3. CASE sample # None /\ last = None
    <3>1. cache'[d].rates = None /\ Known(cache'[d].rates) = 0
      BY <1>6, <2>3 DEF LoadShown, HealthRates, Known
    <3>2. sample.work \in Nat
      BY <1>1, <2>3 DEF HealthSample
    <3>3. RateIsExact(d)'
      BY <3>1 DEF RateIsExact
    <3>4. LoadIsBooked(d)'
      BY <1>1, <1>2, <1>6, <2>3, <3>1, <3>2, NoneAssumption DEF LoadShown, LoadIsBooked
    <3>. QED
      BY <2>1, <3>3, <3>4
  <2>4. CASE sample # None /\ last # None
    <3>. DEFINE rates == HealthRates(sample, last)
                known == Known(rates)
    <3>1. /\ sample.work \in Nat /\ sample.count \in Nat /\ sample.stats_reset \in Nat
          /\ last.work \in Nat /\ last.count \in Nat /\ last.stats_reset \in Nat
      BY <1>1, <2>4 DEF HealthSample
    <3>2. Follows(last, sample) /\ Follows(sample, server[d])
      BY <2>4 DEF ReadingsFollow
    <3>3. CASE sample.stats_reset = last.stats_reset
      <4>1. sample.count - last.count = sample.work - last.work /\ sample.count >= last.count
        BY <3>1, <3>2, <3>3 DEF Follows
      <4>2. rates = [delta |-> sample.count - last.count, from |-> last.work,
                     upto |-> sample.work]
        BY <2>4, <3>1, <3>3, <4>1 DEF HealthRates, Delta
      <4>3. known = sample.count - last.count
        <5>1. sample.count - last.count \in Nat
          BY <3>1, <4>1
        <5>2. rates \in WindowFigures
          BY <3>1, <4>2, <5>1 DEF WindowFigures
        <5>3. rates # None /\ rates.delta = sample.count - last.count /\ rates.delta # None
          BY <4>2, <5>1, <5>2, NoneAssumption
        <5>. QED
          BY <5>3 DEF Known
      <4>4. /\ cache'[d].rates = rates /\ cache'[d].previous_health = sample
            /\ ledger'["load"][d].first = load.first
            /\ ledger'["load"][d].shown = load.shown + known
            /\ ledger'["load"][d].stored = load.stored
            /\ fast'[d].row = fast[d].row /\ server'[d] = server[d]
        BY <1>6, <2>4 DEF LoadShown, LoadIsBooked
      <4>5. RateIsExact(d)'
        BY <3>1, <4>1, <4>2, <4>4 DEF RateIsExact
      <4>6. known = sample.work - last.work /\ known \in Nat
        BY <3>1, <4>1, <4>3
      <4>. HIDE DEF rates, known
      <4>7. /\ load.first # None /\ load.stored <= load.shown
            /\ server[d].stats_reset = 0 => load.first + load.shown = last.work
            /\ fast[d].row # None => load.stored + Known(fast[d].row.rates) <= load.shown
        BY <2>4 DEF LoadIsBooked
      <4>8. Known(cache'[d].rates) = known
        BY <4>4 DEF known
      <4>9. fast[d].row # None => Known(fast[d].row.rates) \in Nat
        BY <1>1, KnownType DEF Row
      <4>10. load.first \in Nat
        BY <1>1, <4>7
      <4>11. LoadIsBooked(d)'
        BY <1>1, <2>4, <3>1, <4>4, <4>6, <4>7, <4>8, <4>9, <4>10 DEF LoadIsBooked
      <4>. QED
        BY <2>1, <4>5, <4>11
    <3>4. CASE sample.stats_reset # last.stats_reset
      <4>1. cache'[d].rates = None
        BY <1>6, <2>4, <3>4 DEF LoadShown, HealthRates
      <4>2. server[d].stats_reset # 0
        BY <1>1, <3>1, <3>2, <3>4 DEF Follows, ServerState
      <4>3. Known(cache'[d].rates) = 0
        BY <4>1 DEF Known
      <4>4. RateIsExact(d)'
        BY <4>1 DEF RateIsExact
      <4>5. LoadIsBooked(d)'
        BY <1>1, <1>6, <2>4, <4>2, <4>3 DEF LoadShown, LoadIsBooked
      <4>. QED
        BY <2>1, <4>4, <4>5
    <3>. QED
      BY <3>3, <3>4
  <2>. QED
    BY <2>2, <2>3, <2>4
<1>7. CASE LoadDown(d)
  <2>1. ReadingsFollow(d)' /\ RateIsExact(d)'
    BY <1>7 DEF LoadDown, ReadingsFollow, RateIsExact
  <2>. QED
    BY <1>7, <2>1 DEF LoadDown, LoadIsBooked
<1>8. CASE LoadReadBack(d)
  <2>1. ReadingsFollow(d)' /\ RateIsExact(d)'
    BY <1>8 DEF LoadReadBack, LoadReport, ReadingsFollow, RateIsExact
  <2>2. LoadIsBooked(d)'
    BY <1>8 DEF LoadReadBack, LoadReport, LoadIsBooked
  <2>. QED
    BY <2>1, <2>2
<1>9. CASE LoadStored(d)
  <2>1. ReadingsFollow(d)' /\ RateIsExact(d)'
    BY <1>9 DEF LoadStored, ReadingsFollow, RateIsExact
  <2>2. LoadIsBooked(d)'
    BY <1>1, <1>9 DEF LoadStored, LoadIsBooked
  <2>. QED
    BY <2>1, <2>2
<1>. QED
  BY <1>3, <1>4, <1>5, <1>6, <1>7, <1>8, <1>9 DEF LoadMove

\* A step of another database, or one that the load has no part in.
LEMMA Elsewhere ==
    ASSUME NEW d \in Db, server'[d] = server[d], cache'[d].previous_health = cache[d].previous_health,
           cache'[d].rates = cache[d].rates, ledger'["load"][d] = ledger["load"][d],
           fast'[d] = fast[d]
    PROVE  LoadMove(d)
BY DEF LoadMove, LoadStill, LoadReport

LEMMA FastStepMovesLoad ==
    ASSUME TypeInv, NEW d \in Db, FastStep(d), NEW e \in Db
    PROVE  LoadMove(e)
<1>1. /\ fast[d] \in FastTask /\ fast \in [Db -> FastTask] /\ server[d] \in ServerState
      /\ CacheTypeOK /\ cache[d] \in CacheState
      /\ ledger \in [{"load", "minutes"} -> [Db -> Account]]
  BY DEF TypeInv, TypeOK, CacheTypeOK
<1>2. CASE FastCapabilitiesCached(d) \/ FastReadsCapabilities(d) \/ FastReadsActivity(d)
           \/ FastObserves(d)
  <2>1. PICK task \in {fast'[d]} :
           /\ fast' = [fast EXCEPT ![d] = task] /\ task.sample = fast[d].sample
           /\ task.row = fast[d].row /\ task.pc # "read_back"
    <3>1. CASE FastCapabilitiesCached(d)
      BY <1>1, <3>1 DEF FastCapabilitiesCached, FastTask
    <3>2. CASE FastReadsCapabilities(d)
      BY <1>1, <3>2 DEF FastReadsCapabilities, FastTask
    <3>3. CASE FastReadsActivity(d)
      <4>1. PICK longest \in Longest \cup {None} :
               fast' = [fast EXCEPT ![d].pc = "health", ![d].longest = longest]
        BY <3>3 DEF FastReadsActivity
      <4>. QED
        BY <1>1, <4>1 DEF FastTask
    <3>4. CASE FastObserves(d)
      BY <1>1, <3>4 DEF FastObserves, FastTask
    <3>. QED
      BY <1>2, <3>1, <3>2, <3>3, <3>4
  <2>2. UNCHANGED <<external, ledger, cache>>
    BY <1>2 DEF FastCapabilitiesCached, FastReadsCapabilities, FastReadsActivity, FastObserves
  <2>. QED
    BY <1>1, <2>1, <2>2 DEF LoadMove, LoadStill, LoadReport, external
<1>3. CASE FastAppliesCapabilities(d)
  <2>1. (IF fast[d].caps = None THEN Unreachable ELSE fast[d].caps) \in Capabilities
    BY <1>1 DEF FastTask, Unreachable, Capabilities, SectionState
  <2>2. /\ cache'[e].previous_health = cache[e].previous_health
        /\ cache'[e].rates = cache[e].rates
    BY <1>1, <1>3, <2>1, CapabilitiesEffect DEF FastAppliesCapabilities
  <2>3. CASE e # d
    BY <1>1, <1>3, <2>2, <2>3, Elsewhere DEF FastAppliesCapabilities, external
  <2>4. CASE e = d
    <3>1. /\ fast'[d].sample = fast[d].sample /\ fast'[d].row = fast[d].row
          /\ fast'[d].pc # "read_back"
      BY <1>1, <1>3 DEF FastAppliesCapabilities, FastTask
    <3>. QED
      BY <1>3, <2>2, <2>4, <3>1 DEF FastAppliesCapabilities, LoadMove, LoadStill, LoadReport,
                                    external
  <2>. QED
    BY <2>3, <2>4
<1>4. CASE FastAppliesUnreachable(d)
  <2>1. ApplyFastTick(d, FALSE, None, TRUE)
    BY <1>4 DEF FastAppliesUnreachable
  <2>2. /\ cache'[d].previous_health = cache[d].previous_health /\ cache'[d].rates = None
        /\ \A f \in Db : f # d => cache'[f] = cache[f]
    BY <1>1, <2>1, FastTickEffect
  <2>3. CASE e # d
    BY <1>1, <1>4, <2>2, <2>3, Elsewhere DEF FastAppliesUnreachable, external
  <2>4. CASE e = d
    <3>1. /\ fast'[d].sample = fast[d].sample /\ fast'[d].row = fast[d].row
          /\ fast'[d].pc # "read_back"
      BY <1>1, <1>4 DEF FastAppliesUnreachable, FastTask
    <3>. QED
      BY <1>4, <2>2, <2>4, <3>1 DEF FastAppliesUnreachable, LoadMove, LoadDown, external
  <2>. QED
    BY <2>3, <2>4
<1>5. CASE FastReadsHealth(d)
  <2>. DEFINE read == [count |-> server[d].count, stats_reset |-> server[d].stats_reset,
                       work |-> server[d].work]
  <2>1. PICK sample \in {read, None} :
           fast' = [fast EXCEPT ![d].pc = "observe", ![d].sample = sample]
    BY <1>5 DEF FastReadsHealth
  <2>. HIDE DEF read
  <2>2. CASE e # d
    BY <1>1, <1>5, <2>1, <2>2, Elsewhere DEF FastReadsHealth, external
  <2>3. CASE e = d
    <3>1. /\ fast'[d].sample = sample /\ fast'[d].row = fast[d].row
          /\ fast'[d].pc # "read_back"
      BY <1>1, <2>1 DEF FastTask
    <3>. QED
      BY <1>5, <2>1, <2>3, <3>1 DEF FastReadsHealth, LoadMove, LoadRead, LoadReport, external, read
  <2>. QED
    BY <2>2, <2>3
<1>6. CASE FastApplies(d)
  <2>. DEFINE sample == fast[d].sample
              last == cache[d].previous_health
  <2>1. ApplyFastTick(d, fast[d].longest # None, sample, FALSE)
    BY <1>6 DEF FastApplies
  <2>2. sample \in HealthSample \cup {None}
    BY <1>1 DEF FastTask
  <2>3. /\ CacheTypeOK'
        /\ cache'[d].previous_health = IF sample = None THEN last ELSE sample
        /\ cache'[d].rates = IF sample = None THEN None ELSE HealthRates(sample, last)
        /\ \A f \in Db : f # d => cache'[f] = cache[f]
    BY <1>1, <2>1, <2>2, FastTickEffect
  <2>4. cache'[d].rates \in WindowFigures \cup {None}
    BY <2>3 DEF CacheTypeOK, CacheState
  <2>5. ledger' = Show("load", d, sample, cache'[d].rates)
    BY <1>6 DEF FastApplies
  <2>6. sample # None => sample.work \in Nat
    BY <2>2 DEF HealthSample
  <2>. HIDE DEF sample
  <2>7. /\ ledger'["load"][d].stored = ledger["load"][d].stored
        /\ \A f \in Db : f # d => ledger'["load"][f] = ledger["load"][f]
        /\ ledger'["load"][d].shown =
              ledger["load"][d].shown + IF sample = None THEN 0 ELSE Known(cache'[d].rates)
        /\ ledger'["load"][d].first = IF ledger["load"][d].first = None /\ sample # None
                                      THEN sample.work ELSE ledger["load"][d].first
    BY <2>4, <2>5, <2>6, ShowEffect
  <2>8. CASE e # d
    BY <1>1, <1>6, <2>3, <2>7, <2>8, Elsewhere DEF FastApplies, external
  <2>9. CASE e = d
    <3>1. fast'[d].sample = None /\ fast'[d].row = fast[d].row
      BY <1>1, <1>6 DEF FastApplies, FastTask
    <3>2. UNCHANGED server[d]
      BY <1>6 DEF FastApplies, external
    <3>3. LoadShown(d)
      BY <2>3, <2>7, <3>1, <3>2 DEF LoadShown, sample
    <3>. QED
      BY <2>9, <3>3 DEF LoadMove
  <2>. QED
    BY <2>8, <2>9
<1>7. CASE FastReadsBack(d)
  <2>1. PICK row \in {[rates |-> cache[d].rates], None} :
           fast' = [fast EXCEPT ![d].pc = "joined", ![d].row = row]
    BY <1>7 DEF FastReadsBack
  <2>2. CASE e # d
    BY <1>1, <1>7, <2>1, <2>2, Elsewhere DEF FastReadsBack, external
  <2>3. CASE e = d
    <3>1. /\ fast'[d].row = row /\ fast'[d].sample = fast[d].sample
          /\ fast'[d].pc # "read_back"
      BY <1>1, <2>1 DEF FastTask
    <3>. QED
      BY <1>7, <2>1, <2>3, <3>1 DEF FastReadsBack, LoadMove, LoadReadBack, LoadReport, external
  <2>. QED
    BY <2>2, <2>3
<1>. QED
  BY <1>2, <1>3, <1>4, <1>5, <1>6, <1>7 DEF FastStep

LEMMA FastTimerMovesLoad ==
    ASSUME TypeInv, FastTimer, NEW e \in Db
    PROVE  LoadMove(e)
<1>1. CASE FastSpawn
  BY <1>1 DEF FastSpawn, FastIdle, LoadMove, LoadStored, external
<1>2. CASE FastWrites
  <2>. DEFINE rows == [d \in {c \in Db : fast[c].row # None} |-> fast[d].row.rates]
  <2>1. /\ fast'[e].sample = None /\ fast'[e].row = None /\ fast'[e].pc # "read_back"
        /\ server' = server /\ cache' = cache
    BY <1>2 DEF FastWrites, FastIdle, external
  <2>2. ledger' = Store("load", rows)
    BY <1>2 DEF FastWrites
  <2>3. DOMAIN rows \subseteq Db /\ \A d \in DOMAIN rows : rows[d] \in WindowFigures \cup {None}
    BY DEF TypeInv, TypeOK, FastTask, Row
  <2>4. e \in DOMAIN rows => fast[e].row # None /\ rows[e] = fast[e].row.rates
    OBVIOUS
  <2>. HIDE DEF rows
  <2>5. /\ ledger'["load"][e].first = ledger["load"][e].first
        /\ ledger'["load"][e].shown = ledger["load"][e].shown
        /\ e \notin DOMAIN rows => ledger'["load"][e] = ledger["load"][e]
        /\ e \in DOMAIN rows => ledger'["load"][e].stored \in
              {ledger["load"][e].stored, ledger["load"][e].stored + Known(rows[e])}
    BY <2>2, <2>3, StoreEffect
  <2>. QED
    BY <2>1, <2>4, <2>5 DEF LoadMove, LoadStored
<1>3. CASE FastReports
  BY <1>3, Elsewhere DEF FastReports, external
<1>. QED
  BY <1>1, <1>2, <1>3 DEF FastTimer

LEMMA SlowStepMovesLoad ==
    ASSUME TypeInv, NEW d \in Db, SlowStep(d), NEW e \in Db
    PROVE  LoadMove(e)
<1>1. /\ slow[d] \in SlowTask /\ CacheTypeOK /\ cache[d] \in CacheState
  BY DEF TypeInv, TypeOK, CacheTypeOK
<1>2. server' = server /\ fast' = fast
  BY DEF SlowStep, SlowReadsCapabilities, SlowAppliesUnreachable, SlowReadsTables,
         SlowReadsStatements, SlowDrainsMinute, SlowReadsDiskIo, SlowApplies, external
<1>3. CASE SlowAppliesUnreachable(d)
  <2>1. Unreachable \in Capabilities
    BY DEF Unreachable, Capabilities, SectionState
  <2>2. /\ cache'[e].previous_health = cache[e].previous_health
        /\ cache'[e].rates = cache[e].rates
    BY <1>1, <1>3, <2>1, SlowTickEffect DEF SlowAppliesUnreachable
  <2>. QED
    BY <1>2, <1>3, <2>2, Elsewhere DEF SlowAppliesUnreachable
<1>4. CASE SlowApplies(d)
  <2>. DEFINE t == slow[d]
              calls == IF t.throughput = None THEN None ELSE t.throughput.calls
  <2>1. /\ t.caps \in Capabilities /\ t.tables \in BOOLEAN /\ t.disk_io \in BOOLEAN
        /\ t.sample \in StatementsSample \cup {None}
        /\ t.throughput \in Throughput \cup {None}
    BY <1>1, <1>4 DEF SlowApplies, SlowTask, TypeInv
  <2>2. /\ ApplySlowTick(d, t.caps, t.tables, t.sample, t.disk_io, t.throughput)
        /\ ledger' = Show("minutes", d, t.sample, calls)
    BY <1>4 DEF SlowApplies
  <2>3. calls \in WindowFigures \cup {None} /\ (t.sample # None => t.sample.work \in Nat)
    BY <2>1 DEF Throughput, StatementsSample
  <2>. HIDE DEF t, calls
  <2>4. /\ cache'[e].previous_health = cache[e].previous_health
        /\ cache'[e].rates = cache[e].rates
    BY <1>1, <2>1, <2>2, SlowTickEffect
  <2>5. ledger'["load"][e] = ledger["load"][e]
    BY <2>2, <2>3, ShowEffect
  <2>. QED
    BY <1>2, <2>4, <2>5, Elsewhere
<1>5. CASE ~SlowAppliesUnreachable(d) /\ ~SlowApplies(d)
  <2>1. cache' = cache /\ ledger' = ledger
    BY <1>5 DEF SlowStep, SlowReadsCapabilities, SlowReadsTables, SlowReadsStatements,
                SlowDrainsMinute, SlowReadsDiskIo
  <2>. QED
    BY <1>2, <2>1, Elsewhere
<1>. QED
  BY <1>3, <1>4, <1>5

LEMMA SlowTimerMovesLoad ==
    ASSUME TypeInv, SlowTimer, NEW e \in Db
    PROVE  LoadMove(e)
<1>1. server' = server /\ fast' = fast /\ cache' = cache
  BY DEF SlowTimer, SlowSpawn, SlowWrites, SlowReports, external
<1>2. ledger'["load"] = ledger["load"]
  BY DEF SlowTimer, SlowSpawn, SlowWrites, SlowReports, Store, TypeInv, TypeOK
<1>. QED
  BY <1>1, <1>2, Elsewhere

LEMMA LoadMoves ==
    ASSUME TypeInv, [Next]_vars, NEW e \in Db
    PROVE  LoadMove(e)
<1>1. ASSUME NEW d \in Db, Environment(d) PROVE LoadMove(e)
  <2>1. /\ UNCHANGED <<fast, ledger, cache>>
        /\ e # d => server'[e] = server[e]
        /\ \/ Executes(server[d], server'[d]) \/ Resets(server[d], server'[d])
           \/ Forgets(server[d], server'[d]) \/ Counts(server[d], server'[d])
    BY <1>1, EnvironmentMoves
  <2>. QED
    BY <2>1, Elsewhere DEF LoadMove, ServerRuns, LoadReport
<1>2. ASSUME NEW d \in Db, FastStep(d) \/ SlowStep(d) PROVE LoadMove(e)
  BY <1>2, FastStepMovesLoad, SlowStepMovesLoad
<1>3. CASE FastTimer \/ SlowTimer
  BY <1>3, FastTimerMovesLoad, SlowTimerMovesLoad
<1>4. CASE HourlyTimer
  BY <1>4, HourlyMoves, Elsewhere DEF external
<1>5. CASE DiskFlips \/ UNCHANGED vars
  BY <1>5, Elsewhere DEF DiskFlips, vars, external
<1>. QED
  BY <1>1, <1>2, <1>3, <1>4, <1>5 DEF Next

-----------------------------------------------------------------------------
(* The readings of pg_stat_statements.                                     *)

\* What a server does moves no statement by more than the work it does.
LEMMA OutgrowsServer ==
    ASSUME NEW x \in StatementsSample, NEW old \in ServerState, NEW new \in ServerState,
           Outgrows(x, old), Executes(old, new) \/ Resets(old, new) \/ Forgets(old, new)
                                \/ Counts(old, new)
    PROVE  Outgrows(x, new)
<1>1. /\ x.work \in Nat /\ old.work \in Nat /\ new.work \in Nat
      /\ x.calls \in [Statement -> Nat] /\ old.calls \in [Statement -> Nat]
      /\ new.calls \in [Statement -> Nat]
  BY DEF StatementsSample, ServerState
<1>2. CASE Resets(old, new) \/ Counts(old, new)
  BY <1>2 DEF Resets, Counts, Outgrows
<1>3. CASE Executes(old, new) \/ Forgets(old, new)
  <2>1. PICK s \in Statement :
           /\ \A t \in Statement \ {s} : new.calls[t] = old.calls[t]
           /\ \/ new.calls[s] = old.calls[s] + 1 /\ new.work = old.work + 1
              \/ new.calls[s] = 0 /\ new.work = old.work
    <3>1. CASE Executes(old, new)
      BY <1>1, <3>1 DEF Executes
    <3>2. CASE Forgets(old, new)
      BY <1>1, <3>2 DEF Forgets
    <3>. QED
      BY <1>3, <3>1, <3>2
  <2>2. x.work <= new.work
    BY <1>1, <2>1 DEF Outgrows
  <2>3. ASSUME NEW M \in SUBSET Statement
        PROVE  SumFunction([t \in M |-> Rise(new.calls[t], x.calls[t])]) <= new.work - x.work
    <3>. DEFINE f == [t \in M |-> Rise(old.calls[t], x.calls[t])]
                h == [t \in M |-> Rise(new.calls[t], x.calls[t])]
    <3>1. IsFiniteSet(M)
      BY StatementAssumption, FS_Subset
    <3>2. f \in [M -> Nat] /\ h \in [M -> Nat]
      BY <1>1 DEF Rise
    <3>3. \A t \in M \ {s} : h[t] <= f[t]
      BY <1>1, <2>1, <3>2
    <3>4. s \in M => /\ h[s] = Rise(new.calls[s], x.calls[s])
                     /\ f[s] = Rise(old.calls[s], x.calls[s])
      BY <1>1
    <3>5. SumFunction(f) <= old.work - x.work
      BY DEF Outgrows
    <3>6. SumFunction(f) \in Nat /\ SumFunction(h) \in Nat
      BY <3>1, <3>2, SumIsNatural
    <3>. HIDE DEF f, h
    <3>7. CASE new.calls[s] = old.calls[s] + 1 /\ new.work = old.work + 1
      <4>1. s \in M => h[s] <= f[s] + 1
        BY <1>1, <3>4, <3>7 DEF Rise
      <4>2. SumFunction(h) <= SumFunction(f) + 1
        BY <3>1, <3>2, <3>3, <4>1, SumGrowsByOne
      <4>. QED
        BY <1>1, <3>5, <3>6, <3>7, <4>2 DEF h
    <3>8. CASE new.calls[s] = 0 /\ new.work = old.work
      <4>1. s \in M => h[s] <= f[s]
        BY <1>1, <3>4, <3>8 DEF Rise
      <4>2. \A t \in M : h[t] <= f[t]
        BY <3>3, <4>1
      <4>3. SumFunction(h) <= SumFunction(f)
        BY <3>1, <3>2, <4>2, SumIsMonotone
      <4>. QED
        BY <1>1, <3>5, <3>6, <3>8, <4>3 DEF h
    <3>. QED
      BY <2>1, <3>7, <3>8
  <2>. QED
    BY <2>2, <2>3 DEF Outgrows
<1>. QED
  BY <1>2, <1>3

\* A server has not moved since it was read.
LEMMA OutgrowsItself ==
    ASSUME NEW old \in ServerState, NEW read, read.calls = old.calls, read.work = old.work
    PROVE  Outgrows(read, old)
<1>1. old.work \in Nat /\ old.calls \in [Statement -> Nat]
  BY DEF ServerState
<1>2. ASSUME NEW M \in SUBSET Statement
      PROVE  SumFunction([s \in M |-> Rise(old.calls[s], read.calls[s])]) <= old.work - read.work
  <2>. DEFINE f == [s \in M |-> Rise(old.calls[s], read.calls[s])]
  <2>1. IsFiniteSet(M)
    BY StatementAssumption, FS_Subset
  <2>2. \A s \in M : f[s] = 0
    BY <1>1 DEF Rise
  <2>3. SumFunction(f) = 0
    <3>1. DOMAIN f = M
      OBVIOUS
    <3>. HIDE DEF f
    <3>. QED
      BY <2>1, <2>2, <3>1, SumOfZeros
  <2>. QED
    BY <1>1, <2>3
<1>. QED
  BY <1>1, <1>2 DEF Outgrows

\* A row of an unmasked sample is compared with no less than its own calls, so
\* that the calls of a minute are no more than the work between its two samples.
LEMMA MinuteIsFloor ==
    ASSUME NEW current \in StatementsSample, NEW previous \in StatementsSample \cup {None},
           NEW longest \in Nat, previous # None => Outgrows(previous, current)
    PROVE  LET throughput == MinuteThroughput(current, previous, longest)
           IN  throughput.masked \/ IsFloor(throughput.calls)
<1>. DEFINE throughput == MinuteThroughput(current, previous, longest)
            calls == throughput.calls
            M == Matched(current, previous)
<1>1. calls.delta = CallsInWindow(current, previous)
  BY DEF MinuteThroughput
<1>2. CASE previous = None \/ M = {}
  BY <1>1, <1>2 DEF IsFloor, CallsInWindow
<1>3. CASE previous # None /\ M # {} /\ ~throughput.masked
  <2>. DEFINE risen == [s \in M |-> Risen(current, previous, s)]
              rises == [s \in M |-> Rise(current.calls[s], previous.calls[s])]
  <2>1. calls.from = previous.work /\ calls.upto = current.work
    BY <1>3 DEF MinuteThroughput
  <2>2. calls.delta = SumFunction(risen)
    BY <1>1, <1>3 DEF CallsInWindow
  <2>3. M \in SUBSET Statement /\ IsFiniteSet(M)
    BY StatementAssumption, FS_Subset DEF Matched
  <2>4. ~Masked(previous)
    BY <1>3 DEF MinuteThroughput
  <2>5. ASSUME NEW s \in M
        PROVE  /\ Risen(current, previous, s) \in Nat
               /\ Rise(current.calls[s], previous.calls[s]) \in Nat
               /\ Risen(current, previous, s) <= Rise(current.calls[s], previous.calls[s])
    <3>1. QueryId[s] \in QueryIds /\ s \in Statement /\ Risen(current, previous, s) # None
      BY DEF Matched, QueryIds
    <3>2. previous.calls[s] <= previous.by_query_id[QueryId[s]]
      BY <1>3, <2>4, <3>1 DEF Masked, StatementsSample
    <3>3. /\ current.calls[s] \in Nat /\ previous.calls[s] \in Nat
          /\ previous.by_query_id[QueryId[s]] \in Nat
      BY <1>3, <3>1 DEF StatementsSample
    <3>. QED
      BY <3>1, <3>2, <3>3 DEF Risen, Delta, Rise
  <2>6. risen \in [M -> Nat] /\ rises \in [M -> Nat] /\ \A s \in M : risen[s] <= rises[s]
    <3>. HIDE DEF M
    <3>. QED
      BY <2>5
  <2>7. SumFunction(risen) \in Nat /\ SumFunction(rises) \in Nat
        /\ SumFunction(risen) <= SumFunction(rises)
    <3>. HIDE DEF risen, rises, M
    <3>. QED
      BY <2>3, <2>6, SumIsMonotone, SumIsNatural
  <2>8. SumFunction(rises) <= current.work - previous.work
    BY <1>3, <2>3 DEF Outgrows
  <2>9. current.work \in Nat /\ previous.work \in Nat
    BY <1>3 DEF StatementsSample
  <2>10. IsFloor(calls)
    <3>. HIDE DEF calls, M, risen, rises
    <3>. QED
      BY <2>1, <2>2, <2>7, <2>8, <2>9 DEF IsFloor
  <2>. QED
    BY <2>10
<1>. QED
  BY <1>2, <1>3

-----------------------------------------------------------------------------
(* What a step does to the minutes of one database.                        *)

MinutesReport(d) ==
    <<cache[d].previous_statements, cache[d].throughput, ledger["minutes"][d]>>

\* The states of a slow task that may have a throughput.
Computed == {"disk_io", "apply", "joined"}

\* Nothing, but for the task moving on.
MinutesStill(d) ==
    /\ UNCHANGED <<server[d], MinutesReport(d), slow[d].sample, slow[d].throughput>>
    /\ \/ slow'[d].pc = slow[d].pc \/ slow[d].pc \notin Computed
       \/ slow[d].pc = "disk_io" /\ slow'[d].pc = "apply"

ServerRunsOn(d) ==
    /\ UNCHANGED <<MinutesReport(d), slow[d]>>
    /\ \/ Executes(server[d], server'[d]) \/ Resets(server[d], server'[d])
       \/ Forgets(server[d], server'[d]) \/ Counts(server[d], server'[d])

MinutesRead(d) ==
    /\ UNCHANGED <<server[d], MinutesReport(d), slow[d].throughput>>
    /\ slow[d].pc = "statements"
    /\ slow'[d].sample # None => /\ slow'[d].sample.calls = server[d].calls
                                 /\ slow'[d].sample.work = server[d].work

MinuteComputed(d) ==
    /\ UNCHANGED <<server[d], MinutesReport(d), slow[d].sample>>
    /\ slow'[d].pc = "disk_io"
    /\ \E longest \in Nat :
          slow'[d].throughput = IF slow[d].sample = None
                                THEN None
                                ELSE MinuteThroughput(slow[d].sample,
                                                      cache[d].previous_statements, longest)

MinuteShown(d) ==
    LET t == slow[d]
        old == ledger["minutes"][d]
        new == ledger'["minutes"][d]
    IN  /\ UNCHANGED <<server[d], slow[d].throughput>>
        /\ t.pc = "apply" /\ slow'[d].pc = "joined" /\ slow'[d].sample = None
        /\ cache'[d].previous_statements =
              IF t.sample = None THEN cache[d].previous_statements ELSE t.sample
        /\ cache'[d].throughput =
              IF t.throughput = None THEN cache[d].throughput ELSE t.throughput
        /\ new.shown = old.shown + IF t.sample = None THEN 0
                                   ELSE Known(IF t.throughput = None THEN None
                                              ELSE t.throughput.calls)
        /\ new.stored = old.stored

MinuteStored(d) ==
    LET old == ledger["minutes"][d]
        new == ledger'["minutes"][d]
    IN  /\ UNCHANGED <<server[d], cache[d].previous_statements, cache[d].throughput>>
        /\ slow'[d].sample = None /\ slow'[d].throughput = None
        /\ new.shown = old.shown
        /\ \/ new.stored = old.stored
           \/ /\ slow[d].pc = "joined" /\ slow[d].throughput # None
              /\ new.stored = old.stored + Known(slow[d].throughput.calls)

MinutesMove(d) ==
    \/ MinutesStill(d) \/ ServerRunsOn(d) \/ MinutesRead(d) \/ MinuteComputed(d)
    \/ MinuteShown(d) \/ MinuteStored(d)

\* Each of these keeps the part of the invariant that is about the minutes.
LEMMA MinutesMoveKeeps ==
    ASSUME TypeInv, TypeInv', NEW d \in Db, MinutesMove(d),
           ReadingsGrow(d), MinutesAreBooked(d)
    PROVE  ReadingsGrow(d)' /\ MinutesAreBooked(d)'
<1>. DEFINE sample == slow[d].sample
            last == cache[d].previous_statements
            minutes == ledger["minutes"][d]
            throughput == slow[d].throughput
<1>1. /\ sample \in StatementsSample \cup {None} /\ last \in StatementsSample \cup {None}
      /\ throughput \in Throughput \cup {None} /\ server[d] \in ServerState
      /\ minutes.shown \in Nat /\ minutes.stored \in Nat
  BY DEF TypeInv, TypeOK, CacheTypeOK, CacheState, SlowTask, Account
<1>2. /\ server'[d] \in ServerState
      /\ ledger'["minutes"][d].shown \in Nat /\ ledger'["minutes"][d].stored \in Nat
  BY DEF TypeInv, TypeOK, Account
<1>3. CASE MinutesStill(d)
  BY <1>3 DEF MinutesStill, MinutesReport, Computed, ReadingsGrow, MinutesAreBooked
<1>4. CASE ServerRunsOn(d)
  <2>1. ReadingsGrow(d)'
    BY <1>1, <1>2, <1>4, OutgrowsServer DEF ServerRunsOn, MinutesReport, ReadingsGrow
  <2>. QED
    BY <1>4, <2>1 DEF ServerRunsOn, MinutesReport, MinutesAreBooked
<1>5. CASE MinutesRead(d)
  <2>1. ReadingsGrow(d)'
    <3>. DEFINE read == slow'[d].sample
    <3>1. read # None => read.calls = server[d].calls /\ read.work = server[d].work
      BY <1>5 DEF MinutesRead
    <3>2. read # None => Outgrows(read, server[d])
      BY <1>1, <3>1, OutgrowsItself
    <3>3. last # None => Outgrows(last, server[d])
      BY DEF ReadingsGrow
    <3>4. read # None /\ last # None => Outgrows(last, read)
      BY <3>1, <3>3 DEF Outgrows
    <3>. QED
      BY <1>5, <3>2, <3>3, <3>4 DEF MinutesRead, MinutesReport, ReadingsGrow
  <2>. QED
    BY <1>5, <2>1 DEF MinutesRead, MinutesReport, MinutesAreBooked
<1>6. CASE MinuteComputed(d)
  <2>1. ReadingsGrow(d)'
    BY <1>6 DEF MinuteComputed, MinutesReport, ReadingsGrow
  <2>2. slow'[d].throughput # None => /\ sample # None
                                      /\ \/ slow'[d].throughput.masked
                                         \/ IsFloor(slow'[d].throughput.calls)
    BY <1>1, <1>6, MinuteIsFloor DEF MinuteComputed, ReadingsGrow
  <2>. QED
    BY <1>6, <2>1, <2>2 DEF MinuteComputed, MinutesReport, MinutesAreBooked
<1>7. CASE MinuteShown(d)
  <2>. DEFINE calls == IF throughput = None THEN None ELSE throughput.calls
              more == IF sample = None THEN 0 ELSE Known(calls)
  <2>1. ReadingsGrow(d)'
    BY <1>7 DEF MinuteShown, ReadingsGrow
  <2>2. Known(calls) \in Nat /\ more \in Nat
    BY <1>1, KnownType DEF Throughput
  <2>3. throughput # None => (throughput.masked \/ IsFloor(throughput.calls)) /\ sample # None
    BY <1>7 DEF MinuteShown, MinutesAreBooked
  <2>4. cache'[d].throughput # None =>
            cache'[d].throughput.masked \/ IsFloor(cache'[d].throughput.calls)
    BY <1>7, <2>3 DEF MinuteShown, MinutesAreBooked
  <2>5. /\ ledger'["minutes"][d].shown = minutes.shown + more
        /\ ledger'["minutes"][d].stored = minutes.stored
        /\ minutes.stored <= minutes.shown
        /\ slow'[d].throughput = throughput /\ slow'[d].pc = "joined"
    BY <1>7 DEF MinuteShown, MinutesAreBooked
  <2>6. throughput # None => more = Known(throughput.calls)
    BY <2>3
  <2>. HIDE DEF more, calls
  <2>7. /\ ledger'["minutes"][d].stored <= ledger'["minutes"][d].shown
        /\ throughput # None =>
              ledger'["minutes"][d].stored + Known(throughput.calls)
                  <= ledger'["minutes"][d].shown
    BY <1>1, <2>2, <2>5, <2>6
  <2>. QED
    BY <2>1, <2>3, <2>4, <2>5, <2>7 DEF MinutesAreBooked, Computed
<1>8. CASE MinuteStored(d)
  <2>1. ReadingsGrow(d)'
    BY <1>8 DEF MinuteStored, ReadingsGrow
  <2>. QED
    BY <1>8, <2>1 DEF MinuteStored, MinutesAreBooked
<1>. QED
  BY <1>3, <1>4, <1>5, <1>6, <1>7, <1>8 DEF MinutesMove

LEMMA ElsewhereMinutes ==
    ASSUME NEW d \in Db, server'[d] = server[d],
           cache'[d].previous_statements = cache[d].previous_statements,
           cache'[d].throughput = cache[d].throughput,
           ledger'["minutes"][d] = ledger["minutes"][d], slow'[d] = slow[d]
    PROVE  MinutesMove(d)
BY DEF MinutesMove, MinutesStill, MinutesReport

LEMMA SlowStepMovesMinutes ==
    ASSUME TypeInv, NEW d \in Db, SlowStep(d), NEW e \in Db
    PROVE  MinutesMove(e)
<1>1. /\ slow[d] \in SlowTask /\ slow \in [Db -> SlowTask] /\ server[d] \in ServerState
      /\ CacheTypeOK /\ cache[d] \in CacheState
      /\ ledger \in [{"load", "minutes"} -> [Db -> Account]]
  BY DEF TypeInv, TypeOK, CacheTypeOK
<1>2. CASE SlowReadsCapabilities(d) \/ SlowReadsTables(d) \/ SlowReadsDiskIo(d)
  <2>1. /\ slow'[d].sample = slow[d].sample /\ slow'[d].throughput = slow[d].throughput
        /\ slow[d].pc \notin Computed \/ (slow[d].pc = "disk_io" /\ slow'[d].pc = "apply")
    <3>1. CASE SlowReadsCapabilities(d)
      BY <1>1, <3>1 DEF SlowReadsCapabilities, SlowTask, Computed
    <3>2. CASE SlowReadsTables(d)
      BY <1>1, <3>2 DEF SlowReadsTables, SlowTask, Computed
    <3>3. CASE SlowReadsDiskIo(d)
      BY <1>1, <3>3 DEF SlowReadsDiskIo, SlowTask, Computed
    <3>. QED
      BY <1>2, <3>1, <3>2, <3>3
  <2>2. UNCHANGED <<external, ledger, cache>>
    BY <1>2 DEF SlowReadsCapabilities, SlowReadsTables, SlowReadsDiskIo
  <2>3. e # d => slow'[e] = slow[e]
    BY <1>1, <1>2 DEF SlowReadsCapabilities, SlowReadsTables, SlowReadsDiskIo
  <2>4. CASE e # d
    BY <2>2, <2>3, <2>4, ElsewhereMinutes DEF external
  <2>5. CASE e = d
    BY <2>1, <2>2, <2>5 DEF MinutesMove, MinutesStill, MinutesReport, external
  <2>. QED
    BY <2>4, <2>5
<1>3. CASE SlowAppliesUnreachable(d)
  <2>1. Unreachable \in Capabilities
    BY DEF Unreachable, Capabilities, SectionState
  <2>2. /\ cache'[d].previous_statements = cache[d].previous_statements
        /\ cache'[d].throughput = cache[d].throughput
        /\ e # d => cache'[e] = cache[e]
    <3>1. ApplySlowTick(d, Unreachable, FALSE, None, FALSE, None)
      BY <1>3 DEF SlowAppliesUnreachable
    <3>. QED
      BY <1>1, <2>1, <3>1, SlowTickEffect
  <2>3. /\ slow[d].pc \notin Computed /\ slow'[d].sample = slow[d].sample
        /\ slow'[d].throughput = slow[d].throughput
        /\ e # d => slow'[e] = slow[e]
        /\ server' = server /\ ledger' = ledger
    BY <1>1, <1>3 DEF SlowAppliesUnreachable, SlowTask, Computed, external
  <2>4. CASE e # d
    BY <2>2, <2>3, <2>4, ElsewhereMinutes
  <2>5. CASE e = d
    BY <2>2, <2>3, <2>5 DEF MinutesMove, MinutesStill, MinutesReport
  <2>. QED
    BY <2>4, <2>5
<1>4. CASE SlowReadsStatements(d)
  <2>1. PICK sample \in StatementsSample \cup {None} :
           /\ slow' = [slow EXCEPT ![d].pc = "drain", ![d].sample = sample]
           /\ sample # None => sample.calls = server[d].calls /\ sample.work = server[d].work
    BY <1>1, <1>4, SampleIsRead
  <2>2. /\ slow'[d].sample = sample /\ slow'[d].throughput = slow[d].throughput
        /\ e # d => slow'[e] = slow[e]
    BY <1>1, <2>1 DEF SlowTask
  <2>3. UNCHANGED <<server, ledger, cache>> /\ slow[d].pc = "statements"
    BY <1>4 DEF SlowReadsStatements, external
  <2>4. CASE e # d
    BY <2>2, <2>3, <2>4, ElsewhereMinutes
  <2>5. CASE e = d
    BY <2>1, <2>2, <2>3, <2>5 DEF MinutesMove, MinutesRead, MinutesReport
  <2>. QED
    BY <2>4, <2>5
<1>5. CASE SlowDrainsMinute(d)
  <2>. DEFINE throughput == IF slow[d].sample = None
                            THEN None
                            ELSE MinuteThroughput(slow[d].sample, cache[d].previous_statements,
                                                  longest_seen_minute[d])
  <2>1. slow' = [slow EXCEPT ![d].pc = "disk_io", ![d].throughput = throughput]
    BY <1>5 DEF SlowDrainsMinute
  <2>. HIDE DEF throughput
  <2>2. /\ slow'[d].pc = "disk_io" /\ slow'[d].throughput = throughput
        /\ slow'[d].sample = slow[d].sample
        /\ e # d => slow'[e] = slow[e]
    BY <1>1, <2>1 DEF SlowTask
  <2>3. UNCHANGED <<server, ledger, cache>>
    BY <1>5 DEF SlowDrainsMinute, external
  <2>4. CASE e # d
    BY <2>2, <2>3, <2>4, ElsewhereMinutes
  <2>5. CASE e = d
    <3>1. longest_seen_minute[d] \in Nat
      BY DEF TypeInv, TypeOK
    <3>2. MinuteComputed(d)
      BY <2>2, <2>3, <3>1 DEF MinuteComputed, MinutesReport, throughput
    <3>. QED
      BY <2>5, <3>2 DEF MinutesMove
  <2>. QED
    BY <2>4, <2>5
<1>6. CASE SlowApplies(d)
  <2>. DEFINE t == slow[d]
              calls == IF t.throughput = None THEN None ELSE t.throughput.calls
  <2>1. /\ t.caps \in Capabilities /\ t.tables \in BOOLEAN /\ t.disk_io \in BOOLEAN
        /\ t.sample \in StatementsSample \cup {None}
        /\ t.throughput \in Throughput \cup {None}
    BY <1>1, <1>6 DEF SlowApplies, SlowTask, TypeInv
  <2>2. /\ ApplySlowTick(d, t.caps, t.tables, t.sample, t.disk_io, t.throughput)
        /\ ledger' = Show("minutes", d, t.sample, calls)
        /\ slow' = [slow EXCEPT ![d] = [SlowIdle EXCEPT !.pc = "joined",
                                                        !.throughput = t.throughput]]
        /\ t.pc = "apply" /\ server' = server
    BY <1>6 DEF SlowApplies, external
  <2>3. calls \in WindowFigures \cup {None} /\ (t.sample # None => t.sample.work \in Nat)
    BY <2>1 DEF Throughput, StatementsSample
  <2>. HIDE DEF t, calls
  <2>4. /\ cache'[d].previous_statements =
              IF t.sample = None THEN cache[d].previous_statements ELSE t.sample
        /\ cache'[d].throughput =
              IF t.throughput = None THEN cache[d].throughput ELSE t.throughput
        /\ e # d => cache'[e] = cache[e]
    <3>1. PICK caps \in Capabilities, tables \in BOOLEAN, sample \in StatementsSample \cup {None},
               disk_io \in BOOLEAN, throughput \in Throughput \cup {None} :
             /\ ApplySlowTick(d, caps, tables, sample, disk_io, throughput)
             /\ sample = t.sample /\ throughput = t.throughput
      BY <2>1, <2>2
    <3>2. CacheTypeOK
      BY <1>1
    <3>3. /\ cache'[d].previous_statements =
                IF sample = None THEN cache[d].previous_statements ELSE sample
          /\ cache'[d].throughput =
                IF throughput = None THEN cache[d].throughput ELSE throughput
          /\ e # d => cache'[e] = cache[e]
      BY <3>1, <3>2, SlowTickEffect
    <3>. QED
      BY <3>1, <3>3
  <2>5. /\ ledger'["minutes"][d].stored = ledger["minutes"][d].stored
        /\ ledger'["minutes"][d].shown =
              ledger["minutes"][d].shown + IF t.sample = None THEN 0 ELSE Known(calls)
        /\ \A f \in Db : f # d => ledger'["minutes"][f] = ledger["minutes"][f]
    BY <2>2, <2>3, ShowEffect
  <2>6. /\ slow'[d].pc = "joined" /\ slow'[d].sample = None
        /\ slow'[d].throughput = t.throughput
        /\ e # d => slow'[e] = slow[e]
    BY <1>1, <2>2 DEF SlowIdle
  <2>7. CASE e # d
    BY <2>2, <2>4, <2>5, <2>6, <2>7, ElsewhereMinutes
  <2>8. CASE e = d
    <3>1. MinuteShown(d)
      BY <2>2, <2>4, <2>5, <2>6 DEF MinuteShown, t, calls
    <3>. QED
      BY <2>8, <3>1 DEF MinutesMove
  <2>. QED
    BY <2>7, <2>8
<1>. QED
  BY <1>2, <1>3, <1>4, <1>5, <1>6 DEF SlowStep

LEMMA SlowTimerMovesMinutes ==
    ASSUME TypeInv, SlowTimer, NEW e \in Db
    PROVE  MinutesMove(e)
<1>1. CASE SlowSpawn
  BY <1>1 DEF SlowSpawn, SlowIdle, MinutesMove, MinuteStored, external
<1>2. CASE SlowWrites
  <2>. DEFINE HasFigure(t) == IF t = None THEN FALSE
                              ELSE t.calls.delta # None \/ t.longest > 0
              rows == [d \in {c \in Db : HasFigure(slow[c].throughput)} |->
                          slow[d].throughput.calls]
  <2>1. /\ slow'[e].sample = None /\ slow'[e].throughput = None
        /\ server' = server /\ cache' = cache /\ slow[e].pc = "joined"
    BY <1>2 DEF SlowWrites, SlowIdle, external
  <2>2. ledger' = Store("minutes", rows)
    BY <1>2 DEF SlowWrites
  <2>3. DOMAIN rows \subseteq Db /\ \A d \in DOMAIN rows : rows[d] \in WindowFigures \cup {None}
    <3>1. \A d \in DOMAIN rows : d \in Db /\ slow[d].throughput # None
      OBVIOUS
    <3>2. \A d \in Db : slow[d].throughput \in Throughput \cup {None}
      BY DEF TypeInv, TypeOK, SlowTask
    <3>. QED
      BY <3>1, <3>2 DEF Throughput
  <2>4. e \in DOMAIN rows => slow[e].throughput # None /\ rows[e] = slow[e].throughput.calls
    OBVIOUS
  <2>. HIDE DEF rows
  <2>5. /\ ledger'["minutes"][e].shown = ledger["minutes"][e].shown
        /\ e \notin DOMAIN rows => ledger'["minutes"][e] = ledger["minutes"][e]
        /\ e \in DOMAIN rows => ledger'["minutes"][e].stored \in
              {ledger["minutes"][e].stored, ledger["minutes"][e].stored + Known(rows[e])}
    BY <2>2, <2>3, StoreEffect
  <2>. QED
    BY <2>1, <2>4, <2>5 DEF MinutesMove, MinuteStored
<1>3. CASE SlowReports
  BY <1>3, ElsewhereMinutes DEF SlowReports, external
<1>. QED
  BY <1>1, <1>2, <1>3 DEF SlowTimer

LEMMA FastStepMovesMinutes ==
    ASSUME TypeInv, NEW d \in Db, FastStep(d), NEW e \in Db
    PROVE  MinutesMove(e)
<1>1. /\ fast[d] \in FastTask /\ CacheTypeOK /\ cache[d] \in CacheState
  BY DEF TypeInv, TypeOK, CacheTypeOK
<1>2. server' = server /\ slow' = slow
  BY DEF FastStep, FastCapabilitiesCached, FastReadsCapabilities, FastAppliesCapabilities,
         FastAppliesUnreachable, FastReadsActivity, FastReadsHealth, FastObserves, FastApplies,
         FastReadsBack, external
<1>3. CASE FastAppliesCapabilities(d)
  <2>1. (IF fast[d].caps = None THEN Unreachable ELSE fast[d].caps) \in Capabilities
    BY <1>1 DEF FastTask, Unreachable, Capabilities, SectionState
  <2>2. /\ cache'[e].previous_statements = cache[e].previous_statements
        /\ cache'[e].throughput = cache[e].throughput
    BY <1>1, <1>3, <2>1, CapabilitiesEffect DEF FastAppliesCapabilities
  <2>. QED
    BY <1>2, <1>3, <2>2, ElsewhereMinutes DEF FastAppliesCapabilities
<1>4. CASE FastAppliesUnreachable(d)
  <2>1. ApplyFastTick(d, FALSE, None, TRUE) /\ ledger' = ledger
    BY <1>4 DEF FastAppliesUnreachable
  <2>2. /\ cache'[e].previous_statements = cache[e].previous_statements
        /\ cache'[e].throughput = cache[e].throughput
    BY <1>1, <2>1, FastTickEffect
  <2>. QED
    BY <1>2, <2>1, <2>2, ElsewhereMinutes
<1>5. CASE FastApplies(d)
  <2>. DEFINE sample == fast[d].sample
  <2>1. /\ ApplyFastTick(d, fast[d].longest # None, sample, FALSE)
        /\ ledger' = Show("load", d, sample, cache'[d].rates)
    BY <1>5 DEF FastApplies
  <2>2. sample \in HealthSample \cup {None} /\ (sample # None => sample.work \in Nat)
    BY <1>1 DEF FastTask, HealthSample
  <2>. HIDE DEF sample
  <2>3. /\ CacheTypeOK'
        /\ cache'[e].previous_statements = cache[e].previous_statements
        /\ cache'[e].throughput = cache[e].throughput
    BY <1>1, <2>1, <2>2, FastTickEffect
  <2>4. cache'[d].rates \in WindowFigures \cup {None}
    BY <2>3 DEF CacheTypeOK, CacheState
  <2>5. ledger'["minutes"][e] = ledger["minutes"][e]
    BY <2>1, <2>2, <2>4, ShowEffect
  <2>. QED
    BY <1>2, <2>3, <2>5, ElsewhereMinutes
<1>6. CASE ~FastAppliesCapabilities(d) /\ ~FastAppliesUnreachable(d) /\ ~FastApplies(d)
  <2>1. cache' = cache /\ ledger' = ledger
    BY <1>6 DEF FastStep, FastCapabilitiesCached, FastReadsCapabilities, FastReadsActivity,
                FastReadsHealth, FastObserves, FastReadsBack
  <2>. QED
    BY <1>2, <2>1, ElsewhereMinutes
<1>. QED
  BY <1>3, <1>4, <1>5, <1>6

LEMMA MinutesMoves ==
    ASSUME TypeInv, [Next]_vars, NEW e \in Db
    PROVE  MinutesMove(e)
<1>1. ASSUME NEW d \in Db, Environment(d) PROVE MinutesMove(e)
  <2>1. /\ UNCHANGED <<slow, ledger, cache>>
        /\ e # d => server'[e] = server[e]
        /\ \/ Executes(server[d], server'[d]) \/ Resets(server[d], server'[d])
           \/ Forgets(server[d], server'[d]) \/ Counts(server[d], server'[d])
    BY <1>1, EnvironmentMoves
  <2>. QED
    BY <2>1, ElsewhereMinutes DEF MinutesMove, ServerRunsOn, MinutesReport
<1>2. ASSUME NEW d \in Db, FastStep(d) \/ SlowStep(d) PROVE MinutesMove(e)
  BY <1>2, FastStepMovesMinutes, SlowStepMovesMinutes
<1>3. CASE SlowTimer
  BY <1>3, SlowTimerMovesMinutes
<1>4. CASE FastTimer
  <2>1. server' = server /\ slow' = slow /\ cache' = cache
    BY <1>4 DEF FastTimer, FastSpawn, FastWrites, FastReports, external
  <2>2. ledger'["minutes"] = ledger["minutes"]
    BY <1>4 DEF FastTimer, FastSpawn, FastWrites, FastReports, Store, TypeInv, TypeOK
  <2>. QED
    BY <2>1, <2>2, ElsewhereMinutes
<1>5. CASE HourlyTimer
  BY <1>5, HourlyMoves, ElsewhereMinutes DEF external
<1>6. CASE DiskFlips \/ UNCHANGED vars
  BY <1>6, ElsewhereMinutes DEF DiskFlips, vars, external
<1>. QED
  BY <1>1, <1>2, <1>3, <1>4, <1>5, <1>6 DEF Next

-----------------------------------------------------------------------------
(* The theorems.                                                           *)

LEMMA InitInv == Init => Inv
<1>. SUFFICES ASSUME Init PROVE Inv
  OBVIOUS
<1>1. LoadInv
  BY DEF Init, CacheInit, FastIdle, LoadInv, ReadingsFollow, RateIsExact, LoadIsBooked
<1>2. MinutesInv
  BY DEF Init, CacheInit, SlowIdle, MinutesInv, ReadingsGrow, MinutesAreBooked
<1>. QED
  BY <1>1, <1>2, InitType DEF Inv

LEMMA StepInv == Inv /\ [Next]_vars => Inv'
<1>. SUFFICES ASSUME Inv, [Next]_vars PROVE Inv'
  OBVIOUS
<1>1. TypeInv /\ TypeInv'
  BY TypeStep DEF Inv
<1>2. LoadInv'
  <2>1. ASSUME NEW d \in Db PROVE ReadingsFollow(d)' /\ RateIsExact(d)' /\ LoadIsBooked(d)'
    BY <1>1, LoadMoves, LoadMoveKeeps DEF Inv, LoadInv
  <2>. QED
    BY <2>1 DEF LoadInv
<1>3. MinutesInv'
  <2>1. ASSUME NEW d \in Db PROVE ReadingsGrow(d)' /\ MinutesAreBooked(d)'
    BY <1>1, MinutesMoves, MinutesMoveKeeps DEF Inv, MinutesInv
  <2>. QED
    BY <2>1 DEF MinutesInv
<1>. QED
  BY <1>1, <1>2, <1>3 DEF Inv

\* The inductive invariant holds of every state of the collector
\* (src/src/db_stats/collector.rs), whatever the timers interleave, however
\* long the ticks take and whatever happens to the servers and the disk.
THEOREM Invariance == Spec => []Inv
BY InitInv, StepInv, PTL DEF Spec

\* Every reachable state is one the types of collector.rs and cache.rs allow;
\* a slow tick that goes on past its capabilities has them.
THEOREM TypeCorrect == Spec => []TypeOK
<1>1. Inv => TypeOK
  BY DEF Inv, TypeInv
<1>. QED
  BY <1>1, Invariance, PTL

\* The published rates (`rates` of health.rs) count exactly what the database
\* did between the two readings they name: no reset, outage or overlapping
\* tick leaves a rate that says more or less.
THEOREM RatesAreRight == Spec => []RatesAreExact
<1>1. Inv => RatesAreExact
  BY DEF Inv, LoadInv, RateIsExact, RatesAreExact
<1>. QED
  BY <1>1, Invariance, PTL

\* While nobody resets the counters the windows `apply_fast_tick` publishes
\* add up to the work between the first and the last reading, and what is
\* stored of them is never more.
THEOREM WindowsAddUp == Spec => []NothingLostBetweenWindows
<1>1. Inv => NothingLostBetweenWindows
  BY DEF Inv, LoadInv, LoadIsBooked, NothingLostBetweenWindows
<1>. QED
  BY <1>1, Invariance, PTL

\* The calls of a minute (`MinuteThroughput`, throughput.rs) are never more
\* than the statements executed between its two samples, whichever were
\* reset, evicted or created in between and however many rows have one query
\* id, unless the row of the earlier sample that was kept for an id had fewer
\* calls than another of that id (`build` of statements.rs).
THEOREM MinutesAreFloors == Spec => []MinutesAreAFloor
<1>1. Inv => MinutesAreAFloor
  BY DEF Inv, MinutesInv, MinutesAreBooked, IsFloor, MinutesAreAFloor
<1>. QED
  BY <1>1, Invariance, PTL

\* Neither timer stores a window twice, nor one it has not published: the
\* row of a fast tick is read back from the cache, that of a slow tick is not.
THEOREM NothingIsStoredTwice == Spec => []NoWindowStoredTwice
<1>1. Inv => NoWindowStoredTwice
  BY DEF Inv, TypeInv, TypeOK, LoadInv, LoadIsBooked, MinutesInv, MinutesAreBooked,
         NoWindowStoredTwice
<1>. QED
  BY <1>1, Invariance, PTL

=============================================================================
