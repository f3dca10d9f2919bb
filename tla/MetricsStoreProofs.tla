-------------------------- MODULE MetricsStoreProofs ---------------------------
(***************************************************************************)
(* What MetricsStore promises for any databases, spellings, tables,        *)
(* retention and clock.  Everything follows from one inductive invariant,  *)
(* Inv: types, where the horizons stand (HorizonInv), how old what waits   *)
(* may be and to whom it belongs (FreshInv), and what the file holds       *)
(* (FileInv).                                                              *)
(***************************************************************************)
EXTENDS MetricsStore, TLAPS

-----------------------------------------------------------------------------
(* The inductive invariant.                                                *)

Txn == [rows : SUBSET RowType, cutoff : Int \cup {None}]
Writer == [txn : Txn, at : Nat, left : SUBSET Path, running : BOOLEAN]

TypeInv ==
    /\ now \in Nat /\ mounts \in Mountings /\ isOpen \in BOOLEAN
    /\ rows \subseteq RowType /\ written \subseteq RowType
    /\ swept \in Int /\ ticks \in Nat /\ restarts \in Nat
    /\ writer \in [Timers -> Writer]
    /\ \A w \in Timers : writer[w].left \subseteq mounts
    /\ holder \in Timers \cup {None}
    /\ holder # None => writer[holder].txn # NoTxn

\* Only the hourly timer sweeps, never behind an earlier sweep and never into
\* the retention, the sweep that still waits included.
HorizonInv ==
    /\ swept <= now - RETENTION
    /\ \A w \in Timers : writer[w].txn.cutoff # None =>
          /\ w = "hourly" /\ writer[w].txn.rows = {}
          /\ swept <= writer[w].txn.cutoff /\ writer[w].txn.cutoff <= now - RETENTION

\* The tables a timer writes.
TablesOf(w) == IF w = "hourly" THEN Hourly ELSE {w}

\* What waits is young, and says of which timer it is.
FreshInv ==
    \A w \in Timers :
        /\ Waiting(w) => now - writer[w].at <= MaxLag
        /\ \A r \in writer[w].txn.rows : r.at = writer[w].at /\ r.table \in TablesOf(w)

FileInv == rows \subseteq written /\ NothingYoungIsLost

Inv == TypeInv /\ HorizonInv /\ FreshInv /\ FileInv

-----------------------------------------------------------------------------
(* Lemmas about transactions.                                              *)

\* The timers are the hourly one and those named by a series table.
LEMMA TimersAreKnown ==
    /\ "hourly" \in Timers
    /\ \A t \in Table \ Hourly : t \in Timers /\ t \in Table /\ t # "hourly" /\ t \notin Hourly
    /\ \A w \in Timers : w # "hourly" => w \in Table \ Hourly
    /\ Hourly \subseteq Table
    /\ "hourly" \notin Table /\ None \notin Timers
  BY StoreAssumption DEF Timers, Hourly

\* A timer between its ticks is well typed and waits for nothing.
LEMMA BetweenType ==
    ASSUME NEW at \in Nat
    PROVE  /\ Between(at) \in Writer /\ Between(at).txn = NoTxn /\ Between(at).left = {}
           /\ Between(at).running = FALSE /\ Between(at).at = at
           /\ NoTxn \in Txn /\ NoTxn.rows = {} /\ NoTxn.cutoff = None
  BY DEF Between, Writer, Txn, NoTxn

\* What a series tick offers.
LEMMA SeriesBatch ==
    ASSUME NEW t \in Table, NEW S \in SUBSET Path, NEW at \in Nat
    PROVE  LET batch == {Row(t, at, p) : p \in S} IN
           /\ batch \in SUBSET RowType
           /\ \A r \in batch : r.at = at /\ r.table = t
           /\ S # {} => batch # {}
<1>1. \A p \in S : /\ Row(t, at, p) \in RowType
                   /\ Row(t, at, p).at = at /\ Row(t, at, p).table = t
  BY DEF Row, RowType
<1>. QED
  BY <1>1

\* What a visit of the hourly timer offers.
LEMMA HourBatch ==
    ASSUME NEW at \in Nat, NEW p \in Path, NEW filled \in SUBSET Table
    PROVE  /\ HourOf(at, p, filled) \in SUBSET RowType
           /\ \A r \in HourOf(at, p, filled) : r.at = at /\ r.table \in filled
  BY DEF HourOf, Row, RowType

LEMMA MountsArePaths ==
    ASSUME NEW S \in Mountings
    PROVE  S \in SUBSET Path /\ \A p, q \in S : p[1] = q[1] => p = q
  BY DEF Mountings, PathsAreEqual

-----------------------------------------------------------------------------
(* The invariant is inductive.                                             *)

\* A timer that has nothing waiting turns to something else: v is what it is
\* doing now.
Turns(w, v) ==
    /\ v \in Writer /\ writer' = [writer EXCEPT ![w] = v]
    /\ UNCHANGED <<now, mounts, isOpen, rows, holder, written, swept, restarts>>
    /\ ticks' \in Nat /\ writer[w].txn = NoTxn /\ v.left \subseteq mounts
    /\ v.txn.cutoff # None => /\ w = "hourly" /\ v.txn.rows = {}
                              /\ swept <= v.txn.cutoff /\ v.txn.cutoff <= now - RETENTION
    /\ now - v.at <= MaxLag
    /\ \A r \in v.txn.rows : r.at = v.at /\ r.table \in TablesOf(w)

LEMMA TurnsInv ==
    ASSUME Inv, NEW w \in Timers, NEW v, Turns(w, v)
    PROVE  Inv'
<1>1. /\ writer' \in [Timers -> Writer] /\ writer'[w] = v
      /\ \A u \in Timers : u # w => writer'[u] = writer[u]
      /\ UNCHANGED <<now, mounts, isOpen, rows, holder, written, swept, restarts>>
  BY DEF Inv, TypeInv, Turns
<1>2. TypeInv'
  BY <1>1, TimersAreKnown DEF Inv, TypeInv, Turns
<1>3. HorizonInv'
  BY <1>1 DEF Inv, HorizonInv, Turns
<1>4. FreshInv'
  BY <1>1 DEF Inv, FreshInv, Waiting, Turns
<1>5. FileInv'
  BY <1>1 DEF Inv, FileInv, NothingYoungIsLost
<1>. QED
  BY <1>2, <1>3, <1>4, <1>5 DEF Inv

LEMMA InitInv == Init => Inv
<1>. SUFFICES ASSUME Init PROVE Inv
  OBVIOUS
<1>. USE StoreAssumption
<1>1. /\ Between(0) \in Writer /\ Between(0).txn = NoTxn /\ Between(0).left = {}
      /\ Between(0).running = FALSE /\ NoTxn.rows = {} /\ NoTxn.cutoff = None
  BY BetweenType
<1>2. writer \in [Timers -> Writer] /\ \A w \in Timers : writer[w] = Between(0)
  BY <1>1 DEF Init
<1>3. TypeInv
  BY <1>1, <1>2 DEF Init, TypeInv
<1>4. HorizonInv
  BY <1>1, <1>2 DEF Init, HorizonInv
<1>5. FreshInv
  BY <1>1, <1>2 DEF Init, FreshInv, Waiting
<1>6. FileInv
  BY DEF Init, FileInv, NothingYoungIsLost
<1>. QED
  BY <1>3, <1>4, <1>5, <1>6 DEF Inv

LEMMA SeriesTickTurns ==
    ASSUME Inv, NEW t \in Table \ Hourly, SeriesTick(t)
    PROVE  \E v : Turns(t, v)
<1>. USE StoreAssumption
<1>1. t \in Timers /\ t \in Table /\ t # "hourly"
  BY TimersAreKnown
<1>2. PICK S \in SUBSET mounts :
         writer' = [writer EXCEPT ![t] = [Between(now) EXCEPT
                       !.txn = Insert({Row(t, now, p) : p \in S})]]
  <2>1. PICK first, second \in SUBSET mounts :
           writer' = [writer EXCEPT ![t] = [Between(now) EXCEPT
              !.txn = Insert({Row(t, now, p) : p \in
                  {q \in mounts : SampleOf(t, q \in first, q \in second)}})]]
    BY DEF SeriesTick
  <2>. QED
    BY <2>1
<1>. DEFINE batch == {Row(t, now, p) : p \in S}
            v == [Between(now) EXCEPT !.txn = Insert(batch)]
<1>3. now \in Nat /\ S \in SUBSET Path /\ mounts \in Mountings
  BY MountsArePaths DEF Inv, TypeInv
<1>4. batch \in SUBSET RowType /\ \A r \in batch : r.at = now /\ r.table = t
  BY <1>1, <1>3, SeriesBatch
<1>. HIDE DEF batch
<1>5. /\ v \in Writer /\ v.txn.rows = batch /\ v.txn.cutoff = None
      /\ v.at = now /\ v.left = {}
  BY <1>3, <1>4 DEF Writer, Between, Insert, Txn
<1>6. writer' = [writer EXCEPT ![t] = v]
  BY <1>2 DEF batch
<1>. HIDE DEF v
<1>7. writer[t].txn = NoTxn
  BY DEF SeriesTick, TickStarts
<1>8. ticks' \in Nat /\ UNCHANGED <<now, mounts, isOpen, rows, holder, written, swept, restarts>>
  BY DEF SeriesTick, Inv, TypeInv
<1>9. \A r \in v.txn.rows : r.at = v.at /\ r.table \in TablesOf(t)
  BY <1>1, <1>4, <1>5 DEF TablesOf
<1>10. now - v.at <= MaxLag /\ v.left \subseteq mounts
  BY <1>3, <1>5
<1>. QED
  BY <1>1, <1>5, <1>6, <1>7, <1>8, <1>9, <1>10 DEF Turns

LEMMA HourlyTickTurns ==
    ASSUME Inv, HourlyTick
    PROVE  \E v : Turns("hourly", v)
<1>. USE StoreAssumption
<1>. DEFINE v == [Between(now) EXCEPT !.left = mounts, !.running = TRUE]
<1>1. now \in Nat /\ mounts \in SUBSET Path /\ "hourly" \in Timers
  BY TimersAreKnown, MountsArePaths DEF Inv, TypeInv
<1>2. /\ v \in Writer /\ v.txn = NoTxn /\ v.at = now /\ v.left = mounts
      /\ NoTxn.rows = {} /\ NoTxn.cutoff = None
  BY <1>1 DEF Writer, Between, NoTxn, Txn
<1>3. writer' = [writer EXCEPT !["hourly"] = v]
  BY DEF HourlyTick
<1>. HIDE DEF v
<1>4. writer["hourly"].txn = NoTxn
  BY DEF HourlyTick, TickStarts
<1>5. ticks' \in Nat /\ UNCHANGED <<now, mounts, isOpen, rows, holder, written, swept, restarts>>
  BY DEF HourlyTick, Inv, TypeInv
<1>6. now - v.at <= MaxLag
  BY <1>1, <1>2
<1>. QED
  BY <1>1, <1>2, <1>3, <1>4, <1>5, <1>6 DEF Turns

LEMMA HourlyVisitTurns ==
    ASSUME Inv, NEW p \in Path, HourlyVisit(p)
    PROVE  \E v : Turns("hourly", v)
<1>. USE StoreAssumption
<1>1. "hourly" \in Timers /\ Hourly \subseteq Table
  BY TimersAreKnown
<1>2. PICK filled \in SUBSET Hourly :
         writer' = [writer EXCEPT !["hourly"].left = @ \ {p},
                      !["hourly"].txn = Insert(HourOf(writer["hourly"].at, p, filled))]
  BY DEF HourlyVisit
<1>. DEFINE u == writer["hourly"]
            batch == HourOf(u.at, p, filled)
            v == [u EXCEPT !.left = @ \ {p}, !.txn = Insert(batch)]
<1>3. u \in Writer /\ u.left \subseteq mounts /\ u.running
  BY <1>1 DEF HourlyVisit, Inv, TypeInv
<1>4. batch \in SUBSET RowType /\ \A r \in batch : r.at = u.at /\ r.table \in Hourly
  <2>1. u.at \in Nat /\ filled \in SUBSET Table
    BY <1>1, <1>3 DEF Writer
  <2>. QED
    BY <2>1, HourBatch
<1>5. writer' = [writer EXCEPT !["hourly"] = v]
  BY <1>1, <1>2 DEF Inv, TypeInv
<1>. HIDE DEF batch
<1>6. /\ v \in Writer /\ v.txn.rows = batch /\ v.txn.cutoff = None
      /\ v.at = u.at /\ v.left = u.left \ {p}
  BY <1>3, <1>4 DEF Writer, Insert, Txn
<1>7. now - u.at <= MaxLag
  BY <1>1, <1>3 DEF Inv, FreshInv, Waiting
<1>. HIDE DEF v, u
<1>8. writer["hourly"].txn = NoTxn
  BY DEF HourlyVisit
<1>9. ticks' \in Nat /\ UNCHANGED <<now, mounts, isOpen, rows, holder, written, swept, restarts>>
  BY DEF HourlyVisit, Inv, TypeInv
<1>10. \A r \in v.txn.rows : r.at = v.at /\ r.table \in TablesOf("hourly")
  BY <1>4, <1>6 DEF TablesOf
<1>11. v.left \subseteq mounts /\ now - v.at <= MaxLag
  BY <1>3, <1>6, <1>7
<1>. QED
  BY <1>1, <1>5, <1>6, <1>8, <1>9, <1>10, <1>11 DEF Turns

LEMMA HourlySweepTurns ==
    ASSUME Inv, HourlySweep
    PROVE  \E v : Turns("hourly", v)
<1>. USE StoreAssumption
<1>1. "hourly" \in Timers
  BY TimersAreKnown
<1>. DEFINE u == writer["hourly"]
            v == [u EXCEPT !.running = FALSE, !.txn = Sweep(now - RETENTION)]
<1>2. u \in Writer /\ u.left \subseteq mounts /\ u.running /\ now \in Nat /\ swept \in Int
  BY <1>1 DEF HourlySweep, Inv, TypeInv
<1>3. writer' = [writer EXCEPT !["hourly"] = v]
  BY <1>1 DEF HourlySweep, Inv, TypeInv
<1>4. /\ v \in Writer /\ v.txn.rows = {} /\ v.txn.cutoff = now - RETENTION
      /\ v.at = u.at /\ v.left = u.left
  <2>1. /\ Sweep(now - RETENTION) \in Txn /\ Sweep(now - RETENTION).rows = {}
        /\ Sweep(now - RETENTION).cutoff = now - RETENTION
    BY <1>2 DEF Sweep, Txn
  <2>. QED
    BY <1>2, <2>1 DEF Writer
<1>5. now - u.at <= MaxLag
  BY <1>1, <1>2 DEF Inv, FreshInv, Waiting
<1>. HIDE DEF v, u
<1>6. swept <= v.txn.cutoff /\ v.txn.cutoff <= now - RETENTION
  BY <1>2, <1>4 DEF Inv, HorizonInv
<1>7. writer["hourly"].txn = NoTxn
  BY DEF HourlySweep
<1>8. ticks' \in Nat /\ UNCHANGED <<now, mounts, isOpen, rows, holder, written, swept, restarts>>
  BY DEF HourlySweep, Inv, TypeInv
<1>9. v.left \subseteq mounts /\ now - v.at <= MaxLag
  BY <1>2, <1>4, <1>5
<1>. QED
  BY <1>1, <1>3, <1>4, <1>6, <1>7, <1>8, <1>9 DEF Turns

\* What the holder of the file is left with, whether it commits or not.
LEMMA TransactionOver ==
    ASSUME Inv, NEW w \in Timers, writer' = [writer EXCEPT ![w].txn = NoTxn]
    PROVE  /\ writer' \in [Timers -> Writer]
           /\ writer'[w] = [writer[w] EXCEPT !.txn = NoTxn] /\ writer'[w].txn = NoTxn
           /\ \A u \in Timers : u # w => writer'[u] = writer[u]
           /\ \A u \in Timers : /\ writer'[u].left = writer[u].left
                                 /\ writer'[u].at = writer[u].at
                                 /\ writer'[u].running = writer[u].running
           /\ NoTxn.rows = {} /\ NoTxn.cutoff = None
<1>1. writer \in [Timers -> Writer]
  BY DEF Inv, TypeInv
<1>2. [writer[w] EXCEPT !.txn = NoTxn] \in Writer
  BY <1>1 DEF Writer, Txn, NoTxn
<1>3. writer' = [writer EXCEPT ![w] = [writer[w] EXCEPT !.txn = NoTxn]]
  BY <1>1
<1>4. writer[w] \in Writer /\ writer'[w] = [writer[w] EXCEPT !.txn = NoTxn]
  BY <1>1, <1>3
<1>5. /\ writer'[w].txn = NoTxn /\ writer'[w].left = writer[w].left
      /\ writer'[w].at = writer[w].at /\ writer'[w].running = writer[w].running
  BY <1>4 DEF Writer
<1>. QED
  BY <1>1, <1>2, <1>3, <1>4, <1>5 DEF NoTxn

LEMMA CommitInv ==
    ASSUME Inv, NEW w \in Timers, Commit(w)
    PROVE  Inv'
<1>. USE StoreAssumption
<1>. DEFINE txn == writer[w].txn
<1>1. /\ holder = w /\ holder' = None /\ UNCHANGED <<now, mounts, isOpen, ticks, restarts>>
      /\ writer' = [writer EXCEPT ![w].txn = NoTxn]
  BY DEF Commit
<1>2. /\ now \in Nat /\ swept \in Int /\ rows \subseteq RowType /\ written \subseteq RowType
      /\ writer \in [Timers -> Writer] /\ txn \in Txn
  BY DEF Inv, TypeInv, Writer
<1>3. \A r \in RowType : r.at \in Int
  BY DEF RowType
<1>4. CASE txn.cutoff = None
  <2>1. rows' = rows \cup txn.rows /\ written' = written \cup txn.rows /\ swept' = swept
    BY <1>4 DEF Commit
  <2>2. TypeInv'
    BY <1>1, <1>2, <2>1, TransactionOver DEF Inv, TypeInv, Txn
  <2>3. HorizonInv'
    BY <1>1, <2>1, TransactionOver DEF Inv, HorizonInv
  <2>4. FreshInv'
    BY <1>1, TransactionOver DEF Inv, FreshInv, Waiting
  <2>5. FileInv'
    BY <1>1, <2>1 DEF Inv, FileInv, NothingYoungIsLost
  <2>. QED
    BY <2>2, <2>3, <2>4, <2>5 DEF Inv
<1>5. CASE txn.cutoff # None
  <2>1. rows' = rows \ Expired(txn.cutoff) /\ written' = written /\ swept' = txn.cutoff
    BY <1>5 DEF Commit
  <2>2. /\ w = "hourly" /\ txn.cutoff \in Int
        /\ swept <= txn.cutoff /\ txn.cutoff <= now - RETENTION
    BY <1>2, <1>5 DEF Inv, HorizonInv, Txn
  <2>3. TypeInv'
    BY <1>1, <1>2, <2>1, <2>2, TransactionOver DEF Inv, TypeInv
  <2>4. HorizonInv'
    BY <1>1, <2>1, <2>2, TransactionOver DEF Inv, HorizonInv
  <2>5. FreshInv'
    BY <1>1, TransactionOver DEF Inv, FreshInv, Waiting
  <2>6. FileInv'
    <3>1. \A r \in written : r.at >= now - RETENTION => r \in rows /\ r \notin Expired(txn.cutoff)
      BY <1>2, <1>3, <2>2 DEF Inv, FileInv, NothingYoungIsLost, Expired
    <3>. QED
      BY <1>1, <2>1, <3>1 DEF Inv, FileInv, NothingYoungIsLost
  <2>. QED
    BY <2>3, <2>4, <2>5, <2>6 DEF Inv
<1>. QED
  BY <1>4, <1>5

LEMMA AbortInv ==
    ASSUME Inv, NEW w \in Timers, Abort(w)
    PROVE  Inv'
<1>1. /\ holder' = None /\ writer' = [writer EXCEPT ![w].txn = NoTxn]
      /\ UNCHANGED <<now, mounts, isOpen, rows, written, swept, ticks, restarts>>
  BY DEF Abort
<1>2. TypeInv'
  BY <1>1, TransactionOver DEF Inv, TypeInv
<1>3. HorizonInv'
  BY <1>1, TransactionOver DEF Inv, HorizonInv
<1>4. FreshInv'
  BY <1>1, TransactionOver DEF Inv, FreshInv, Waiting
<1>5. FileInv'
  BY <1>1 DEF Inv, FileInv, NothingYoungIsLost
<1>. QED
  BY <1>2, <1>3, <1>4, <1>5 DEF Inv

LEMMA BeginWriteInv ==
    ASSUME Inv, NEW w \in Timers, BeginWrite(w)
    PROVE  Inv'
  BY DEF BeginWrite, Inv, TypeInv, HorizonInv, FreshInv, FileInv, Waiting, NothingYoungIsLost

LEMMA TickInv ==
    ASSUME Inv, Tick
    PROVE  Inv'
<1>. USE StoreAssumption
<1>1. /\ now \in Nat /\ now' = now + 1 /\ swept \in Int /\ written \subseteq RowType
      /\ writer \in [Timers -> Writer]
      /\ UNCHANGED <<mounts, isOpen, rows, writer, holder, written, swept, ticks, restarts>>
  BY DEF Tick, Inv, TypeInv
<1>2. \A w \in Timers : /\ writer[w].at \in Nat
                        /\ writer[w].txn.cutoff \in Int \cup {None}
  BY <1>1 DEF Writer, Txn
<1>3. \A r \in RowType : r.at \in Int
  BY DEF RowType
<1>4. TypeInv'
  BY <1>1 DEF Inv, TypeInv
<1>5. HorizonInv'
  BY <1>1, <1>2 DEF Inv, HorizonInv
<1>6. FreshInv'
  BY <1>1, <1>2 DEF Tick, Inv, FreshInv, Waiting
<1>7. FileInv'
  BY <1>1, <1>3 DEF Inv, FileInv, NothingYoungIsLost
<1>. QED
  BY <1>4, <1>5, <1>6, <1>7 DEF Inv

LEMMA RestartInv ==
    ASSUME Inv, Restart
    PROVE  Inv'
<1>1. /\ mounts' \in Mountings /\ isOpen' \in BOOLEAN /\ holder' = None /\ restarts' = restarts + 1
      /\ writer' = [w \in Timers |-> Between(writer[w].at)]
      /\ UNCHANGED <<now, rows, written, swept, ticks>>
  BY DEF Restart
<1>2. \A w \in Timers : writer[w].at \in Nat
  BY DEF Inv, TypeInv, Writer
<1>3. /\ writer' \in [Timers -> Writer]
      /\ \A w \in Timers : /\ writer'[w].txn = NoTxn /\ writer'[w].left = {}
                            /\ writer'[w].running = FALSE
  BY <1>1, <1>2, BetweenType
<1>4. NoTxn.rows = {} /\ NoTxn.cutoff = None
  BY DEF NoTxn
<1>5. TypeInv'
  <2>1. /\ restarts' \in Nat /\ now' \in Nat /\ rows' \subseteq RowType /\ written' \subseteq RowType
        /\ swept' \in Int /\ ticks' \in Nat
    BY <1>1 DEF Inv, TypeInv
  <2>. QED
    BY <1>1, <1>3, <2>1 DEF TypeInv
<1>6. HorizonInv'
  BY <1>1, <1>3, <1>4 DEF Inv, HorizonInv
<1>7. FreshInv'
  BY <1>3, <1>4 DEF FreshInv, Waiting
<1>8. FileInv'
  BY <1>1 DEF Inv, FileInv, NothingYoungIsLost
<1>. QED
  BY <1>5, <1>6, <1>7, <1>8 DEF Inv

LEMMA StepInv == Inv /\ [Next]_storeVars => Inv'
<1>. SUFFICES ASSUME Inv, [Next]_storeVars PROVE Inv'
  OBVIOUS
<1>1. CASE UNCHANGED storeVars
  BY <1>1 DEF storeVars, Inv, TypeInv, HorizonInv, FreshInv, FileInv, Waiting, NothingYoungIsLost
<1>2. ASSUME NEW t \in Table \ Hourly, SeriesTick(t) PROVE Inv'
  BY <1>2, SeriesTickTurns, TurnsInv, TimersAreKnown
<1>3. CASE HourlyTick
  BY <1>3, HourlyTickTurns, TurnsInv, TimersAreKnown
<1>4. CASE HourlySweep
  BY <1>4, HourlySweepTurns, TurnsInv, TimersAreKnown
<1>5. ASSUME NEW p \in Path, HourlyVisit(p) PROVE Inv'
  BY <1>5, HourlyVisitTurns, TurnsInv, TimersAreKnown
<1>6. ASSUME NEW w \in Timers, BeginWrite(w) \/ Commit(w) \/ Abort(w) PROVE Inv'
  BY <1>6, BeginWriteInv, CommitInv, AbortInv
<1>7. CASE Tick
  BY <1>7, TickInv
<1>8. CASE Restart
  BY <1>8, RestartInv
<1>. QED
  BY <1>1, <1>2, <1>3, <1>4, <1>5, <1>6, <1>7, <1>8 DEF Next


\* The invariant holds in every state, through every restart and failed
\* transaction (MetricsStore::open, write, collect_garbage_before).
THEOREM Invariance == Spec => []Inv
  BY InitInv, StepInv, PTL DEF Spec
-----------------------------------------------------------------------------
(* Theorems.                                                               *)

\* Every reachable state is well typed, and only a timer with a transaction
\* holds the file (TypeOK).
THEOREM TypeCorrect == Spec => []TypeOK
<1>1. TypeInv => TypeOK
  BY MountsArePaths DEF TypeInv, TypeOK, Writer, Txn
<1>. QED
  BY <1>1, Invariance, PTL DEF Inv

\* A row that was committed stays until it is older than RETENTION
\* (collect_garbage, delete_older_than).
THEOREM RetentionHolds == Spec => []NothingYoungIsLost
  BY Invariance, PTL DEF Inv, FileInv

-----------------------------------------------------------------------------
(* What a request returns.                                                 *)

LEMMA ClampedBounds ==
    ASSUME NEW h \in Asked
    PROVE  /\ Clamped(h) \in Int /\ Clamped(h) >= 1
           /\ Clamped(h) >= h \/ Clamped(h) >= RETENTION
  BY StoreAssumption DEF Clamped

LEMMA SeriesOfError ==
    \A t \in Table : EmptyModel(TRUE).series[t] = {} /\ EmptyModel(TRUE).error = TRUE
  BY DEF EmptyModel

LEMMA SeriesOfRows ==
    ASSUME NEW table \in Table, NEW R
    PROVE  LET model == WithRows(EmptyModel(FALSE), table, R) IN
           /\ model.error = FALSE
           /\ \A t \in Table \ {table} : model.series[t] = {}
           /\ model.series[table] = {Point(r) : r \in R}
<1>. DEFINE empty == EmptyModel(FALSE)
            points == {Point(r) : r \in R}
            model == WithRows(empty, table, R)
<1>1. empty.error = FALSE /\ empty = [error |-> empty.error, series |-> empty.series]
      /\ empty.series = [t \in Table |-> {}]
  BY DEF EmptyModel
<1>2. model = [empty EXCEPT !.series[table] = points]
  BY DEF WithRows
<1>. HIDE DEF empty, points, model
<1>3. model.error = FALSE /\ model.series = [empty.series EXCEPT ![table] = points]
  BY <1>1, <1>2
<1>4. model.series[table] = points /\ \A t \in Table \ {table} : model.series[t] = {}
  BY <1>1, <1>3
<1>. QED
  BY <1>3, <1>4 DEF empty, points, model

\* One answer, for a database that is served.
LEMMA AnswerIsFaithful ==
    ASSUME Inv, NEW p \in Path, NEW section \in Sections, NEW h \in Asked, NEW lag \in 0 .. MaxLag
    PROVE  LET table == TableOf(section)
               own   == {r \in written : r.table = table /\ r.path[1] = p[1]}
               model == HandleRequest(p, section, h, lag)
               found == {point.value : point \in model.series[table]}
           IN  /\ \A t \in Table \ {table} : model.series[t] = {}
               /\ found \subseteq own
               /\ \A point \in model.series[table] : point.at = point.value.at
               /\ model.error => found = {} /\ ~isOpen
               /\ ~model.error =>
                      \A r \in own : /\ r.at <= now - lag
                                     /\ r.at >= now - RETENTION
                                     /\ \E k \in {1, h} : r.at >= now - lag - k
                                     => r \in found
<1>. DEFINE table == TableOf(section)
            R == Read(table, Window(h, lag), p)
            model == HandleRequest(p, section, h, lag)
            own == {r \in written : r.table = table /\ r.path[1] = p[1]}
<1>1. table \in Table
  BY SectionAssumption
<1>2. CASE ~isOpen
  <2>1. model = EmptyModel(TRUE)
    BY <1>2 DEF HandleRequest
  <2>. HIDE DEF model, table
  <2>. QED
    BY <1>1, <1>2, <2>1, SeriesOfError DEF model, table
<1>3. CASE isOpen
  <2>1. model = WithRows(EmptyModel(FALSE), table, R)
    BY <1>3 DEF HandleRequest
  <2>. HIDE DEF model, table, R
  <2>2. /\ model.error = FALSE /\ model.series[table] = {Point(r) : r \in R}
        /\ \A t \in Table \ {table} : model.series[t] = {}
    BY <1>1, <2>1, SeriesOfRows
  <2>3. \A r \in R : Point(r).value = r /\ Point(r).at = r.at
    BY DEF Point
  <2>4. {point.value : point \in model.series[table]} = R
    BY <2>2, <2>3
  <2>5. R \subseteq own
    BY DEF R, Read, PathsAreEqual, Inv, FileInv
  <2>6. ASSUME NEW r \in own, r.at <= now - lag, r.at >= now - RETENTION,
               NEW k \in {1, h}, r.at >= now - lag - k
        PROVE  r \in R
    <3>1. r \in rows /\ r.at \in Int /\ now \in Nat /\ lag \in Nat /\ h \in Int
      BY <2>6, StoreAssumption DEF Inv, FileInv, NothingYoungIsLost, TypeInv, RowType
    <3>2. r.at \in Window(h, lag)
      <4>1. r.at >= now - lag - Clamped(h)
        BY <2>6, <3>1, ClampedBounds, StoreAssumption
      <4>. QED
        BY <2>6, <3>1, <4>1, ClampedBounds DEF Window
    <3>. QED
      BY <3>1, <3>2 DEF R, Read, PathsAreEqual
  <2>. QED
    BY <2>2, <2>3, <2>4, <2>5, <2>6 DEF model, table
<1>. QED
  BY <1>2, <1>3

\* A request returns all the rows of its mount in its window and nothing else,
\* or says that it could not read (history_action.rs).
THEOREM RequestsAreFaithful == Spec => []ReadIsFaithful
<1>1. Inv => ReadIsFaithful
  <2>. SUFFICES ASSUME Inv PROVE ReadIsFaithful
    OBVIOUS
  <2>1. UNION {GetDb(asked) : asked \in Path} \subseteq Path
    BY MountsArePaths DEF GetDb, Inv, TypeInv
  <2>. QED
    BY <2>1, AnswerIsFaithful DEF ReadIsFaithful
<1>. QED
  BY <1>1, Invariance, PTL

-----------------------------------------------------------------------------
(* The file implements the log.                                            *)

\* What two timers have waiting has nothing in common.
LEMMA BatchesAreDisjoint ==
    ASSUME Inv, NEW u \in Timers, NEW w \in Timers, u # w
    PROVE  writer[u].txn.rows \cap writer[w].txn.rows = {}
<1>1. TablesOf(u) \cap TablesOf(w) = {}
  BY TimersAreKnown DEF TablesOf
<1>. QED
  BY <1>1 DEF Inv, FreshInv

LEMMA TurnsLogs ==
    ASSUME Inv, NEW w \in Timers, NEW v, Turns(w, v)
    PROVE  [History!Next]_(History!logVars)
<1>1. /\ writer'[w] = v /\ \A u \in Timers : u # w => writer'[u] = writer[u]
      /\ rows' = rows /\ swept' = swept /\ v \in Writer /\ writer[w].txn.rows = {}
  BY DEF Inv, TypeInv, Turns, NoTxn
<1>2. Waited \subseteq Waited' /\ Waited' \ Waited \subseteq {v.txn.rows} \ {{}}
  BY <1>1 DEF Waited
<1>3. v.txn.rows \in SUBSET RowType
  BY <1>1 DEF Writer, Txn
<1>4. History!Offer
  BY <1>1, <1>2, <1>3 DEF History!Offer
<1>. QED
  BY <1>4 DEF History!Next

LEMMA CommitLogs ==
    ASSUME Inv, NEW w \in Timers, Commit(w)
    PROVE  [History!Next]_(History!logVars)
<1>. DEFINE txn == writer[w].txn
<1>1. /\ writer'[w].txn.rows = {} /\ \A u \in Timers : u # w => writer'[u] = writer[u]
  BY TransactionOver DEF Commit
<1>2. Waited' = Waited \ {txn.rows}
  BY <1>1, BatchesAreDisjoint DEF Waited
<1>3. /\ now \in Nat /\ swept \in Int /\ rows \subseteq RowType /\ txn \in Txn
      /\ writer[w].at \in Nat /\ txn # NoTxn
  BY TimersAreKnown DEF Commit, Inv, TypeInv, Writer
<1>4. \A r \in RowType : r.at \in Int
  BY DEF RowType
<1>5. CASE txn.cutoff = None
  <2>1. rows' = rows \cup txn.rows /\ swept' = swept
    BY <1>5 DEF Commit
  <2>2. txn.rows # {}
    BY <1>3, <1>5 DEF Txn, NoTxn
  <2>3. txn.rows \in Waited
    BY <2>2 DEF Waited
  <2>4. \A r \in txn.rows : r.at >= swept
    BY <1>3, StoreAssumption DEF Inv, FreshInv, HorizonInv, Waiting
  <2>5. History!Append
    BY <1>2, <2>1, <2>3, <2>4 DEF History!Append
  <2>. QED
    BY <2>5 DEF History!Next
<1>6. CASE txn.cutoff # None
  <2>1. rows' = rows \ Expired(txn.cutoff) /\ swept' = txn.cutoff
    BY <1>6 DEF Commit
  <2>2. txn.cutoff \in Int /\ swept <= txn.cutoff /\ txn.rows = {}
    BY <1>3, <1>6 DEF Inv, HorizonInv, Txn
  <2>3. {} \notin Waited
    BY DEF Waited
  <2>4. Waited' = Waited
    BY <1>2, <2>2, <2>3
  <2>5. rows' = {r \in rows : r.at >= swept'}
    BY <1>3, <1>4, <2>1, <2>2 DEF Expired
  <2>6. History!Expire
    BY <1>3, <2>1, <2>2, <2>4, <2>5 DEF History!Expire
  <2>. QED
    BY <2>6 DEF History!Next
<1>. QED
  BY <1>5, <1>6

LEMMA AbortLogs ==
    ASSUME Inv, NEW w \in Timers, Abort(w)
    PROVE  [History!Next]_(History!logVars)
<1>1. /\ writer'[w].txn.rows = {} /\ \A u \in Timers : u # w => writer'[u] = writer[u]
      /\ rows' = rows /\ swept' = swept
  BY TransactionOver DEF Abort
<1>2. Waited' \subseteq Waited
  BY <1>1 DEF Waited
<1>3. History!Lose
  BY <1>1, <1>2 DEF History!Lose
<1>. QED
  BY <1>3 DEF History!Next

LEMMA RestartLogs ==
    ASSUME Inv, Restart
    PROVE  [History!Next]_(History!logVars)
<1>1. /\ writer' = [w \in Timers |-> Between(writer[w].at)]
      /\ rows' = rows /\ swept' = swept
  BY DEF Restart
<1>2. \A w \in Timers : writer'[w].txn.rows = {}
  BY <1>1 DEF Between, NoTxn
<1>3. Waited' = {}
  BY <1>2 DEF Waited
<1>4. History!Lose
  BY <1>1, <1>3 DEF History!Lose
<1>. QED
  BY <1>4 DEF History!Next

LEMMA StillLogs ==
    ASSUME UNCHANGED <<writer, rows, swept>>
    PROVE  [History!Next]_(History!logVars)
  BY DEF Waited, History!logVars

LEMMA InitLogs == Init => History!Init
  BY DEF Init, History!Init, Waited, Between, NoTxn

LEMMA StepLogs == Inv /\ [Next]_storeVars => [History!Next]_(History!logVars)
<1>. SUFFICES ASSUME Inv, [Next]_storeVars PROVE [History!Next]_(History!logVars)
  OBVIOUS
<1>1. CASE UNCHANGED storeVars
  BY <1>1, StillLogs DEF storeVars
<1>2. ASSUME NEW t \in Table \ Hourly, SeriesTick(t) PROVE [History!Next]_(History!logVars)
  BY <1>2, SeriesTickTurns, TurnsLogs, TimersAreKnown
<1>3. CASE HourlyTick
  BY <1>3, HourlyTickTurns, TurnsLogs, TimersAreKnown
<1>4. CASE HourlySweep
  BY <1>4, HourlySweepTurns, TurnsLogs, TimersAreKnown
<1>5. ASSUME NEW p \in Path, HourlyVisit(p) PROVE [History!Next]_(History!logVars)
  BY <1>5, HourlyVisitTurns, TurnsLogs, TimersAreKnown
<1>6. ASSUME NEW w \in Timers, BeginWrite(w) PROVE [History!Next]_(History!logVars)
  BY <1>6, StillLogs DEF BeginWrite
<1>7. ASSUME NEW w \in Timers, Commit(w) \/ Abort(w) PROVE [History!Next]_(History!logVars)
  BY <1>7, CommitLogs, AbortLogs
<1>8. CASE Tick
  BY <1>8, StillLogs DEF Tick
<1>9. CASE Restart
  BY <1>9, RestartLogs
<1>. QED
  BY <1>1, <1>2, <1>3, <1>4, <1>5, <1>6, <1>7, <1>8, <1>9 DEF Next

\* Every step of the file is a step of the log or leaves it alone: a batch is
\* visible whole or not at all, and nothing returns from behind a horizon
\* (MetricsStore::write, collect_garbage_before).
THEOREM FileIsALog == Spec => HistoryIsALog
  BY Invariance, InitLogs, StepLogs, PTL DEF Spec, HistoryIsALog, History!Spec
=============================================================================
