------------------------------- MODULE DiskIo -------------------------------
(***************************************************************************)
(* db_stats/disk_io.rs: the disk I/O section of one database, from the     *)
(* counters of Postgres to GET /api/Stats.                                 *)
(*                                                                         *)
(* Every slow tick reads the counters of some tables, then, in a second    *)
(* query, those of the cluster's WAL, and compares them with what the      *)
(* previous tick saw.  Postgres goes on counting in between, and a counter *)
(* starts again from nothing when statistics are reset or a table is       *)
(* dropped and created anew.  Bytes and rates are the same differences in  *)
(* other units and are left out.                                           *)
(***************************************************************************)
EXTENDS Integers, Sequences, SequencesExt

CONSTANTS Relation,    \* the user tables of the database
          FETCH_N,     \* tables fetched, by what they have read in their life
          TOP_N,       \* tables published
          Versions,    \* server_version_num / 10000
          Unknown,
          MaxReads,    \* bound on what is read and written, in all
          MaxRestarts  \* bound on counters that start again

ASSUME DiskAssumption == /\ IsFiniteSet(Relation) /\ "wal" \notin Relation
                         /\ FETCH_N \in Nat /\ TOP_N \in Nat /\ Unknown \notin Int

VARIABLES version, count,   \* counter -> its value
          reading,          \* what the tick under way has fetched
          snapshot,         \* DbStatsCache.previous_disk_io
          shown,            \* the section as GET /api/Stats gives it
          real,             \* counter -> [sum, era]: what was really counted,
                            \* and how often it started again (history)
          seen,             \* counter -> its real at the last tick that published,
                            \* and whether that tick saw it (history)
          window            \* counter -> what the shown tick should say (history)

diskVars == <<version, count, reading, snapshot, shown, real, seen, window>>

Counter == Relation \cup {"wal"}
NoReading == [pc |-> "idle", rows |-> <<>>, real |-> [c \in Counter |-> [sum |-> 0, era |-> 0]]]
NoSnapshot == [reads_by_table |-> <<>>, wal |-> Unknown]

\* What GET /api/Stats shows of a section, and of one that holds no data.
DiskIoModel(state, tables, writes, unavailable) ==
    [state |-> state, tables |-> tables, writes |-> writes, unavailable |-> unavailable]
Empty(state) == DiskIoModel(state, <<>>, Unknown, FALSE)

Seen(now, saw) == [c \in Counter |-> [sum |-> now[c].sum, era |-> now[c].era, saw |-> c \in saw]]
NoWindow == [c \in Counter |-> [reads |-> 0, told |-> FALSE]]

DiskInit == /\ version \in Versions /\ count = [c \in Counter |-> 0]
            /\ reading = NoReading /\ snapshot = NoSnapshot /\ shown = Empty("pending")
            /\ real = NoReading.real /\ seen = Seen(NoReading.real, {}) /\ window = NoWindow

-----------------------------------------------------------------------------
(* Postgres.                                                               *)

Total == FoldFunction(+, 0, [c \in Counter |-> real[c].sum])
Restarts == FoldFunction(+, 0, [c \in Counter |-> real[c].era])

Works(c) == /\ count' = [count EXCEPT ![c] = @ + 1] /\ real' = [real EXCEPT ![c].sum = @ + 1]
            /\ UNCHANGED <<version, reading, snapshot, shown, seen, window>>

\* pg_stat_reset, a reset of the WAL counters, a table created anew.
StartsAgain(C) == /\ count' = [c \in Counter |-> IF c \in C THEN 0 ELSE count[c]]
                  /\ real' = [c \in Counter |-> IF c \in C THEN [real[c] EXCEPT !.era = @ + 1] ELSE real[c]]
                  /\ UNCHANGED <<version, reading, snapshot, shown, seen, window>>

AtMost(limit, n) == IF n < limit THEN n ELSE limit

\* tables_sql: ORDER BY total_read DESC LIMIT FETCH_N, ties in any order.
Answers == {SubSeq(order, 1, AtMost(FETCH_N, Len(order))) :
               order \in {s \in SetToSeqs(Relation) :
                             \A i, j \in DOMAIN s : i < j => count[s[i]] >= count[s[j]]}}

-----------------------------------------------------------------------------
(* build.                                                                  *)

\* Mistake: nothing known of the table counts as nothing read before.
DeltaOfUnseen(current, previous) == CASE current = Unknown -> Unknown
                                      [] previous = Unknown -> current
                                      [] current < previous -> Unknown
                                      [] OTHER -> current - previous

Delta(current, previous) == CASE Unknown \in {current, previous} -> Unknown
                              [] current < previous -> Unknown
                              [] OTHER -> current - previous

OrZero(value) == IF value = Unknown THEN 0 ELSE value

Earlier(prev, t) == IF t \in DOMAIN prev.reads_by_table THEN prev.reads_by_table[t] ELSE Unknown

TablesIo(rows, prev) == [i \in DOMAIN rows |-> [table |-> rows[i].table, total |-> rows[i].total,
                                                delta |-> Delta(rows[i].total, Earlier(prev, rows[i].table))]]

\* Mistake: the list keeps the order of the query.
RankByTotal(tables) == SubSeq(tables, 1, TOP_N)

\* By what moved, then by the lifetime total; the sort is stable.
Before(tables, i, j) ==
    LET moved == OrZero(tables[i].delta) - OrZero(tables[j].delta)
        more == tables[i].total - tables[j].total
    IN moved > 0 \/ (moved = 0 /\ (more > 0 \/ (more = 0 /\ i < j)))

Place(tables, i) == Cardinality({j \in DOMAIN tables : Before(tables, j, i)}) + 1

\* sort_by and truncate.
Rank(tables) == [k \in 1..AtMost(TOP_N, Len(tables)) |->
                    tables[CHOOSE i \in DOMAIN tables : Place(tables, i) = k]]

\* WriteIo: who wrote the buffers is not known from 17 on.
WriteIo(wal, prev, v) == [wal |-> wal, delta |-> Delta(wal, prev.wal), backends |-> v < 17]

Build(rows, writes, prev) ==
    [tables |-> Rank(TablesIo(rows, prev)),
     next |-> [reads_by_table |-> [t \in {rows[i].table : i \in DOMAIN rows} |->
                                      rows[CHOOSE i \in DOMAIN rows : rows[i].table = t].total],
               wal |-> writes]]

-----------------------------------------------------------------------------
(* collect_disk_io and apply_slow_tick.                                    *)

TablesFail == /\ reading.pc = "idle" /\ shown' = Empty("unavailable") /\ window' = NoWindow
              /\ UNCHANGED <<version, count, reading, snapshot, real, seen>>

ReadTables == /\ reading.pc = "idle"
              /\ \E order \in Answers :
                    reading' = [pc |-> "writes", real |-> real,
                                rows |-> [i \in DOMAIN order |->
                                             [table |-> order[i], total |-> count[order[i]]]]]
              /\ UNCHANGED <<version, count, snapshot, shown, real, seen, window>>

\* What the reads of both ticks ought to differ by, and whether it can be told:
\* both ticks saw the counter and it did not start again in between.
Truth(now, saw) ==
    [c \in Counter |-> [reads |-> now[c].sum - seen[c].sum,
                        told |-> c \in saw /\ seen[c].saw /\ now[c].era = seen[c].era]]

\* Not asked before 14; refused or failed, the write half alone is missing.
Publish(asked) ==
    LET writes == IF asked THEN count["wal"] ELSE Unknown
        built == Build(reading.rows, writes, snapshot)
        now == [reading.real EXCEPT !["wal"] = real["wal"]]
        saw == {reading.rows[i].table : i \in DOMAIN reading.rows} \cup (IF asked THEN {"wal"} ELSE {})
        written == IF asked THEN WriteIo(writes, snapshot, version) ELSE Unknown
    IN /\ shown' = DiskIoModel("ready", built.tables, written, ~asked)
       /\ snapshot' = built.next
       /\ seen' = Seen(now, saw)
       /\ window' = Truth(now, saw)

ReadWrites == /\ reading.pc = "writes" /\ reading' = NoReading
              /\ \E asked \in BOOLEAN : (asked => version >= 14) /\ Publish(asked)
              /\ UNCHANGED <<version, count, real>>

DiskNext == \/ Total < MaxReads /\ \E c \in Counter : Works(c)
            \/ /\ Restarts < MaxRestarts
               /\ \E C \in {Relation, {"wal"}} \cup {{t} : t \in Relation} : StartsAgain(C)
            \/ TablesFail \/ ReadTables \/ ReadWrites

-----------------------------------------------------------------------------
(* Properties.                                                             *)

\* What a card says was read since the previous tick was read since then: never
\* more, and exactly that when the counter did not start again, however many
\* ticks failed and however the tables moved in and out of the fetch meanwhile;
\* and so for the WAL (build, delta).
Told(c, delta) == /\ delta # Unknown => delta <= window[c].reads
                  /\ window[c].told => delta = window[c].reads
NothingInvented ==
    /\ \A i \in DOMAIN shown.tables : Told(shown.tables[i].table, shown.tables[i].delta)
    /\ shown.writes # Unknown => Told("wal", shown.writes.delta)

\* The table that is being read off the disk now is on the card, also when it is
\* far down the lifetime list: no table that two ticks saw is left out for one
\* that read less (build).
HotTablesAreListed ==
    shown.state = "ready" =>
        LET listed == {shown.tables[i].table : i \in DOMAIN shown.tables} IN
        \A t \in Relation \ listed : window[t].told =>
            \A i \in DOMAIN shown.tables : OrZero(shown.tables[i].delta) >= window[t].reads
=============================================================================
