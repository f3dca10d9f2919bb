------------------------------- MODULE Charts -------------------------------
(***************************************************************************)
(* ui/src/components/chart.rs, load_chart.rs and the window that           *)
(* refresh_chart (pages/stats.rs) gives the panels: from the samples that  *)
(* were recorded to the lines that are drawn and the value under the       *)
(* crosshair.                                                              *)
(*                                                                         *)
(* Time is counted in ticks of the collector; a tick records a sample of a *)
(* database, or nothing when the database cannot be read.  The panels are  *)
(* fetched one after the other, and the clock goes on meanwhile.           *)
(***************************************************************************)
EXTENDS Integers, Sequences, SequencesExt

\* One refresh is followed from its start to the panels it draws: refreshes
\* share nothing but what has been recorded.
CONSTANTS Series,   \* the databases of the server, in their order
          Span,      \* the chart window: CHART_HOURS, and the hours asked for
          Gap,       \* FAST_GAP_MS: a line breaks when samples are further apart
          MaxNow     \* bound on the clock

ASSUME ChartsAssumption == Span \in Nat /\ Gap \in Nat

VARIABLES now, recorded,  \* panel -> times of its samples, oldest first
          fetching,       \* how many panels have been fetched, -1 when they are drawn
          points,         \* panel -> the samples fetched so far
          startedAt,      \* when the first panel was asked for
          drawn           \* what is on screen: points, window, and how long it took

chartVars == <<now, recorded, fetching, points, startedAt, drawn>>

Nothing == [p \in DOMAIN Series |-> <<>>]

-----------------------------------------------------------------------------
(* chart.rs.                                                               *)

Joins(segment, at) == at - Last(segment) <= Gap

\* A sample joins the one before it or opens a segment of its own.
Extended(segments, at) ==
    IF segments # <<>> /\ Joins(Last(segments), at)
    THEN [segments EXCEPT ![Len(segments)] = Append(@, at)]
    ELSE Append(segments, <<at>>)

Segments(series) ==
    LET upto[n \in 0..Len(series)] ==
            IF n = 0 THEN <<>> ELSE Extended(upto[n - 1], series[n])
    IN upto[Len(series)]

-----------------------------------------------------------------------------
(* load_chart.rs, and minute_chart.rs in the same way.                     *)

\* The panel is as wide as the window is long; what lies outside is put on the
\* edge.
X(at) == IF at < drawn.from THEN 0
         ELSE IF at > drawn.to THEN drawn.to - drawn.from ELSE at - drawn.from

\* A segment is a line through its samples; a lone sample, which has none, is a
\* dot.
PanelMarks(series) == [k \in DOMAIN Segments(series) |->
    LET segment == Segments(series)[k] IN
    [shape |-> IF Len(segment) = 1 THEN "dot" ELSE "line",
     xs |-> [i \in DOMAIN segment |-> X(segment[i])]]]

-----------------------------------------------------------------------------
(* refresh_chart.                                                          *)

\* What may have been recorded in the window.
Histories == {s \in UNION {[1..n -> 0..Span] : n \in 0..(Span + 1)} :
                 \A i \in 1..(Len(s) - 1) : s[i] < s[i + 1]}

\* A refresh is asked for when anything may have been recorded in the window.
ChartInit == /\ now = Span /\ startedAt = Span /\ fetching = 0 /\ points = Nothing
             /\ drawn = [points |-> Nothing, from |-> 0, to |-> 0, took |-> 0]
             /\ recorded \in [DOMAIN Series -> Histories]

\* The collector's clock: some of the databases answer.
ChartTick(answer) ==
    /\ fetching >= 0 /\ now < MaxNow /\ now' = now + 1
    /\ recorded' = [p \in DOMAIN Series |-> IF p \in answer THEN Append(recorded[p], now + 1)
                                             ELSE recorded[p]]
    /\ UNCHANGED <<fetching, points, startedAt, drawn>>

\* The server answers with the last hour, counted from its own clock.
LastHour(series) ==
    LET recent == {i \in DOMAIN series : series[i] >= now - Span} IN
    IF recent = {} THEN <<>>
    ELSE SubSeq(series, CHOOSE i \in recent : \A j \in recent : i <= j, Len(series))

\* A panel that is not answered stays empty, and the others are fetched.
FetchPanel(answered) ==
    /\ fetching \in 0..(Len(Series) - 1) /\ fetching' = fetching + 1
    /\ points' = [points EXCEPT ![fetching + 1] = IF answered THEN LastHour(recorded[fetching + 1])
                                                  ELSE <<>>]
    /\ UNCHANGED <<now, recorded, startedAt, drawn>>

\* Mistake: the window ends at the newest sample of the first panel.
NewestOfFirst(series) == IF series[1] = <<>> THEN 0 ELSE Last(series[1])

\* The window ends at the newest sample of all the panels.
Newest(series) == LET lasts == {Last(series[p]) : p \in {q \in DOMAIN series : series[q] # <<>>}} IN
                  IF lasts = {} THEN 0 ELSE CHOOSE t \in lasts : \A u \in lasts : u <= t

DrawPanels == /\ fetching = Len(Series) /\ fetching' = -1
              /\ drawn' = [points |-> points, to |-> Newest(points),
                           from |-> Newest(points) - Span, took |-> now - startedAt]
              /\ UNCHANGED <<now, recorded, points, startedAt>>

ChartNext == \/ \E answered \in BOOLEAN : FetchPanel(answered)
             \/ DrawPanels
             \/ \E answer \in SUBSET (DOMAIN Series) : ChartTick(answer)

-----------------------------------------------------------------------------
(* Properties.                                                             *)

\* What was recorded is what one sees.  No line is drawn across an outage and
\* none is broken by a late tick: the marks are the samples of the panel in
\* their order, cut exactly where nothing was recorded for longer than the gap.
\* Every sample stands where it was taken, none beyond the right edge; the ones
\* that are squeezed onto the left edge are no older than the time the refresh
\* took, because the panels are fetched one after the other and the window ends
\* at the newest sample of all (segments, LoadPanel, refresh_chart).
DrawnAsRecorded ==
    \A p \in DOMAIN Series :
        LET series == drawn.points[p]
            marks == PanelMarks(series)
            cuts == {i \in 1..(Len(series) - 1) : \A t \in 1..Gap : series[i] + t < series[i + 1]}
            ends[k \in 0..Len(marks)] == IF k = 0 THEN 0 ELSE ends[k - 1] + Len(marks[k].xs)
        IN /\ ends[Len(marks)] = Len(series) /\ {ends[k] : k \in 1..(Len(marks) - 1)} = cuts
           /\ \A k \in DOMAIN marks :
                  /\ marks[k].shape = "line" <=> Len(marks[k].xs) > 1
                  /\ \A i \in DOMAIN marks[k].xs : marks[k].xs[i] = X(series[ends[k - 1] + i])
           /\ \A t \in Range(series) :
                  /\ t <= drawn.to /\ drawn.from - drawn.took <= t
                  /\ drawn.from <= t => X(t) = t - drawn.from
=============================================================================
