------------------------------ MODULE Timeline ------------------------------
(***************************************************************************)
(* The drawing of the waterfall: its three columns, which the reader drags *)
(* and the pane's width stretches (components/shared/utils/column-resize), *)
(* the ruler over the last one (WaterfallTimeAxisHeader.svelte) and the    *)
(* bars under it (WaterfallView.svelte, WaterfallRow.svelte).              *)
(*                                                                         *)
(* Widths are whole pixels: a share of a stretch is rounded down where the *)
(* code keeps the fraction.  Positions along the timeline are hundredths   *)
(* of a percent, as the code computes them.  A drag is its press, its      *)
(* moves and its release; the header's own handles, which nothing else     *)
(* knows of, drag in one step.  Colours and labels of bars are left out.   *)
(***************************************************************************)
EXTENDS Integers, FiniteSets, Sequences, SequencesExt

CONSTANTS Units,       \* UNITS: what each unit of time is, the smallest 1
          TickSteps,   \* TICK_COUNT_STEPS
          LabelSlot,   \* TICK_LABEL_SLOT_PX
          RulerPadding,\* RULER_PADDING_PX
          MaxAxisTicks,\* MAX_AXIS_TICKS
          Columns,     \* wfCols: sequence of [min, flex]
          PaneWidths,  \* widths the pane may take
          Drags        \* how far a pointer may move, in pixels

ASSUME TimelineAssumption ==
  /\ Units # <<>> /\ Units[1] = 1 /\ \A i \in DOMAIN Units : Units[i] \in Nat \ {0}
  /\ TickSteps \subseteq Nat \ {0} /\ TickSteps # {}
  /\ Columns \in Seq([min : Nat \ {0}, flex : Nat \ {0}]) /\ Columns # <<>>
  /\ PaneWidths \subseteq Nat \ {0} /\ Drags \subseteq Int

VARIABLES cols,       \* colWidths
          pane,       \* scrollContainerW
          resizing,   \* activeResizeCol, and the width it started from; {} when none
          fitted      \* history: the width the columns were last fitted to

columnVars == <<cols, pane, resizing, fitted>>

Added(s) == LET sum[n \in 0 .. Len(s)] == IF n = 0 THEN 0 ELSE sum[n - 1] + s[n] IN sum[Len(s)]
Least(a, b) == IF a < b THEN a ELSE b
Most(a, b) == IF a < b THEN b ELSE a
Distance(a, b) == Most(a, b) - Least(a, b)

----------------------------------------------------------------------------
(* The columns.  Every one of them is flexible.                            *)

\* computeInitialWidths
InitialWidths(w) ==
  [i \in DOMAIN Columns |->
     Most(Columns[i].min,
          (Columns[i].flex * w) \div Added([j \in DOMAIN Columns |-> Columns[j].flex]))]

\* Mutant: a share is handed out whatever the column's least width.
RedistributeWidths_NoMin(w) ==
  IF w = Added(cols) THEN cols
  ELSE [i \in DOMAIN cols |-> cols[i] + (cols[i] * (w - Added(cols))) \div Added(cols)]
\* redistributeWidths: each column takes its share of the difference, and what
\* a column at its least width cannot give is not asked of the others.
RedistributeWidths(w) ==
  IF w = Added(cols) THEN cols
  ELSE [i \in DOMAIN cols |->
          Most(Columns[i].min, cols[i] + (cols[i] * (w - Added(cols))) \div Added(cols))]

\* applyColumnResize: the column and the one to its right, each at its least.
ColumnResize(i, desired) ==
  LET delta == Most(Columns[i].min - cols[i],
                    Least(cols[i + 1] - Columns[i + 1].min, desired - cols[i]))
  IN [cols EXCEPT ![i] = @ + delta, ![i + 1] = @ - delta]

\* computeBarPositions: a handle after every column that has one to its right.
Handles == 1 .. Len(Columns) - 1

\* handleStartResize, startColumnResize
StartResize ==
  /\ resizing = {}
  /\ \E i \in Handles : resizing' = {[col |-> i, from |-> cols[i]]}
  /\ UNCHANGED <<cols, pane, fitted>>

MoveResize ==
  /\ \E r \in resizing, d \in Drags : cols' = ColumnResize(r.col, r.from + d)
  /\ UNCHANGED <<pane, resizing, fitted>>

EndResize ==
  /\ resizing # {} /\ resizing' = {}
  /\ UNCHANGED <<cols, pane, fitted>>

\* onResizeSpanCol, onResizeServiceCol: the handles in the header
HeaderResize ==
  /\ resizing = {}
  /\ \E i \in Handles, d \in Drags : cols' = ColumnResize(i, cols[i] + d)
  /\ UNCHANGED <<pane, resizing, fitted>>

\* the ResizeObserver: while a column is dragged only the width is noted
PaneResized ==
  /\ \E w \in PaneWidths \ {pane} :
       /\ pane' = w
       /\ cols' = IF resizing = {} THEN RedistributeWidths(w) ELSE cols
       /\ fitted' = IF resizing = {} THEN w ELSE fitted
  /\ UNCHANGED resizing

ColumnStep == StartResize \/ MoveResize \/ EndResize \/ HeaderResize \/ PaneResized

----------------------------------------------------------------------------
(* The ruler.                                                              *)

\* pickUnit: the largest unit that fits.
PickUnit(n) ==
  LET fit == {i \in DOMAIN Units : n >= Units[i]}
  IN IF fit = {} THEN Units[1] ELSE Units[CHOOSE i \in fit : \A j \in fit : j <= i]

Magnitudes == <<1, 10, 100, 1000>>

\* Mutant: only powers of ten are tried.
NiceStep_TensOnly(raw, unit) ==
  unit * Magnitudes[CHOOSE i \in DOMAIN Magnitudes :
                      /\ Magnitudes[i] * unit <= Most(raw, unit)
                      /\ i = Len(Magnitudes) \/ Most(raw, unit) < Magnitudes[i + 1] * unit]

\* niceStep: of 1, 2, 5, 10, 20 and 50 times the power of ten below the interval,
\* the nearest; of two, the one the code tries first.
NiceStep(raw, unit) ==
  LET n == Most(raw, unit)
      m == unit * Magnitudes[CHOOSE i \in DOMAIN Magnitudes :
                               /\ Magnitudes[i] * unit <= n
                               /\ i = Len(Magnitudes) \/ n < Magnitudes[i + 1] * unit]
      tried == <<m, 10 * m, 2 * m, 20 * m, 5 * m, 50 * m>>
      best == CHOOSE i \in DOMAIN tried :
                /\ \A j \in DOMAIN tried : Distance(n, tried[i]) <= Distance(n, tried[j])
                /\ \A j \in 1 .. i - 1 : Distance(n, tried[i]) < Distance(n, tried[j])
  IN tried[best]

\* How far along the timeline a point is.
Percent(at, duration) == IF duration <= 0 THEN 0 ELSE (at * 10000) \div duration

\* waterfallTimeAxis: a step that is nice in the unit of the interval, labelled
\* in the unit of the step; ticks from zero until the trace or the cap ends them.
WaterfallTimeAxis(duration, target) ==
  IF duration <= 0 THEN [unit |-> Units[1], step |-> 1, ticks |-> <<0>>]
  ELSE LET raw == duration \div Most(target, 1)
           step == NiceStep(raw, PickUnit(raw))
       IN [unit |-> PickUnit(step), step |-> step,
           ticks |-> [i \in 1 .. Least(duration \div step + 1, MaxAxisTicks) |-> (i - 1) * step]]

\* timelineColPx: what the other columns leave of the pane.
TimelineColPx == pane - Added(SubSeq(cols, 1, Len(cols) - 1))

\* targetTickCount: the most of TickSteps whose labels have room.
TargetTickCount ==
  LET fit == {n \in TickSteps : n * LabelSlot <= TimelineColPx - RulerPadding}
  IN IF fit = {} THEN CHOOSE n \in TickSteps : \A k \in TickSteps : n <= k
     ELSE CHOOSE n \in fit : \A k \in fit : k <= n

----------------------------------------------------------------------------
(* The bars.  A span is [start, end].                                      *)

\* getTraceBounds
TraceBounds(spans) ==
  IF spans = <<>> THEN [start |-> 0, end |-> 0]
  ELSE [start |-> FoldLeft(LAMBDA a, s : Least(a, s.start), spans[1].start, spans),
        end |-> FoldLeft(LAMBDA a, s : Most(a, s.end), spans[1].end, spans)]

Duration(spans) == TraceBounds(spans).end - TraceBounds(spans).start

\* buildWaterfallRows, getOffsetPercent, getWidthPercent: never below 0.3%.
Bar(spans, i) ==
  [left |-> Percent(spans[i].start - TraceBounds(spans).start, Duration(spans)),
   width |-> IF Duration(spans) <= 0 THEN 0
             ELSE Most(30, Percent(spans[i].end - spans[i].start, Duration(spans)))]
=============================================================================
