---------------------------- MODULE Distribution ----------------------------
(***************************************************************************)
(* The three charts of a histogram metric: the heatmap of its merged       *)
(* columns (Charts/HistogramHeatmap.svelte and its layout, colour scale    *)
(* and selection), the quantile lines of its series                        *)
(* (Charts/MetricQuantileAreaChart.svelte) and the bars of one             *)
(* distribution (Charts/HistogramChart.svelte).                            *)
(*                                                                         *)
(* Everything here is derived from the merged slices of the visible series *)
(* and a selected column; Charts holds the state.  Pixels are whole numbers, a *)
(* column's edge a fraction of them.  Row labels, ticks, colours and the   *)
(* wording of legends are left out.                                        *)
(***************************************************************************)
EXTENDS ScalarChart

CONSTANTS
  MinCell,        \* the narrowest a heatmap column may be, in pixels
  MaxSteps        \* the most bands the colour scale has

ASSUME ScaleAssumption == {MinCell, MaxSteps} \subseteq Nat \ {0}

Quantiles == {50, 95, 99}

\* Computed once: the merged columns of every set of visible series.
ColumnsOf ==
  [x \in {y \in Metrics : IsHistogram(y)} |-> [K \in SUBSET Keys(x) |-> Columns(x, K)]]

(* ------------------------------- heatmap ------------------------------- *)

\* The cells drawn: an empty bucket leaves the background.
HeatmapCells(slices) ==
  UNION {{[ms |-> Ms(s.at), row |-> i, count |-> s.counts[i]] :
            i \in {j \in DOMAIN s.counts : s.counts[j] # 0}} : s \in ToSet(slices)}

\* The columns drawn, in order.
TimeDomain(slices) == Ascending({d.ms : d \in HeatmapCells(slices)})

\* n columns fill the pane, or are MinCell wide and scroll.
PlotWidth(pane, n) ==
  IF n = 0 THEN 0 ELSE IF pane >= n * MinCell THEN pane ELSE n * MinCell

\* The band of the scale that column i of n is drawn in, as [from, to) / n.
DrawnBand(pane, n, i) == <<(i - 1) * PlotWidth(pane, n), i * PlotWidth(pane, n)>>

\* Mutant: the pitch is taken in whole pixels.
ClickedColumn_WholePixels(domain, pane, px) ==
  LET n == Len(domain)
      pitch == IF n = 0 THEN 0 ELSE PlotWidth(pane, n) \div n
      i == IF pitch = 0 THEN 0 ELSE px \div pitch + 1
  IN IF i \in 1 .. n THEN {domain[i]} ELSE {}
\* The column a click px pixels into the plot hits, as its milliseconds.
ClickedColumn(domain, pane, px) ==
  LET n == Len(domain)
      width == PlotWidth(pane, n)
      i == IF width = 0 THEN 0 ELSE (px * n) \div width + 1
  IN IF n > 0 /\ px <= width /\ i \in 1 .. n THEN {domain[i]} ELSE {}

\* The start, in nanoseconds, of the merged slice that reads ms.
ColumnOfMs(slices, ms) ==
  LET i == SelectInSeq(slices, LAMBDA s : Ms(s.at) = ms)
  IN IF i = 0 THEN ms * NsPerMs ELSE slices[i].at

\* The merged slice a selected column stands for, {} when there is none.
HeatmapColumnSelection(slices, b) ==
  LET exact == SelectInSeq(slices, LAMBDA s : s.at = b)
      near == SelectInSeq(slices, LAMBDA s : Ms(s.at) = Ms(b))
      i == IF exact = 0 THEN near ELSE exact
  IN IF i = 0 THEN {} ELSE {slices[i]}

(* --------------------------- the colour scale -------------------------- *)

Steps(counts) ==
  LET distinct == Cardinality(counts \ {0})
      most == IF counts = {} THEN 0 ELSE Max(counts)
      steps == IF distinct < 1 THEN 1 ELSE IF distinct > MaxSteps THEN MaxSteps ELSE distinct
  IN IF steps > most THEN most ELSE steps

CeilDiv(a, b) == (a + b - 1) \div b

\* The least count of each band, every one above the one before.
HeatmapCountThresholds(most, steps) ==
  LET edge[i \in 1 .. steps] ==
        IF i = 1 THEN 1
        ELSE LET next == CeilDiv((i - 1) * most, steps)
             IN IF next <= edge[i - 1] THEN edge[i - 1] + 1 ELSE next
  IN edge

\* The band a cell is painted in: 0 is the background.
PaintedBand(thresholds, count) == Cardinality({i \in DOMAIN thresholds : thresholds[i] <= count})

\* What the legend is built from, collected from the slices on its own.
LegendCounts(slices) ==
  UNION {{n \in ToSet(s.counts) : n # 0} : s \in ToSet(slices)}

\* The counts each swatch of the legend says it stands for.
LegendBands(slices) ==
  LET counts == LegendCounts(slices)
      steps == Steps(counts)
      edge == HeatmapCountThresholds(Max(counts \cup {0}), steps)
  IN [i \in 1 .. steps |->
        edge[i] .. (IF i = steps THEN Max(counts) ELSE edge[i + 1] - 1)]

\* The scale the cells are painted with.
CellThresholds(slices) ==
  LET counts == {d.count : d \in HeatmapCells(slices)}
  IN HeatmapCountThresholds(Max(counts \cup {0}), Steps(counts))

(* --------------------------- quantile lines ---------------------------- *)

\* The line of a series at one quantile: its own slices, those with a value.
QuantileLine(x, k, q) ==
  LET slices == Keeping(ColumnsOf[x][{k}], {s \in ToSet(ColumnsOf[x][{k}]) : Quantile(s.counts, q) # {}})
  IN [i \in DOMAIN slices |->
        [ms |-> Ms(slices[i].at), v |-> CHOOSE v \in Quantile(slices[i].counts, q) : TRUE]]

\* Mutant: a column ends where the next one starts.
HeatmapColumnEnd_Touching(slices, b) ==
  LET starts == {s.at : s \in ToSet(slices)}
      after == {s \in starts : s > b}
  IN IF after # {} THEN {Min(after)} ELSE {Window.end}
\* The last instant of a selected column: before the next column's start; the
\* last one borrows the gap before it, a lone one takes the window's end.
HeatmapColumnEnd(slices, b) ==
  LET starts == {s.at : s \in ToSet(slices)}
      after == {s \in starts : s > b}
      last == Max(starts)
  IN IF starts = {} THEN {}
     ELSE IF b \in starts /\ after # {} THEN {Min(after) - 1}
     ELSE IF Cardinality(starts) >= 2 THEN {b + (last - Max(starts \ {last})) - 1}
     ELSE IF Window.end > b THEN {Window.end} ELSE {}

\* What the store sends for the selected column: how many observations each
\* visible series has between its two ends.  The query reads no sample before
\* the column, so the first running total it reads measures nothing.
ColumnDistribution(x, K, slices, b) ==
  LET read(k) == {i \in DOMAIN Dps(x, k) :
                    \E e \in HeatmapColumnEnd(slices, b) : Dps(x, k)[i].t \in b .. e}
  IN [k \in {j \in K : Measured(x, read(j)) # {}} |->
        SumFunction([i \in Measured(x, read(k)) |-> TotalSince(x, k, i)])]

(* --------------------------------- bars -------------------------------- *)

\* A bar for each bucket; the outer two are open, which -1 and +1 beyond the
\* bounds stand for.
Bars(counts) ==
  [i \in DOMAIN counts |->
     [lo |-> IF i = 1 THEN {} ELSE {Bounds[i - 1] * Unit},
      hi |-> IF i = Len(counts) THEN {} ELSE {Bounds[i] * Unit},
      count |-> counts[i]]]

\* The bar a value is marked in and where inside it: a fraction num / den.
FindBarPosition(bars, v) ==
  LET holds == {i \in DOMAIN bars : (\A lo \in bars[i].lo : v >= lo)
                                    /\ (\A hi \in bars[i].hi : v <= hi)}
      i == Min(holds)
      closed == bars[i].lo # {} /\ bars[i].hi # {}
      lo == CHOOSE n \in bars[i].lo : TRUE
      hi == CHOOSE n \in bars[i].hi : TRUE
  IN IF holds = {} THEN {}
     ELSE IF closed /\ lo # hi THEN {[bar |-> i, num |-> v - lo, den |-> hi - lo]}
     ELSE {[bar |-> i, num |-> 1, den |-> 2]}

QuantileMarks(counts, q) ==
  UNION {FindBarPosition(Bars(counts), v) : v \in Quantile(counts, q)}
=============================================================================
