-------------------------------- MODULE Charts -------------------------------
(***************************************************************************)
(* The chart pane of the metrics page (Charts/MetricChartView.svelte): one *)
(* of the scalar chart, the heatmap, the quantile chart and the bars, over *)
(* the choices contexts/metric-view-context.svelte.ts keeps.               *)
(*                                                                         *)
(* An action is one click, or one metric arriving, with the effects it     *)
(* sets off: a selected datapoint whose series is hidden is dropped (2c),  *)
(* and the bars forget their pin (HistogramChart.svelte).  What is derived *)
(* from the choice ($derived) is drawn anew after each.  Addresses,        *)
(* history, colours and stored choices are modelled in MetricView, and the *)
(* fetches behind the page in MetricsPage; here every answer has arrived.  *)
(***************************************************************************)
EXTENDS Distribution

CONSTANTS
  Panes,          \* widths of the heatmap's plot, in pixels
  Pixels,         \* where a click may land, across
  Heights,        \* what a click may point at, up the scale of a line chart
  MaxEvents       \* bound: clicks and arrivals

ASSUME ChartsAssumption == Panes \cup Pixels \subseteq Nat /\ Heights \subseteq Int

Tabs == {"heatmap", "quantiles", "histogram"}
Scopes == {"window", "bucket"}

VARIABLES
  m,              \* the metric shown
  visible,        \* its series that are checked
  agg, showAll,   \* the aggregation view, and whether All is wanted
  dp,             \* the selected datapoint, {} or {<<series, which>>}
  tab, scope,     \* the chart of a histogram, and what its bars describe
  bucket, qkey,   \* the selected column's start and quantile, {} or a singleton
  overlay,        \* the quantile whose lines are drawn
  pane,           \* how wide the heatmap's plot is
  lines, slices,  \* what is drawn for the choice: the lines, or the merged columns
  pin, pinnedOn,  \* the pinned bar, {} or {i}; history: the distribution it was set on
  click,          \* history: what the last click hit and what it left selected
  events

vars == <<m, visible, agg, showAll, dp, tab, scope, bucket, qkey, overlay, pane, lines,
          slices, pin, pinnedOn, click, events>>
histogramVars == <<tab, scope, bucket, qkey, overlay, pane, pin, pinnedOn>>

NoClick == [kind |-> "none"]
Hist == IsHistogram(m)
Choice == [m |-> m, visible |-> visible, agg |-> agg, all |-> showAll]

\* The datapoints of a series: its samples, or for a histogram the slices the
\* store merged them into.
DatapointsOf(x, k) ==
  IF IsHistogram(x) THEN {<<k, b>> : b \in ColumnStarts(x, {k})}
  ELSE {<<k, i>> : i \in DOMAIN Dps(x, k)}

\* Effect (2c): the datapoint goes with its series.
KeptWith(d, K) == {p \in d : p[1] \in K}

\* The distribution the bars show, by the id of its datapoint: the merged
\* whole window, or the selected datapoint.
HistogramChartDatapoint(x, t, s, K, d) ==
  IF ~IsHistogram(x) \/ t # "histogram" THEN {}
  ELSE IF s = "window" THEN {<<x, <<"aggregated", 0>>>> : k \in K} ELSE {<<x, p>> : p \in d}
ShownBars == HistogramChartDatapoint(m, tab, scope, visible, dp)
ShownBars2 == HistogramChartDatapoint(m', tab', scope', visible', dp')

\* Mutant: the bars do not notice that they show another datapoint.
Repin_SameChart ==
  pin' = IF ShownBars2 = {} \/ scope' # "window" THEN {} ELSE pin
\* The bars are unmounted when they are not shown, and forget their pin when
\* the datapoint changes or pins are not offered.
Repin == pin' = IF ShownBars2 # ShownBars \/ scope' # "window" THEN {} ELSE pin

\* What the page derives from the choice, and draws.
DrawnLines(c) == IF IsHistogram(c.m) THEN <<>> ELSE LinesOf[c]
DrawnSlices(c) == IF IsHistogram(c.m) THEN ColumnsOf[c.m][c.visible] ELSE <<>>
Redraw == lines' = DrawnLines(Choice') /\ slices' = DrawnSlices(Choice')

\* The default aggregation view, if the metric offers it.
SeededView(x) ==
  IF DefaultAggregationView(x) \in AvailableAggregationViews(x)
  THEN DefaultAggregationView(x) ELSE "raw"

Init ==
  /\ m \in Metrics
  /\ visible = Keys(m)
  /\ agg = SeededView(m) /\ showAll = FALSE
  /\ dp = {} /\ tab = "heatmap" /\ scope = "window" /\ bucket = {} /\ qkey = {}
  /\ overlay = 50 /\ pane \in Panes /\ pin = {} /\ pinnedOn = {}
  /\ lines = DrawnLines(Choice) /\ slices = DrawnSlices(Choice)
  /\ click = NoClick /\ events = 0

\* A metric arrives: every choice starts over, but for the tab and the scope
\* its address names.
SelectMetric(x, t, s) ==
  /\ x # m
  /\ m' = x /\ visible' = Keys(x) /\ agg' = SeededView(x) /\ showAll' = FALSE
  /\ dp' = {} /\ bucket' = {} /\ qkey' = {} /\ overlay' = 50
  /\ tab' = t /\ scope' = s
  /\ Repin
  /\ click' = NoClick
  /\ UNCHANGED <<pane, pinnedOn>>

\* A row of the legend is checked or unchecked.
ToggleTimeseriesVisible(k) ==
  /\ visible' = IF k \in visible THEN visible \ {k} ELSE visible \cup {k}
  /\ dp' = KeptWith(dp, visible')
  /\ click' = NoClick
  /\ UNCHANGED <<m, agg, showAll, tab, scope, bucket, qkey, overlay, pane, pinnedOn>>
  /\ Repin

SetAggregationView(a) ==
  /\ ~Hist /\ a \in AvailableAggregationViews(m) /\ agg' = a
  /\ click' = NoClick
  /\ UNCHANGED <<m, visible, showAll, dp, histogramVars>>

SetShowAllSeriesAggregate ==
  /\ ~Hist /\ ShowAllSeriesAggregateToggleVisible(Choice)
  /\ showAll' = ~showAll
  /\ click' = NoClick
  /\ UNCHANGED <<m, visible, agg, dp, histogramVars>>

\* A row of the datapoint list is clicked: selected, or deselected again; for
\* a histogram the bars show it, or the whole window again.
OnDatapointClick(p) ==
  /\ p[1] \in visible
  /\ dp' = IF dp = {p} THEN {} ELSE {p}
  /\ bucket' = {} /\ qkey' = {}
  /\ tab' = IF Hist /\ dp' # {} THEN "histogram" ELSE tab
  /\ scope' = IF ~Hist THEN scope ELSE IF dp' # {} THEN "bucket" ELSE "window"
  /\ click' = NoClick
  /\ UNCHANGED <<m, visible, agg, showAll, overlay, pane, pinnedOn>>
  /\ Repin

(* ----------------------------- scalar chart ---------------------------- *)

\* The instants a tooltip can stand at: those of the drawn points.
Stops == UNION {{p.ms : p \in ToSet(l.points)} : l \in ToSet(lines)}

\* A datapoint of k is selected for a click at ms, unless k has no line.
OnChartPointClick(k, ms, y) ==
  /\ dp' = {<<k, DatapointAt(m, k, ms)>>}
  /\ click' = [kind |-> "line", key |-> k, ms |-> ms, y |-> y, agg |-> agg,
               dp |-> <<k, DatapointAt(m, k, ms)>>]
  /\ UNCHANGED <<m, visible, agg, showAll, histogramVars>>

\* The plot is clicked: the tooltip's instant, the series nearest the pointer.
ClickPlot(ms, y) ==
  /\ ~Hist /\ ~Blank(m) /\ ms \in Stops
  /\ \E k \in SeriesKeyAtPointer(lines, ms, y) : OnChartPointClick(k, ms, y)

\* A highlighted point is clicked: it names its line; aggregates do nothing.
ClickPoint(l, i) ==
  /\ ~Hist /\ ~Blank(m) /\ l.key \notin AggKeys
  /\ OnChartPointClick(l.key, l.points[i].ms, l.points[i].v)

(* --------------------------- histogram charts -------------------------- *)

SetActiveHistogramTab(t) ==
  /\ Hist /\ tab' = t
  /\ click' = NoClick
  /\ UNCHANGED <<m, visible, agg, showAll, dp, scope, bucket, qkey, overlay, pane, pinnedOn>>
  /\ Repin

SetHistogramScope(s) ==
  /\ Hist /\ tab = "histogram" /\ scope' = s
  /\ click' = NoClick
  /\ UNCHANGED <<m, visible, agg, showAll, dp, tab, bucket, qkey, overlay, pane, pinnedOn>>
  /\ Repin

SetActiveQuantileOverlay(q) ==
  /\ Hist /\ tab = "quantiles" /\ overlay' = q
  /\ click' = NoClick
  /\ UNCHANGED <<m, visible, agg, showAll, dp, tab, scope, bucket, qkey, pane, pin, pinnedOn>>

Resize(w) ==
  /\ Hist /\ w # pane /\ pane' = w
  /\ click' = NoClick
  /\ UNCHANGED <<m, visible, agg, showAll, dp, tab, scope, bucket, qkey, overlay, pin, pinnedOn>>

\* A column is selected, or the selected one deselected.
OnHeatmapSelect(ms) ==
  LET b == ColumnOfMs(slices, ms)
  IN /\ bucket' = IF bucket = {b} THEN {} ELSE {b}
     /\ qkey' = {}

ClickHeatmap(px) ==
  /\ Hist /\ tab = "heatmap"
  /\ \E ms \in ClickedColumn(TimeDomain(slices), pane, px) : OnHeatmapSelect(ms)
  /\ click' = [kind |-> "column", px |-> px]
  /\ UNCHANGED <<m, visible, agg, showAll, dp, tab, scope, overlay, pane, pin, pinnedOn>>

\* The quantile chart: a point also names its quantile, the plot does not and
\* clicking the selected column's plot deselects it.
OnQuantileChartPointClick(ms, q) ==
  LET b == ColumnOfMs(slices, ms)
      again == bucket = {b} /\ (q = {} \/ qkey = q)
  IN /\ bucket' = IF again THEN {} ELSE {b}
     /\ qkey' = IF again THEN {} ELSE q

ClickQuantile(k, named) ==
  /\ Hist /\ tab = "quantiles" /\ k \in visible
  /\ \E p \in ToSet(QuantileLine(m, k, overlay)) :
       OnQuantileChartPointClick(p.ms, IF named THEN {overlay} ELSE {})
  /\ click' = NoClick
  /\ UNCHANGED <<m, visible, agg, showAll, dp, tab, scope, overlay, pane, pin, pinnedOn>>

\* A bar of the whole window is pinned, or unpinned.
ClickBar(i) ==
  /\ Hist /\ ShownBars # {} /\ scope = "window"
  /\ pin' = IF pin = {i} THEN {} ELSE {i}
  /\ pinnedOn' = ShownBars
  /\ click' = NoClick
  /\ UNCHANGED <<m, visible, agg, showAll, dp, tab, scope, bucket, qkey, overlay, pane>>

Step ==
  \/ \E x \in Metrics, t \in Tabs, s \in Scopes : SelectMetric(x, t, s)
  \/ \E k \in Keys(m) : ToggleTimeseriesVisible(k)
  \/ \E a \in Views : SetAggregationView(a)
  \/ SetShowAllSeriesAggregate
  \/ \E k \in Keys(m) : \E p \in DatapointsOf(m, k) : OnDatapointClick(p)
  \/ ~Hist /\ \E ms \in Stops, y \in Heights : ClickPlot(ms, y)
  \/ ~Hist /\ \E l \in ToSet(lines) : \E i \in DOMAIN l.points : ClickPoint(l, i)
  \/ \E t \in Tabs : SetActiveHistogramTab(t)
  \/ \E s \in Scopes : SetHistogramScope(s)
  \/ \E q \in Quantiles : SetActiveQuantileOverlay(q)
  \/ \E w \in Panes : Resize(w)
  \/ \E px \in Pixels : ClickHeatmap(px)
  \/ \E k \in Keys(m), named \in BOOLEAN : ClickQuantile(k, named)
  \/ \E i \in 1 .. Len(Bounds) + 1 : ClickBar(i)

Next == events < MaxEvents /\ events' = events + 1 /\ Step /\ Redraw

Spec == Init /\ [][Next]_vars

(* ------------------------------ properties ----------------------------- *)

\* Every choice is one the metric shown offers; a selected datapoint belongs
\* to a checked series (metric-view-context.svelte.ts, effects 2c and 3).
TypeOK ==
  /\ m \in Metrics /\ visible \subseteq Keys(m) /\ showAll \in BOOLEAN
  /\ agg \in AvailableAggregationViews(m)
  /\ Cardinality(dp) <= 1 /\ dp \subseteq UNION {DatapointsOf(m, k) : k \in visible}
  /\ tab \in Tabs /\ scope \in Scopes /\ overlay \in Quantiles
  /\ Cardinality(bucket) <= 1 /\ (bucket = {} => qkey = {})
  /\ pin \subseteq 1 .. Len(Bounds) + 1

\* The legend names exactly the aggregate lines the chart draws: the two are
\* filtered by rules of their own (aggregatePresentKeys and
\* transformedGaugeSumChartTimeseries), one by counts of checkboxes.
LegendMatchesChart ==
  ~Hist => {l.key : l \in ToSet(lines)} \cap AggKeys = PresentKeysOf[Choice]

\* What a line shows at ms.
ShownAt(points, ms) ==
  SumFunction([i \in {j \in DOMAIN points : points[j].ms = ms} |-> points[i].v])

\* Point i of line l is the sum of the lines drawn beneath it.
AddsUpAt(l, i) ==
  l.points[i].v = SumFunction([k \in visible |-> ShownAt(LineOf(lines, k), l.points[i].ms)])
ChartAddsUp(Due(_, _)) ==
  ~Hist /\ agg = "rate" =>
    \A l \in ToSet(lines) :
      l.key \in {AggSelected, AggTotal} =>
        \A i \in DOMAIN l.points : Due(l, i) => AddsUpAt(l, i)

\* In the rate view the line across the checked series is, bucket by bucket,
\* the sum of the lines drawn beneath it: the store folds it from the same
\* rows, and moving the lines onto its grid loses no point and moves none to
\* another bucket, as long as no two buckets on end are left out of the line.
RateLinesAddUp ==
  ChartAddsUp(LAMBDA l, i : i < Len(l.points) =>
    l.points[i + 1].ms - l.points[i].ms <= 2 * Ms(BucketWidth))

\* Not so in the code (README, Disagreements).
\* "you can see which series is contributing to the aggregate rate.  Bucket
\* count is shared with the aggregate so step boundaries line up"
\* (metric-view-context.svelte.ts:893-899): the sum holds whatever is left out.
ContributionsLineUp == ChartAddsUp(LAMBDA l, i : TRUE)

\* At a selected datapoint with a line, one of the two is drawn and never
\* both: the guide at its value, or the slope that takes the guide's place.
\* The page decides the one, the chart the other.
GuideOrSlope ==
  ~Hist /\ ~Blank(m) =>
    \A p \in dp :
      LET Agree(line, ms) ==
            line # <<>> =>
              (SelectedPointValueY(Choice, line, ms) = {}
                <=> \E k \in SeriesStatMarks(Choice, line, p[1], ms) : k.kind = "slope")
      IN Agree(LineOf(lines, p[1]), Ms(Dps(m, p[1])[p[2]].t))

\* A click on a drawn sample selects a datapoint of that line in the very
\* millisecond clicked, and the dot then stands at a value the line has there.
ClickedSampleIsSelected ==
  click.kind = "line" /\ click.agg = "raw" =>
    LET p == click.dp
        here == {d \in ToSet(Dps(m, click.key)) : Ms(d.t) = click.ms}
    IN here # {} =>
         /\ Dps(m, p[1])[p[2]] \in here
         /\ \A dot \in SelectionDots(lines, p[1], click.ms) : dot.v \in {d.v : d \in here}

\* A sample in whose buckets a restart shows while its count has not fallen.
RestartHidden(x, d) ==
  LET v == Dps(x, d[1])[d[2]].v
      before == Dps(x, d[1])[d[2] - 1].v
  IN /\ Cumulative(x) /\ \E j \in DOMAIN v : v[j] < before[j]
     /\ SumFunction(v) >= SumFunction(before)

\* The panel of a clicked column counts what its cells show.
PanelCountsItsCells(Due(_)) ==
  click.kind = "column" =>
    \A b \in bucket : \A s \in HeatmapColumnSelection(slices, b) :
      Due(b) =>
        s.total = SumFunction([d \in {c \in HeatmapCells(slices) : c.ms = Ms(b)} |-> d.count])

\* The column a click selects is the one drawn under the pointer.
ClickSelectsColumnUnderPointer ==
  click.kind = "column" =>
    \A b \in bucket :
      LET domain == TimeDomain(slices)
          n == Len(domain)
          i == SelectInSeq(domain, LAMBDA ms : ms = Ms(b))
      IN /\ i # 0
         /\ DrawnBand(pane, n, i)[1] <= click.px * n /\ click.px * n < DrawnBand(pane, n, i)[2]

\* Not so in the code (README, Disagreements).
\* "One reset rule, applied per datapoint to every field of the row [...]  Clamping
\* the scalars and the vectors separately let one row claim more observations
\* than its buckets held" (get_metric.sql:1063-1066): it is so in every column.
OneResetRule == PanelCountsItsCells(LAMBDA b : TRUE)

\* The first running totals of column b: the column holds what was observed
\* since the totals before them, which a query for the column does not read.
LeftOut(x, K, b) ==
  {d \in InColumn(x, K, b) : Cumulative(x) /\ BucketStart(Dps(x, d[1])[d[2] - 1].t) # b}

\* What is fetched for a selected column and what is left out of it are what the
\* column merged: over the visible series nothing else is missing and nothing is
\* counted in two columns.  A column that starts where the window ends is not
\* fetched (README, Disagreements).
PanelAndRest(Rest(_, _, _)) ==
  Hist => \A b \in bucket : \A s \in HeatmapColumnSelection(slices, b) :
    b # Window.end =>
      s.total = SumFunction(ColumnDistribution(m, visible, slices, b))
                + SumFunction([d \in Rest(m, visible, b) |-> TotalSince(m, d[1], d[2])])
ColumnPanelAddsUp == PanelAndRest(LeftOut)

\* Not so in the code (README, Disagreements).
\* "the store merges each series across exactly that range -- the same merge it
\* does for the aggregate" (MetricsPage.svelte:488-490): nothing is left out.
PanelCountsColumn == PanelAndRest(LAMBDA x, K, b : {})

\* Not so in the code (README, Disagreements).
\* "A lone column ... takes the window's end, which is what a single column spans
\* by definition" (heatmap-column-selection.ts:173-175): every column is fetched.
EveryColumnFetched == Hist => \A b \in bucket : HeatmapColumnEnd(slices, b) # {}

\* The legend tells the truth about every cell: the swatch it is painted with
\* says a range of counts that holds its own, and no other swatch does; and no
\* swatch stands for no count at all.
CellsAreInTheirBand ==
  Hist /\ visible # {} =>
    LET bands == LegendBands(slices)
    IN /\ \A d \in HeatmapCells(slices) :
            {i \in DOMAIN bands : d.count \in bands[i]}
              = {PaintedBand(CellThresholds(slices), d.count)}
       /\ \A i \in DOMAIN bands : bands[i] # {}

\* A pinned bar belongs to the distribution on screen, never to the one that
\* was there when it was pinned (HistogramChart.svelte 83-96).
PinFollowsDatapoint == pin # {} => scope = "window" /\ pinnedOn = ShownBars

\* Not so in the code (README, Disagreements).
\* The bars up to a mark hold the share of the observations it names.
MarksHoldTheirShare ==
  Hist => \A p \in dp :
    LET counts == Slice(m, {p[1]}, p[2]).counts
        upTo(i) == SumFunctionOnSet(counts, 1 .. i)
    IN \A q \in Quantiles : \A k \in QuantileMarks(counts, q) :
         /\ 100 * upTo(k.bar) >= q * SumFunction(counts)
         /\ 100 * upTo(k.bar - 1) <= q * SumFunction(counts)

\* Chart, legend, marks and pin are computed apart and agree at every choice.
MarksAgree == TypeOK /\ LegendMatchesChart /\ GuideOrSlope /\ PinFollowsDatapoint

\* No observation is lost or counted twice between the store's rows, the lines,
\* the cells, their colours and a column's panel.
SamplesAddUp == RateLinesAddUp /\ ColumnPanelAddsUp /\ CellsAreInTheirBand

\* A click selects what is drawn under the pointer, and the panel of the column
\* it selects counts what the cells show, as long as no restart there is hidden.
ClicksHit ==
  /\ ClickedSampleIsSelected /\ ClickSelectsColumnUnderPointer
  /\ PanelCountsItsCells(LAMBDA b : \A d \in InColumn(m, visible, b) : ~RestartHidden(m, d))
=============================================================================
