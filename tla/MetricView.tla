----------------------------- MODULE MetricView -----------------------------
(***************************************************************************)
(* The metric view context: which series of the metric are drawn and in    *)
(* which colour, the aggregation view, the histogram tab, the selected     *)
(* datapoint; their copy in the address (with the browser's history) and   *)
(* their copy in localStorage.                                             *)
(*                                                                         *)
(* One handler of the context, one navigation or one arrival of a metric   *)
(* is one action, with the effects (1b), (2b), (2c) and (3) that follow.   *)
(* A datapoint that came with the metric is named by its series; one that  *)
(* only the raw list of an expanded series has is named Raw(series).       *)
(* The heatmap column is MetricsPage's.  Left out: overlays, exemplars.    *)
(***************************************************************************)
EXTENDS Integers, FiniteSets, Sequences, SequencesExt

CONSTANTS Sums,        \* ids of cumulative monotonic Sum metrics
          Histograms,  \* ids of histogram metrics
          NumSeries,   \* most series a metric has
          Default,     \* DEFAULT_VISIBLE_TIMESERIES
          Cap,         \* MAX_VISIBLE_TIMESERIES
          MaxHistory,  \* bound on history entries
          MaxEvents    \* bound on events

None == 0
Metrics == Sums \cup Histograms

ASSUME MetricViewAssumption ==
  /\ Metrics \subseteq Nat \ {None} /\ Sums \cap Histograms = {}
  /\ NumSeries \in Nat \ {0, 1} /\ Default \in 1 .. Cap /\ Cap \in Nat
  /\ MaxHistory \in Nat \ {0} /\ MaxEvents \in Nat

SeriesOf(m) == {NumSeries * m + i : i \in 1 .. NumSeries}
AllSeries == UNION {SeriesOf(m) : m \in Metrics}
Oldest(m) == NumSeries * m + 1
Newest(m) == NumSeries * m + NumSeries
Raw(s) == -s
Ordered(S) == [i \in 1 .. Cardinality(S) |-> CHOOSE s \in S : Cardinality({t \in S : t < s}) = i - 1]
Upto(n, s) == SubSeq(s, 1, IF n < Len(s) THEN n ELSE Len(s))

VARIABLES
  history,  \* the browser's entries: metric id and metric parameters
  pos,      \* the current entry
  metric,   \* getMetric(): id, its series, the series that came with datapoints
  view,     \* the view state
  snapshot, \* urlMetricViewSnapshot
  saved,    \* the persisted view of each metric, or Unsaved
  touched,  \* history variable: metrics whose series the user unchecked
  events    \* how many events have happened

vars == <<history, pos, metric, view, snapshot, saved, touched, events>>

NoMetric == [id |-> None, keys |-> {}, have |-> {}]
Unsaved  == [keys |-> <<None>>, agg |-> "none", all |-> FALSE]
NoSnapshot == [kind |-> "none"]
Bare == [agg |-> "none", htab |-> "none", hscope |-> "none", dp |-> None, series |-> None]

IsHistogram(m) == m.id \in Histograms

\* availableAggregationViews
Available(m) == IF m.id \notin Sums THEN {"raw"}
                ELSE {"raw", "rate"} \cup (IF Cardinality(m.keys) >= 2 THEN {"sum"} ELSE {})

\* defaultAggregationViewFor
DefaultView(m) == IF m.id \in Sums THEN "rate" ELSE "raw"

\* view as createMetricViewContext starts it.  coerced is history: effect (3)
\* has replaced the aggregation view since it was last set.
FirstView == [visible |-> <<>>, colour |-> <<>>, agg |-> "raw", all |-> FALSE,
              tab |-> "heatmap", scope |-> "window", dp |-> None, series |-> None,
              coerced |-> FALSE]

Init ==
  /\ history = <<[id |-> None, q |-> Bare]>> /\ pos = 1
  /\ metric = NoMetric /\ view = FirstView /\ snapshot = NoSnapshot
  /\ saved = [m \in Metrics |-> Unsaved] /\ touched = {} /\ events = 0

----------------------------------------------------------------------------
(* Colours.  A palette of n colours is 1 .. n.                             *)

\* timeseriesChartColors: a histogram's palette grows with its legend.
Palette(m, vis) ==
  IF ~IsHistogram(m) THEN Cap
  ELSE LET a == Cardinality(m.keys) b == Cardinality(ToSet(vis)) IN
       IF a >= b THEN IF a = 0 THEN 1 ELSE a ELSE b

\* seedColorAssignments
SeedColours(n, vis, keys) ==
  LET order == Upto(n, Ordered(ToSet(vis) \cap keys))
  IN [s \in ToSet(order) |-> CHOOSE i \in 1 .. Len(order) : order[i] = s]

Free(n, col) == (1 .. n) \ {col[s] : s \in DOMAIN col}
First(S) == CHOOSE i \in S : \A j \in S : i <= j
Give(col, s, c) == [t \in DOMAIN col \cup {s} |-> IF t = s THEN c ELSE col[t]]

\* acquireColor
Acquire(n, col, s) ==
  IF s \in DOMAIN col \/ Free(n, col) = {} THEN col ELSE Give(col, s, First(Free(n, col)))

Only(col, S) == [s \in DOMAIN col \cap S |-> col[s]]

\* Mutant: every series is coloured anew.
SyncColours_Reseed(n, col, vis, keys) == SeedColours(n, vis, keys)

\* syncColorAssignments
SyncColours(n, col, vis, keys) ==
  LET order == Ordered(keys \cap ToSet(vis))
      given[i \in 0 .. Len(order)] ==
        IF i = 0 THEN Only(col, ToSet(vis)) ELSE Acquire(n, given[i - 1], order[i])
  IN given[Len(order)]

\* ensureColorAssignments
EnsureColours(m, col, vis) ==
  IF vis = <<>> THEN <<>>
  ELSE IF ToSet(vis) \subseteq DOMAIN col THEN col
  ELSE SeedColours(Palette(m, vis), vis, m.keys)

----------------------------------------------------------------------------
(* The persisted view.                                                     *)

\* What of vis is in S, in its order.
Keeping(vis, S) ==
  LET kept[i \in 0 .. Len(vis)] ==
        IF i = 0 THEN <<>>
        ELSE IF vis[i] \in S THEN Append(kept[i - 1], vis[i]) ELSE kept[i - 1]
  IN kept[Len(vis)]
Capped(m, vis) == IF IsHistogram(m) THEN vis ELSE Upto(Cap, vis)

\* resolveTimeseriesVisible
Resolve(m) == IF saved[m.id] = Unsaved THEN Upto(Default, Ordered(m.keys))
              ELSE Capped(m, Keeping(saved[m.id].keys, m.keys))

\* reconcileTimeseriesVisible
Reconcile(m, vis) ==
  LET kept == Capped(m, Keeping(vis, m.keys))
  IN IF kept # <<>> \/ ToSet(vis) \subseteq m.keys THEN kept ELSE Resolve(m)

\* loadPersistedView and mergePersistedView: what a write that leaves the keys
\* alone starts from.
Stored(m) == IF saved[m] = Unsaved THEN [keys |-> <<>>, agg |-> "none", all |-> FALSE] ELSE saved[m]

SaveKeys(m, vis) == IF m = None THEN saved ELSE [saved EXCEPT ![m] = [Stored(m) EXCEPT !.keys = vis]]
SaveAgg(m, a)    == IF m = None THEN saved ELSE [saved EXCEPT ![m] = [Stored(m) EXCEPT !.agg = a]]
SaveAll(m, b)    == IF m = None THEN saved ELSE [saved EXCEPT ![m] = [Stored(m) EXCEPT !.all = b]]

----------------------------------------------------------------------------
(* The address.                                                            *)

Tabs   == {"heatmap", "quantiles", "histogram"}
Scopes == {"window", "bucket"}
Member(x, S, fallback) == IF x \in S THEN x ELSE fallback

\* parseMetricViewQuery, validated against the metric that is loaded.
Parse(q, m) ==
  IF IsHistogram(m)
  THEN [kind |-> "histogram", htab |-> Member(q.htab, Tabs, "heatmap"),
        hscope |-> Member(q.hscope, Scopes, "window"),
        dp |-> Member(q.dp, m.have, None), series |-> Member(q.series, m.keys, None)]
  ELSE [kind |-> "timeseries", agg |-> Member(q.agg, Available(m), "none"),
        dp |-> Member(q.dp, m.have, None), series |-> Member(q.series, m.keys, None)]

\* metricViewQueryToParams
ToParams(p) ==
  IF p.kind = "histogram"
  THEN [Bare EXCEPT !.htab = p.htab, !.hscope = p.hscope, !.dp = p.dp, !.series = p.series]
  ELSE [Bare EXCEPT !.agg = p.agg, !.dp = p.dp, !.series = p.series]

\* selectedSeriesKey: the selected datapoint's series wins.
SelectedSeries(v, m) ==
  IF v.dp \in m.have THEN v.dp ELSE Member(v.series, m.keys, None)

\* viewStateToMetricViewQuery
ViewQuery(v, m) ==
  IF IsHistogram(m)
  THEN [kind |-> "histogram", htab |-> v.tab, hscope |-> v.scope,
        dp |-> v.dp, series |-> SelectedSeries(v, m)]
  ELSE [kind |-> "timeseries", agg |-> IF v.agg = "raw" THEN "none" ELSE v.agg,
        dp |-> v.dp, series |-> SelectedSeries(v, m)]

\* applyMetricUrlToView.  A named series is brought into view (revealSeries).
Apply(v, p, reset) ==
  LET v1 == IF p.kind = "histogram" THEN [v EXCEPT !.tab = p.htab, !.scope = p.hscope]
            ELSE IF p.agg # "none" THEN [v EXCEPT !.agg = p.agg, !.coerced = FALSE]
            ELSE IF reset THEN [v EXCEPT !.agg = "raw", !.coerced = FALSE] ELSE v
  IN [v1 EXCEPT !.dp = p.dp, !.series = p.series,
                !.visible = IF p.series = None \/ p.series \in ToSet(@) THEN @
                            ELSE Append(@, p.series)]

----------------------------------------------------------------------------
(* The effects.                                                            *)

\* Effect (2b): unlisted series leave, new ones are coloured.
PruneAndColour(v, m) ==
  IF m = NoMetric \/ m.keys = {} THEN v
  ELSE LET next == Reconcile(m, v.visible) IN
       IF ToSet(next) = ToSet(v.visible)
       THEN [v EXCEPT !.colour = EnsureColours(m, @, v.visible)]
       ELSE [v EXCEPT !.visible = next,
                      !.colour = SyncColours(Palette(m, next), @, next, m.keys)]

\* Mutant: only a datapoint that is gone is deselected, not a hidden one.
DropHidden_GoneOnly(v, m) ==
  IF m # NoMetric /\ v.dp \notin m.have THEN [v EXCEPT !.dp = None] ELSE v

\* Effect (2c): a datapoint that is gone, or whose series is hidden, is
\* deselected.
DropHidden(v, m) ==
  IF m # NoMetric /\ v.dp \notin m.have \cap ToSet(v.visible) THEN [v EXCEPT !.dp = None] ELSE v

\* Effect (3): an aggregation view the metric no longer offers gives way.
Coerced(v, m) == v.agg \notin Available(m)
Coerce(v, m) == IF Coerced(v, m) THEN [v EXCEPT !.agg = DefaultView(m), !.coerced = TRUE] ELSE v

\* The view becomes v with metric m, and the effects run; s is what the event
\* itself stored.
Settle(v, m, s) ==
  LET v1 == DropHidden(PruneAndColour(v, m), m) IN
  /\ metric' = m
  /\ view' = Coerce(v1, m)
  /\ saved' = IF Coerced(v1, m) /\ m # NoMetric
              THEN [s EXCEPT ![m.id] = [(IF @ = Unsaved THEN Stored(m.id) ELSE @)
                                          EXCEPT !.agg = DefaultView(m)]]
              ELSE s

\* Mutant: the address is taken over only when nothing was ever applied.
Routed_Once(v, p, snap) == IF snap # NoSnapshot THEN v ELSE Apply(v, p, TRUE)

\* Effect (1b), on every navigation: parameters that are not the ones last
\* written or applied are taken over.
Routed(v, p, snap) == IF p = snap THEN v ELSE Apply(v, p, TRUE)

\* The address becomes entry e, the view v, the snapshot snap; subscribers run.
Navigated(v, e, snap, s) ==
  LET p == Parse(e.q, metric) IN
  /\ snapshot' = p
  /\ Settle(Routed(v, p, snap), metric, s)

Push(e) == history' = Append(SubSeq(history, 1, pos), e) /\ pos' = pos + 1
Replace(e) == history' = [history EXCEPT ![pos] = e] /\ UNCHANGED pos

Here == history[pos]

\* writeMetricUrl: the parameters of view v in a new history entry or in place
\* of the current one; the snapshot is what it writes.
WriteUrl(v, s, push) ==
  LET q == ViewQuery(v, metric)
      e == [Here EXCEPT !.q = ToParams(q)] IN
  /\ IF push THEN pos < MaxHistory /\ Push(e) ELSE Replace(e)
  /\ Navigated(v, e, q, s)

----------------------------------------------------------------------------
(* Navigation and arrivals.                                                *)

\* A shared link names a series the default choice does not draw.
Link(m) == [Bare EXCEPT !.dp = Newest(m), !.series = Newest(m)]

\* Another metric is selected (item parameters are stripped), or a link with
\* parameters is followed.
Select ==
  /\ pos < MaxHistory
  /\ \E m \in Metrics : \E q \in {Bare, Link(m)} :
       LET e == [id |-> m, q |-> q] IN Push(e) /\ Navigated(view, e, snapshot, saved)
  /\ UNCHANGED touched

Back ==
  /\ pos > 1 /\ pos' = pos - 1
  /\ Navigated(view, history[pos - 1], snapshot, saved)
  /\ UNCHANGED <<history, touched>>

Forward ==
  /\ pos < Len(history) /\ pos' = pos + 1
  /\ Navigated(view, history[pos + 1], snapshot, saved)
  /\ UNCHANGED <<history, touched>>

\* The time range is written to the address: no metric parameter changes.
TimeRangeWritten ==
  /\ Navigated(view, Here, snapshot, saved)
  /\ UNCHANGED <<history, pos, touched>>

\* A getMetric answer for m: it lists every series, all but the oldest or the
\* oldest alone, with datapoints for all of them or all but the newest.
Arrivals(m) ==
  {[id |-> m, keys |-> K, have |-> K \ N] :
     K \in {SeriesOf(m), SeriesOf(m) \ {Oldest(m)}, {Oldest(m)}}, N \in {{}, {Newest(m)}}}

\* The aggregation view seedForMetric chooses: stored, else default, else raw.
SeedAgg(m) ==
  IF saved[m.id] # Unsaved /\ saved[m.id].agg \in Available(m) THEN saved[m.id].agg
  ELSE IF DefaultView(m) \in Available(m) THEN DefaultView(m) ELSE "raw"

\* seedForMetric, for the metric the address names.
Seed ==
  /\ Here.id # None
  /\ \E m \in Arrivals(Here.id) :
       LET vis == Resolve(m)
           p   == Parse(Here.q, m)
           v   == [FirstView EXCEPT !.visible = vis,
                                    !.colour = SeedColours(Palette(m, vis), vis, m.keys),
                                    !.agg = SeedAgg(m), !.all = saved[m.id].all]
       IN snapshot' = p /\ Settle(Apply(v, p, FALSE), m, saved)
  /\ UNCHANGED <<history, pos, touched>>

\* The metric shown arrives again without reseeding: series and datapoints may
\* have come or gone.
Refetched ==
  /\ metric # NoMetric
  /\ \E m \in Arrivals(metric.id) : Settle(view, m, saved)
  /\ UNCHANGED <<history, pos, snapshot, touched>>

----------------------------------------------------------------------------
(* The methods.                                                            *)

SetActiveHistogramTab ==
  /\ IsHistogram(metric)
  /\ \E t \in Tabs : WriteUrl([view EXCEPT !.tab = t], saved, TRUE)
  /\ UNCHANGED touched

SetHistogramScope ==
  /\ IsHistogram(metric)
  /\ \E c \in Scopes : WriteUrl([view EXCEPT !.scope = c], saved, FALSE)
  /\ UNCHANGED touched

SetAggregationView ==
  /\ metric.id \in Sums
  /\ \E a \in Available(metric) :
       WriteUrl([view EXCEPT !.agg = a, !.coerced = FALSE], SaveAgg(metric.id, a), FALSE)
  /\ UNCHANGED touched

SetShowAllSeriesAggregate ==
  /\ metric.id \in Sums
  /\ Settle([view EXCEPT !.all = ~@], metric, SaveAll(metric.id, ~view.all))
  /\ UNCHANGED <<history, pos, snapshot, touched>>

\* The colours once series s is checked; a histogram's palette grows for it.
Check(s) ==
  LET n == Palette(metric, view.visible)
      c == Acquire(n, view.colour, s)
  IN IF s \in DOMAIN c \/ ~IsHistogram(metric) THEN c ELSE Acquire(n + 1, view.colour, s)

\* toggleTimeseriesVisible: a scalar chart with no colour left refuses.
Toggle ==
  /\ \E s \in metric.keys :
       IF s \in ToSet(view.visible)
       THEN LET vis == Keeping(view.visible, metric.keys \ {s}) IN
            /\ Settle([view EXCEPT !.visible = vis, !.colour = Only(@, AllSeries \ {s})], metric,
                      SaveKeys(metric.id, vis))
            /\ touched' = touched \cup {metric.id}
       ELSE LET col == Check(s)
                vis == Append(view.visible, s) IN
            /\ s \in DOMAIN col
            /\ Settle([view EXCEPT !.visible = vis, !.colour = col], metric, SaveKeys(metric.id, vis))
            /\ UNCHANGED touched
  /\ UNCHANGED <<history, pos, snapshot>>

ClearAllTimeseriesVisible ==
  /\ metric # NoMetric
  /\ Settle([view EXCEPT !.visible = <<>>, !.colour = <<>>], metric, SaveKeys(metric.id, <<>>))
  /\ touched' = touched \cup {metric.id}
  /\ UNCHANGED <<history, pos, snapshot>>

\* onDatapointClick, on a row of the list of series s: the same row again lets
\* go of it.  A histogram moves to the tab that shows it.
OnDatapointClick ==
  /\ \E s \in metric.keys : \E dp \in {s, Raw(s)} :
       LET on == view.dp # dp
           v  == [view EXCEPT !.dp = IF on THEN dp ELSE None]
       IN WriteUrl(IF ~IsHistogram(metric) THEN v
                   ELSE IF on THEN [v EXCEPT !.tab = "histogram", !.scope = "bucket"]
                   ELSE [v EXCEPT !.scope = "window"], saved, TRUE)
  /\ UNCHANGED touched

\* onChartPointClick, on the line of a drawn series that has datapoints.
OnChartPointClick ==
  /\ \E s \in metric.have \cap ToSet(view.visible) : WriteUrl([view EXCEPT !.dp = s], saved, TRUE)
  /\ UNCHANGED touched

----------------------------------------------------------------------------
Event == \/ Select \/ Back \/ Forward \/ TimeRangeWritten \/ Seed \/ Refetched
         \/ SetActiveHistogramTab \/ SetHistogramScope \/ SetAggregationView
         \/ SetShowAllSeriesAggregate \/ Toggle \/ ClearAllTimeseriesVisible
         \/ OnDatapointClick \/ OnChartPointClick

Next == events < MaxEvents /\ events' = events + 1 /\ Event

Spec == Init /\ [][Next]_vars

----------------------------------------------------------------------------
(* Properties.                                                             *)

Choice(x, S, none) == x \in S \cup {none}

\* Type invariant.
TypeOK ==
  /\ pos \in 1 .. Len(history) /\ Len(history) <= MaxHistory
  /\ metric.id \in Metrics \cup {None} /\ metric.have \subseteq metric.keys
  /\ view.visible \in Seq(AllSeries) /\ DOMAIN view.colour \subseteq AllSeries
  /\ view.agg \in {"raw", "sum", "rate"} /\ view.tab \in Tabs /\ view.scope \in Scopes
  /\ Choice(view.dp, AllSeries, None) /\ Choice(view.series, SeriesOf(metric.id), None)
  /\ \A m \in Metrics : saved[m] # Unsaved => ToSet(saved[m].keys) \subseteq SeriesOf(m)
  /\ touched \subseteq Metrics /\ events \in 0 .. MaxEvents

\* The series drawn are series the metric lists, each once, each in a colour of
\* its own, and a scalar chart keeps to its cap: after any mix of links, back
\* and forward, refetches and checkboxes.
LegendConsistent ==
  metric # NoMetric =>
    /\ ToSet(view.visible) \subseteq metric.keys
    /\ Cardinality(ToSet(view.visible)) = Len(view.visible)
    /\ DOMAIN view.colour = ToSet(view.visible)
    /\ \A s, t \in DOMAIN view.colour : s # t => view.colour[s] # view.colour[t]
    /\ IsHistogram(metric) \/ Len(view.visible) <= Cap

\* What is selected can be seen: the selected datapoint belongs to a series
\* that is drawn, and the aggregation view is one the menu offers.
SelectionOnScreen ==
  metric # NoMetric =>
    /\ view.dp # None => view.dp \in metric.have \cap ToSet(view.visible)
    /\ view.agg \in Available(metric)

\* Legend, colours and selection fit the metric that is shown, whatever links,
\* refetches, checkboxes and history brought the view there.
ViewConsistent == TypeOK /\ LegendConsistent /\ SelectionOnScreen

\* When effect (1b) takes an address for its own echo and skips it, the view is
\* what that address says; only effects (2c) and (3) may have cleared the
\* datapoint or replaced the aggregation view since.
SkippedEchoMatches ==
  metric # NoMetric /\ metric.id = Here.id /\ snapshot = Parse(Here.q, metric)
    => /\ view.dp \in {snapshot.dp, None}
       /\ snapshot.kind = "histogram" => view.tab = snapshot.htab /\ view.scope = snapshot.hscope
       /\ snapshot.kind = "timeseries" /\ snapshot.agg # "none" => view.agg = snapshot.agg \/ view.coerced

\* A series that stays on the chart keeps its colour when others are checked,
\* unchecked, or come and go with a refetch.
ColoursStable ==
  [][Toggle \/ Refetched
       => \A s \in DOMAIN view.colour \cap DOMAIN view'.colour :
            view'.colour[s] = view.colour[s]]_vars

\* Not so in the code (README, Disagreements).
\* metric-timeseries-visible.ts:73-79: an empty list of visible series is not
\* stored "for a metric the user had never touched"; "Seeding is synchronous
\* now and cannot produce it."
EmptiedByUserOnly ==
  \A m \in Metrics : saved[m] # Unsaved /\ saved[m].keys = <<>> => m \in touched
=============================================================================
