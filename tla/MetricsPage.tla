----------------------------- MODULE MetricsPage -----------------------------
(***************************************************************************)
(* The detail side of the metrics page: the metric shown for the selected  *)
(* summary, the series drawn, and the three fetchers that hang off them    *)
(* (the cross-series aggregate, the raw datapoints of expanded series, the *)
(* distribution of a clicked heatmap column).                              *)
(*                                                                         *)
(* One event handler, timer or answer is one action, with the Svelte       *)
(* effects it triggers (Flush).  A request overtaken by a token is dropped *)
(* when it is overtaken: its answer would change nothing.  The list page   *)
(* is TracesPage's; here its answers are ListArrives.  The metric view     *)
(* context is MetricView's; here it is the visible, expanded and column    *)
(* choices the page reads.  The three fetchers read the page and nothing   *)
(* reads them, so a behaviour follows one of them.                         *)
(***************************************************************************)
EXTENDS Naturals, FiniteSets

CONSTANTS Metrics,   \* metric stream ids
          NumSeries, \* series of a metric
          Default,   \* DEFAULT_VISIBLE_TIMESERIES
          Fixed,     \* windows with fixed bounds
          Live,      \* presets: their bounds move with the clock
          Columns,   \* heatmap columns
          MaxEvents  \* bound on the events of the user and the list

None == 0
Unsaved == {None}

ASSUME MetricsPageAssumption ==
  /\ Metrics \subseteq Nat \ {None} /\ IsFiniteSet(Metrics)
  /\ NumSeries \in Nat \ {0} /\ Default \in Nat \ {0}
  /\ Fixed \cap Live = {} /\ Fixed \cup Live # {} /\ None \notin Columns
  /\ MaxEvents \in Nat

Windows == Fixed \cup Live
SeriesOf(m) == {NumSeries * m + i : i \in 1 .. NumSeries}
AllSeries == UNION {SeriesOf(m) : m \in Metrics}

\* The first n of a set of series, in the order the store lists them.
FirstN(n, S) == {s \in S : Cardinality({t \in S : t < s}) < n}

VARIABLES
  items,    \* the listed summaries
  sel,      \* the id in the address
  win,      \* timeContext.selection
  metric,   \* selectedMetric: id, window asked for, series listed, series with datapoints
  seeded,   \* history: the metric the view state was last reset for
  visible,  \* metricCtx.visibleSeries
  expanded, \* metricCtx.expandedTimeseries
  column,   \* the selected heatmap column
  saved,    \* the persisted visible keys of each metric
  events,   \* how many of the user's and the list's events have happened
  details,  \* the getMetric request of fetchMetricDetail that can still be applied
  dpTimer,  \* datapointTimer: nothing, or the request it will make
  follow,   \* the fetcher this behaviour follows
  agg,      \* selectedAggregate, aggregateTimer and the request in flight
  raw,      \* seriesDatapointsKey, seriesDatapoints and seriesInFlight
  dist      \* columnDistribution and the request in flight

vars == <<items, sel, win, metric, seeded, visible, expanded, column, saved, events,
          details, dpTimer, follow, agg, raw, dist>>
page == <<items, sel, win>>
fetchers == <<agg, raw, dist>>

NoMetric == [id |-> None]
NoTimer  == [id |-> None]
NoKey    == <<None, "none">>
StaleKey == <<None, "stale">>

Init ==
  /\ items = {} /\ sel = None /\ win \in Windows
  /\ metric = NoMetric /\ seeded = None
  /\ visible = {} /\ expanded = {} /\ column = None
  /\ saved = [m \in Metrics |-> Unsaved]
  /\ events = 0 /\ details = {} /\ dpTimer = NoTimer
  /\ follow \in {"aggregate", "series", "column"}
  /\ agg = [shown |-> NoMetric, timer |-> NoTimer, reqs |-> {}]
  /\ raw = [key |-> NoKey, cache |-> {}, flight |-> [s \in AllSeries |-> NoKey]]
  /\ dist = [shown |-> <<>>, reqs |-> {}]

\* page.selectedSummary
SummaryOf(u, rows) == IF u \in rows THEN u ELSE None
Summary == SummaryOf(sel, items)

----------------------------------------------------------------------------
(* The effects.                                                            *)

\* resolveTimeseriesVisible
Resolve(m) == IF saved[m.id] = Unsaved THEN FirstN(Default, m.listed)
              ELSE saved[m.id] \cap m.listed

\* reconcileTimeseriesVisible: unlisted series leave; if nothing but unlisted
\* ones were checked, the choice starts over.
Reconcile(v, m) ==
  IF v \cap m.listed # {} \/ v \subseteq m.listed THEN v \cap m.listed ELSE Resolve(m)

\* fetchMetricDetail up to its await: the newest request is the only one whose
\* answer counts.
FetchDetail(r) == {r}

\* What fetchMetricDetail asks for when the page selects m: the series of the
\* previous visit, or Unsaved for the store's own first ones.
SeedRequest(m, w) == [id |-> m, win |-> w, keys |-> saved[m], reseed |-> TRUE]

\* The missing-datapoints effect, each time it runs.
DatapointTimer(s, m, v) ==
  IF s = None \/ m = NoMetric \/ (v \cap m.listed) \subseteq m.have THEN NoTimer
  ELSE [id |-> s, keys |-> v]

\* Mutant: a run of the effect does not overtake the request in flight.
Aggregate_NoToken(s, m, v) ==
  IF s = None \/ m = NoMetric
  THEN [agg EXCEPT !.shown = NoMetric, !.timer = NoTimer]
  ELSE [agg EXCEPT !.timer = [id |-> s, keys |-> v]]

\* The aggregate effect.  The early return leaves a request in flight alone.
Aggregate(s, m, v) ==
  IF s = None \/ m = NoMetric
  THEN [agg EXCEPT !.shown = NoMetric, !.timer = NoTimer]
  ELSE [agg EXCEPT !.timer = [id |-> s, keys |-> v], !.reqs = {}]

\* The series effect.  The bounds of a live window are other ones at each run,
\* so no earlier key is ever met again; a fixed window keeps its key.
SeriesKey(s, w) == IF s = None THEN NoKey ELSE <<s, w>>

Outdated(k, w) == IF w \in Live THEN StaleKey ELSE k

SeriesEffect(r, s, w, e) ==
  LET moved == r.key # SeriesKey(s, w) \/ (s # None /\ w \in Live)
      cache == IF moved THEN {} ELSE r.cache
      old   == [t \in AllSeries |-> IF r.flight[t] = NoKey THEN NoKey
                                    ELSE Outdated(r.flight[t], r.flight[t][2])]
  IN [key    |-> SeriesKey(s, w),
      cache  |-> cache,
      flight |-> [t \in AllSeries |->
                    IF s # None /\ t \in e \ {c[1] : c \in cache} /\ old[t] = NoKey
                    THEN SeriesKey(s, w) ELSE old[t]]]

\* The column effect: cleared first, then asked for.
ColumnEffect(s, c) ==
  IF s = None \/ c = None THEN [dist EXCEPT !.shown = <<>>]
  ELSE [shown |-> <<>>, reqs |-> {<<s, c>>}]

\* The page becomes rows, u, w and the view m, v, e, c, and the effects run.
\* fresh: the summaries are new objects; arrived: selectedMetric was assigned.
\* The detail effect reads the window as well, inside fetchMetricDetail.
Flush(rows, u, w, m, v, e, c, fresh, arrived, reqs) ==
  LET s       == SummaryOf(u, rows)
      again   == s # Summary \/ (s # None /\ fresh)
      m1      == IF again /\ s = None THEN NoMetric ELSE m
      v1      == IF m1 = NoMetric THEN v ELSE Reconcile(v, m1)
      redrawn == again \/ arrived \/ m1 # metric \/ v1 # visible
  IN /\ items' = rows /\ sel' = u /\ win' = w
     /\ metric' = m1 /\ visible' = v1 /\ expanded' = e /\ column' = c
     /\ details' = IF s # None /\ (again \/ w # win) THEN FetchDetail(SeedRequest(s, w)) ELSE reqs
     /\ dpTimer' = IF redrawn THEN DatapointTimer(s, m1, v1) ELSE dpTimer
     /\ agg'  = IF follow = "aggregate" /\ redrawn THEN Aggregate(s, m1, v1) ELSE agg
     /\ raw'  = IF follow = "series" /\ (again \/ w # win \/ e # expanded)
                THEN SeriesEffect(raw, s, w, e) ELSE raw
     /\ dist' = IF follow = "column" /\ (again \/ c # column) THEN ColumnEffect(s, c) ELSE dist
     /\ UNCHANGED follow

----------------------------------------------------------------------------
(* The list and the selection.                                             *)

\* A list fetch or a search is answered: the rows are new objects, and the
\* selection effect moves the selection off a row that is gone.
ListArrives ==
  /\ \E rows \in SUBSET Metrics :
       \E u \in IF rows = {} THEN {None} ELSE IF sel \in rows THEN {sel} ELSE rows :
         Flush(rows, u, win, metric, visible, expanded, column, TRUE, FALSE, details)
  /\ UNCHANGED <<seeded, saved>>

\* selectMetric, the pager, or back and forward.
SelectMetric ==
  /\ \E u \in Metrics :
       Flush(items, u, win, metric, visible, expanded, column, FALSE, FALSE, details)
  /\ UNCHANGED <<seeded, saved>>

\* The time range changes; its list fetch is a later ListArrives.
SetWindow ==
  /\ \E w \in Windows \ {win} :
       Flush(items, sel, w, metric, visible, expanded, column, FALSE, FALSE, details)
  /\ UNCHANGED <<seeded, saved>>

\* handleDeleteMetric or handleDeleteAllMetrics has been answered: the detail
\* pane is cleared, the request in flight is not.
DeleteReturns ==
  /\ sel # None
  /\ Flush(items, None, win, NoMetric, visible, expanded, column, FALSE, TRUE, details)
  /\ UNCHANGED <<seeded, saved>>

----------------------------------------------------------------------------
(* The view.                                                               *)

\* toggleTimeseriesVisible: a row of the shown metric's legend is checked or
\* unchecked, and the choice is stored under that metric.
ToggleVisible ==
  /\ metric # NoMetric
  /\ \E s \in metric.listed :
       LET v == IF s \in visible THEN visible \ {s} ELSE visible \cup {s} IN
       /\ saved' = [saved EXCEPT ![metric.id] = v]
       /\ Flush(items, sel, win, metric, v, expanded, column, FALSE, FALSE, details)
  /\ UNCHANGED seeded

\* toggleTimeseriesExpanded
ToggleExpanded ==
  /\ follow = "series" /\ metric # NoMetric
  /\ \E s \in metric.listed :
       Flush(items, sel, win, metric, visible,
             IF s \in expanded THEN expanded \ {s} ELSE expanded \cup {s},
             column, FALSE, FALSE, details)
  /\ UNCHANGED <<seeded, saved>>

\* onHeatmapSelect: a column is chosen, or chosen again to let go of it.
SelectColumn ==
  /\ follow = "column" /\ metric # NoMetric
  /\ \E c \in Columns :
       Flush(items, sel, win, metric, visible, expanded,
             IF c = column THEN None ELSE c, FALSE, FALSE, details)
  /\ UNCHANGED <<seeded, saved>>

----------------------------------------------------------------------------
(* The metric.                                                             *)

\* What getMetric answers to r: the series with data in the window (of a fixed
\* window, all but the oldest), with datapoints for the named ones, or for the
\* first ones when none are named (store side, external).
Listed(m, w) == IF w \in Live THEN SeriesOf(m) ELSE SeriesOf(m) \ FirstN(1, SeriesOf(m))

Answer(r) ==
  LET L == Listed(r.id, r.win) IN
  [id |-> r.id, win |-> r.win, listed |-> L,
   have |-> IF r.keys = Unsaved THEN FirstN(Default, L) ELSE r.keys \cap L]

\* seedForMetric: the view state of a metric that has just arrived.
SeedVisible(m) == IF m = NoMetric THEN {} ELSE Resolve(m)

\* The newest getMetric is answered: the metric, or nothing in this window, and
\* the view state reset for it if the request asked for that.
DetailReturns(r) ==
  /\ \E m \in {Answer(r), NoMetric} :
       IF r.reseed
       THEN /\ seeded' = m.id
            /\ Flush(items, sel, win, m, SeedVisible(m), {}, None, FALSE, TRUE, details \ {r})
       ELSE /\ Flush(items, sel, win, m, visible, expanded, column, FALSE, TRUE, details \ {r})
            /\ UNCHANGED seeded
  /\ UNCHANGED saved

DetailFails(r) ==
  /\ seeded' = None
  /\ Flush(items, sel, win, NoMetric, {}, {}, None, FALSE, TRUE, details \ {r})
  /\ UNCHANGED saved

\* Mutant: the datapoints of the newly checked series alone are asked for.
DatapointTimerFires_OnlyMissing ==
  /\ dpTimer # NoTimer
  /\ dpTimer' = NoTimer
  /\ details' = FetchDetail([id |-> dpTimer.id, win |-> win,
                             keys |-> dpTimer.keys \ metric.have, reseed |-> FALSE])
  /\ UNCHANGED <<page, metric, seeded, visible, expanded, column, saved, follow, fetchers>>

\* 120 ms after a series without datapoints was checked.
DatapointTimerFires ==
  /\ dpTimer # NoTimer
  /\ dpTimer' = NoTimer
  /\ details' = FetchDetail([id |-> dpTimer.id, win |-> win, keys |-> dpTimer.keys, reseed |-> FALSE])
  /\ UNCHANGED <<page, metric, seeded, visible, expanded, column, saved, follow, fetchers>>

----------------------------------------------------------------------------
(* The fetchers.                                                           *)

unfetched == <<page, metric, seeded, visible, expanded, column, saved, events, details, dpTimer, follow>>

\* fetchAggregate starts, 120 ms after the last change.
AggregateTimerFires ==
  /\ agg.timer # NoTimer
  /\ agg' = [agg EXCEPT !.timer = NoTimer,
                        !.reqs = @ \cup {[id |-> agg.timer.id, win |-> win, keys |-> agg.timer.keys]}]
  /\ UNCHANGED <<unfetched, raw, dist>>

\* Both getMetricAggregate calls are answered, or one of them failed.
AggregateReturns(r) ==
  /\ \E a \in {r, NoMetric} : agg' = [agg EXCEPT !.shown = a, !.reqs = @ \ {r}]
  /\ UNCHANGED <<unfetched, raw, dist>>

\* Mutant: a late answer is cached whatever the key is by now.
SeriesAnswered_AnyKey(t) == [raw EXCEPT !.cache = @ \cup {<<t, raw.flight[t]>>}, !.flight[t] = NoKey]

\* fetchSeriesDatapoints after its await: an answer to a key that is no longer
\* current is dropped.
SeriesAnswered(t) ==
  IF raw.flight[t] = raw.key
  THEN [raw EXCEPT !.cache = @ \cup {<<t, raw.flight[t]>>}, !.flight[t] = NoKey]
  ELSE [raw EXCEPT !.flight[t] = NoKey]

\* The answer for series t: it has the series or not, or the request failed.
\* The series effect reads the cache, so it runs again when the cache grows.
SeriesReturns(t) ==
  /\ raw.flight[t] # NoKey
  /\ \/ LET r == SeriesAnswered(t) IN
        raw' = IF r.cache = raw.cache THEN r ELSE SeriesEffect(r, Summary, win, expanded)
     \/ raw' = [raw EXCEPT !.flight[t] = NoKey]
  /\ UNCHANGED <<unfetched, agg, dist>>

\* The column's getMetric is answered, or fails.
ColumnReturns(r) ==
  /\ \E d \in {r, <<>>} : dist' = [shown |-> d, reqs |-> dist.reqs \ {r}]
  /\ UNCHANGED <<unfetched, agg, raw>>

----------------------------------------------------------------------------
Event == ListArrives \/ SelectMetric \/ SetWindow \/ DeleteReturns
         \/ ToggleVisible \/ ToggleExpanded \/ SelectColumn

User == events < MaxEvents /\ events' = events + 1 /\ Event

Detail == /\ DatapointTimerFires \/ \E r \in details : DetailReturns(r) \/ DetailFails(r)
          /\ UNCHANGED events

AggregateStep == AggregateTimerFires \/ \E r \in agg.reqs : AggregateReturns(r)
SeriesStep    == \E t \in AllSeries : SeriesReturns(t)
ColumnStep    == \E r \in dist.reqs : ColumnReturns(r)

Next == User \/ Detail \/ AggregateStep \/ SeriesStep \/ ColumnStep

\* Timers fire and requests are answered or fail.
Fairness == WF_vars(Detail) /\ WF_vars(AggregateStep) /\ WF_vars(SeriesStep) /\ WF_vars(ColumnStep)

Spec == Init /\ [][Next]_vars /\ Fairness

----------------------------------------------------------------------------
(* Properties.                                                             *)

Key(K) == K = NoKey \/ K = StaleKey \/ K \in Metrics \X Windows

\* Type invariant; at most one detail and one aggregate answer can be applied.
TypeOK ==
  /\ items \subseteq Metrics /\ sel \in Metrics \cup {None} /\ win \in Windows
  /\ metric = NoMetric \/ /\ metric.id \in Metrics /\ metric.win \in Windows
                          /\ metric.have \subseteq metric.listed
                          /\ metric.listed \subseteq SeriesOf(metric.id)
  /\ seeded \in Metrics \cup {None} /\ events \in 0 .. MaxEvents
  /\ visible \subseteq AllSeries /\ expanded \subseteq AllSeries /\ column \in Columns \cup {None}
  /\ \A m \in Metrics : saved[m] = Unsaved \/ saved[m] \subseteq SeriesOf(m)
  /\ Cardinality(details) <= 1 /\ Cardinality(agg.reqs) <= 1 /\ Cardinality(dist.reqs) <= 1
  /\ dpTimer = NoTimer \/ (dpTimer.id \in Metrics /\ dpTimer.keys \subseteq AllSeries)
  /\ Key(raw.key) /\ \A t \in AllSeries : Key(raw.flight[t])

Settled == details = {} /\ dpTimer = NoTimer

\* Once nothing is pending, the metric shown is the selected one over the
\* current window, and every series drawn has its datapoints: whatever the user
\* did while requests and timers were out (the detailToken comment).
ShownMetricSettles ==
  Settled /\ Summary # None /\ metric # NoMetric
    => /\ metric.id = Summary /\ metric.win = win
       /\ visible \subseteq metric.have

\* Once nothing is pending, the aggregate drawn over the metric is the merge of
\* the checked series of that metric over that window.
AggregateSettles ==
  Settled /\ agg.timer = NoTimer /\ agg.reqs = {} /\ agg.shown # NoMetric
          /\ Summary # None /\ metric # NoMetric
    => agg.shown = [id |-> metric.id, win |-> win, keys |-> visible]

\* The page at rest shows one question answered: metric, window, checked series
\* and the line drawn over them belong together.
PageSettles == TypeOK /\ ShownMetricSettles /\ AggregateSettles

\* "a stale series can never be shown under a new question": a cached series
\* answers the current key, and a distribution is the one of the column that is
\* selected.
NothingStaleShown ==
  /\ \A c \in raw.cache : c[2] = raw.key
  /\ (column # None /\ Summary # None /\ dist.shown # <<>>) => dist.shown = <<Summary, column>>

\* When the events stop, the page comes to rest: the refetch for missing
\* datapoints, which each answer may start again, does not go on forever.
ComesToRest ==
  <>[](Settled /\ agg.timer = NoTimer /\ agg.reqs = {} /\ dist.reqs = {})

\* Not so in the code (README, Disagreements).
\* metric-view-context.svelte.ts, seedForMetric: "Reset and seed every
\* per-metric view choice, synchronously, for a metric that has just arrived."
SeededForShown == Settled /\ metric # NoMetric => seeded = metric.id

\* Not so in the code (README, Disagreements).
\* "Expanding a series fetches that series as it was sent": once the
\* events stop, its datapoints are there to stay or the store does not have them.
SeriesFetchEnds ==
  <>[](\A t \in AllSeries : raw.flight[t] = NoKey)
=============================================================================
