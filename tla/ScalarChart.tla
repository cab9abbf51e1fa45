----------------------------- MODULE ScalarChart -----------------------------
(***************************************************************************)
(* The chart of a Gauge or a Sum (contexts/metric-view-context.svelte.ts,  *)
(* components/metrics/utils/aggregation.ts, Charts/MetricTimeSeriesChart): *)
(* which lines are drawn for a choice of series and aggregation view, what *)
(* is marked at the selected datapoint, and which datapoint a click picks. *)
(*                                                                         *)
(* Everything here is derived from a choice c = [m, visible, agg, all],    *)
(* the lines drawn for it and a selected datapoint; Charts holds the       *)
(* state.  A point is [ms, v, slope] with ms the chart's clock,            *)
(* milliseconds.  Labels, colours, number formats and the placing of       *)
(* tooltips are left out.                                                  *)
(***************************************************************************)
EXTENDS MetricReduction

CONSTANT NsPerMs

AggSelected == "selected"
AggAll == "all"
AggTotal == "total"
AggKeys == {AggSelected, AggAll, AggTotal}

\* Every rung is whole milliseconds, and no series has an aggregate's key.
ASSUME ClockAssumption ==
  /\ NsPerMs \in Nat \ {0} /\ \A w \in Ladder : w % NsPerMs = 0
  /\ \A x \in Metrics : Keys(x) \cap AggKeys = {}
Views == {"raw", "sum", "avg", "rate"}

Ms(t) == t \div NsPerMs
Abs(n) == IF n < 0 THEN -n ELSE n

IsScalar(x) == ~IsHistogram(x)
Blank(x) == Type[x].temporality = "Unspecified"
IsCounter(x) ==
  Type[x].kind = "Sum" /\ Type[x].temporality = "Cumulative" /\ Type[x].monotonic

AvailableAggregationViews(x) ==
  IF ~IsScalar(x) THEN {"raw"}
  ELSE {"raw"}
       \cup (IF Cardinality(Keys(x)) < 2 THEN {}
             ELSE {"avg"} \cup (IF Type[x].kind = "Sum" THEN {"sum"} ELSE {}))
       \cup (IF IsCounter(x) THEN {"rate"} ELSE {})

DefaultAggregationView(x) == IF IsCounter(x) THEN "rate" ELSE "raw"

(* --------------------------------- lines ------------------------------- *)

\* A series as it was sampled, oldest first.
RawPoints(x, k) ==
  [i \in DOMAIN Dps(x, k) |->
     [ms |-> Ms(Dps(x, k)[i].t), v |-> Dps(x, k)[i].v, slope |-> {}]]

\* The store's rows as points: a bucket without a value is skipped when it has
\* samples or when a mean is asked for, and drawn at zero otherwise.
ViewPoints(rows, view) ==
  LET drawn == Keeping(rows, {r \in ToSet(rows) : r[view] # {} \/ (r.n = 0 /\ view # "avg")})
  IN [i \in DOMAIN drawn |->
        [ms |-> Ms(drawn[i].at),
         v |-> IF drawn[i][view] = {} THEN 0 ELSE CHOOSE v \in drawn[i][view] : TRUE,
         slope |-> IF view = "rate" THEN drawn[i].slope ELSE {}]]

VisibleSeq(c) == Keeping(KeySeq(c.m), c.visible)

RawLines(c) ==
  [i \in DOMAIN VisibleSeq(c) |->
     LET k == VisibleSeq(c)[i]
     IN [key |-> k,
         points |-> IF c.agg = "rate" THEN ViewPoints(ViewsOf[c.m][k], "rate")
                    ELSE RawPoints(c.m, k)]]

\* Nothing checked draws All alone, everything checked Total alone.
AggregateLines(c) ==
  LET Points(K) == ViewPoints(PoolViews(c.m, K), c.agg)
      Line(k, ps) == [key |-> k, points |-> ps]
      Of(all, selected) ==
        IF all = <<>> THEN <<>>
        ELSE IF c.visible = {} THEN <<Line(AggAll, all)>>
        ELSE IF c.visible = Keys(c.m) THEN <<Line(AggTotal, all)>>
        ELSE (IF selected = <<>> THEN <<>> ELSE <<Line(AggSelected, selected)>>)
               \o <<Line(AggAll, all)>>
  IN Of(Points(Keys(c.m)), Points(c.visible))

\* What the legend says is drawn across series.
AggregatePresentKeys(c) ==
  IF c.agg = "raw" \/ Cardinality(Keys(c.m)) < 2 THEN {}
  ELSE {l.key : l \in ToSet(AggregateLines(c))}
         \ ((IF Len(RawLines(c)) < 2 THEN {AggSelected} ELSE {})
             \cup (IF c.all THEN {} ELSE {AggAll}))

\* A line moved onto the centers of the aggregate: the last point between the
\* midpoints, a zero where there is none, cut off after the last with data.
\* Midpoints are compared doubled, so that they are whole numbers.
Resample(line, centers) ==
  LET n == Len(centers)
      step == IF n > 1 THEN (centers[n] - centers[1]) \div (n - 1) ELSE 60000
      lo(i) == IF i = 1 THEN 2 * centers[1] - step ELSE centers[i - 1] + centers[i]
      hi(i) == IF i = n THEN 2 * centers[n] + step ELSE centers[i] + centers[i + 1]
      in(i) == {j \in DOMAIN line.points :
                  2 * line.points[j].ms >= lo(i) /\ 2 * line.points[j].ms < hi(i)}
      withData == {i \in 1 .. n : in(i) # {}}
  IN [line EXCEPT !.points =
        [i \in 1 .. (IF withData = {} THEN 0 ELSE Max(withData)) |->
           IF in(i) = {} THEN [ms |-> centers[i], v |-> 0, slope |-> {}]
           ELSE [line.points[Max(in(i))] EXCEPT !.ms = centers[i]]]]

\* The aggregate lines the chart keeps.
AggregatesShown(c) ==
  Keeping(AggregateLines(c), {l \in ToSet(AggregateLines(c)) :
                                /\ l.key = AggSelected => Len(RawLines(c)) >= 2
                                /\ l.key = AggAll => c.all})

\* The lines the chart draws, the aggregates last.
Lines(c) ==
  LET Drawn(raw, shown) ==
        IF shown = <<>> THEN raw
        ELSE LET centers == [i \in DOMAIN shown[1].points |-> shown[1].points[i].ms]
             IN [i \in DOMAIN raw |-> Resample(raw[i], centers)] \o shown
  IN Drawn(RawLines(c), IF c.agg = "raw" \/ Cardinality(Keys(c.m)) < 2 THEN <<>>
                        ELSE AggregatesShown(c))

Charted ==
  UNION {{[m |-> x, visible |-> s, agg |-> a, all |-> b] :
            s \in SUBSET Keys(x), a \in AvailableAggregationViews(x), b \in BOOLEAN} :
         x \in {y \in Metrics : IsScalar(y)}}
\* Computed once: the lines, and the legend, of every choice there is.
LinesOf == [c \in Charted |-> Lines(c)]
PresentKeysOf == [c \in Charted |-> AggregatePresentKeys(c)]

LineOf(lines, k) ==
  LET i == SelectInSeq(lines, LAMBDA l : l.key = k)
  IN IF i = 0 THEN <<>> ELSE lines[i].points

ShowAllSeriesAggregateToggleVisible(c) ==
  c.agg # "raw" /\ Cardinality(Keys(c.m)) >= 2 /\ c.visible # Keys(c.m)

(* ------------------------------- selection ----------------------------- *)

\* The point a chart reads at ms: of its neighbours the nearer, the earlier
\* one on a tie; of several at ms the first.
NearestPoint(points, ms) ==
  LET n == Len(points)
      i == Cardinality({j \in 1 .. n : points[j].ms < ms}) + 1
      lo == IF i > 1 THEN i - 1 ELSE 1
      hi == IF i <= n THEN i ELSE n
  IN IF Abs(points[lo].ms - ms) <= Abs(points[hi].ms - ms) THEN points[lo] ELSE points[hi]
NearestValueAt(points, ms) == IF points = <<>> THEN {} ELSE {NearestPoint(points, ms).v}

\* The line of the raw series nearest the pointer, {} when none has points.
SeriesKeyAtPointer(lines, ms, y) ==
  LET raw == {i \in DOMAIN lines : lines[i].key \notin AggKeys /\ lines[i].points # <<>>}
      dist(i) == Abs(NearestPoint(lines[i].points, ms).v - y)
      best == {i \in raw : \A j \in raw : dist(i) <= dist(j)}
  IN IF raw = {} THEN {} ELSE {lines[Min(best)].key}

\* The datapoint a click at ms picks: one at exactly that instant, else the
\* nearest in milliseconds; the list is newest first, so ties go to the newest.
DatapointAt(x, k, ms) ==
  LET dps == Dps(x, k)
      exact == {i \in DOMAIN dps : dps[i].t = ms * NsPerMs}
      near == {i \in DOMAIN dps :
                 \A j \in DOMAIN dps : Abs(Ms(dps[i].t) - ms) <= Abs(Ms(dps[j].t) - ms)}
  IN IF exact # {} THEN Max(exact) ELSE Max(near)

(* ------------------ what is marked at the selected point ---------------- *)

RateSlopeOverlayAvailable(c) == ~Blank(c.m) /\ IsCounter(c.m) /\ c.agg = "rate"

\* The segment that arrives at the point nearest ms, with the store's slope.
RateSlopeBucketSegment(points, ms) ==
  LET near == {i \in DOMAIN points : \A j \in DOMAIN points :
                 Abs(points[i].ms - ms) <= Abs(points[j].ms - ms)}
  IN IF Len(points) < 2 \/ Min(near) = 1 THEN {}
     ELSE {[slope |-> s, from |-> points[Min(near) - 1], to |-> points[Min(near)]] :
             s \in points[Min(near)].slope}

\* What the badges of a row say: of the window, or of the drawn rate.
SeriesStats(c, k) ==
  LET dps == Dps(c.m, k)
      drawn == UNION {DrawnRate(r) : r \in ToSet(ViewsOf[c.m][k])}
      S == IF c.agg = "rate" THEN drawn ELSE {d.v : d \in ToSet(dps)}
      mean == SumFunction([i \in DOMAIN dps |-> dps[i].v]) \div Len(dps)
  IN IF S = {} \/ Blank(c.m) THEN {} ELSE {[min |-> Min(S), max |-> Max(S), avg |-> mean]}

\* The first point at which a line is lowest, or with sign -1 highest.
Extremum(points, sign) ==
  points[Min({i \in DOMAIN points : \A p \in ToSet(points) : sign * points[i].v <= sign * p.v})]

\* The marks drawn for the selected series k at ms, along its line.
SeriesStatMarks(c, points, k, ms) ==
  LET Mark(kind, at, y) == [kind |-> kind, ms |-> at, y |-> y]
  IN IF points = <<>> THEN {}
     ELSE UNION {
       {Mark("min", Extremum(points, 1).ms, s.min)}
       \cup (IF s.max = s.min THEN {} ELSE {Mark("max", Extremum(points, -1).ms, s.max)})
       \cup (IF c.agg = "rate"
             THEN {Mark("slope", g.to.ms, g.to.v) : g \in RateSlopeBucketSegment(points, ms)}
             ELSE IF Len(points) > 1 THEN {Mark("avg", ms, s.avg)} ELSE {}) :
       s \in SeriesStats(c, k)}

\* Computed by the page and handed to the chart: is a slope shown at ms?
SelectedRateSlope(c, points, ms) ==
  IF ~RateSlopeOverlayAvailable(c) THEN {}
  ELSE {g.slope : g \in RateSlopeBucketSegment(points, ms)}

\* The horizontal guide at the selected value; a slope takes its place.
SelectedPointValueY(c, points, ms) ==
  IF c.agg = "rate" /\ SelectedRateSlope(c, points, ms) # {} THEN {}
  ELSE NearestValueAt(points, ms)

\* The dots on the selection rule: the selected series and every aggregate.
SelectionDots(lines, k, ms) ==
  {[key |-> l.key, v |-> NearestPoint(l.points, ms).v] :
     l \in {x \in ToSet(lines) : x.points # <<>> /\ (x.key = k \/ x.key \in AggKeys)}}
=============================================================================
