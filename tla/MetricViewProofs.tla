--------------------------- MODULE MetricViewProofs ---------------------------
(***************************************************************************)
(* The metric view, for any metrics, series, palette, length of the        *)
(* browser's history and number of events: it never takes an address that  *)
(* is not its own for an echo; legend, colours and selection fit the       *)
(* metric that is shown; and a series that stays drawn keeps its colour.   *)
(***************************************************************************)
EXTENDS MetricView, FiniteSetTheorems, WellFoundedInduction, TLAPS

IsView(v) ==
  v = [visible |-> v.visible, colour |-> v.colour, agg |-> v.agg, all |-> v.all, tab |-> v.tab,
       scope |-> v.scope, dp |-> v.dp, series |-> v.series, coerced |-> v.coerced]

\* Views that differ in what the snapshot does not describe.
Alike(u, v) ==
  /\ IsView(u)
  /\ u.dp = v.dp /\ u.agg = v.agg /\ u.tab = v.tab /\ u.scope = v.scope /\ u.coerced = v.coerced

\* A view is known by its fields.
LEMMA FieldsAreView ==
  ASSUME NEW a, NEW b, NEW c, NEW d, NEW e, NEW f, NEW g, NEW h, NEW i
  PROVE  IsView([visible |-> a, colour |-> b, agg |-> c, all |-> d, tab |-> e, scope |-> f,
                 dp |-> g, series |-> h, coerced |-> i])
BY DEF IsView

\* Two fields of a view replaced one after the other.
LEMMA TwoFields ==
  ASSUME NEW v, IsView(v), NEW x, NEW y
  PROVE  /\ Alike([v EXCEPT !.visible = x, !.colour = y], v)
         /\ IsView([v EXCEPT !.agg = x, !.coerced = y])
<1> DEFINE u == [v EXCEPT !.visible = x]
           w == [v EXCEPT !.agg = x]
<1>1. /\ u = [visible |-> x, colour |-> v.colour, agg |-> v.agg, all |-> v.all, tab |-> v.tab,
              scope |-> v.scope, dp |-> v.dp, series |-> v.series, coerced |-> v.coerced]
      /\ w = [visible |-> v.visible, colour |-> v.colour, agg |-> x, all |-> v.all, tab |-> v.tab,
              scope |-> v.scope, dp |-> v.dp, series |-> v.series, coerced |-> v.coerced]
  BY DEF IsView
<1>2. /\ [v EXCEPT !.visible = x, !.colour = y] = [u EXCEPT !.colour = y]
      /\ [v EXCEPT !.agg = x, !.coerced = y] = [w EXCEPT !.coerced = y]
  BY DEF IsView
<1> HIDE DEF u, w
<1>3. /\ [u EXCEPT !.colour = y] =
             [visible |-> x, colour |-> y, agg |-> v.agg, all |-> v.all, tab |-> v.tab,
              scope |-> v.scope, dp |-> v.dp, series |-> v.series, coerced |-> v.coerced]
      /\ [w EXCEPT !.coerced = y] =
             [visible |-> v.visible, colour |-> v.colour, agg |-> x, all |-> v.all, tab |-> v.tab,
              scope |-> v.scope, dp |-> v.dp, series |-> v.series, coerced |-> y]
  BY <1>1
<1> QED
  BY <1>2, <1>3, FieldsAreView DEF Alike

----------------------------------------------------------------------------
(* The snapshot of the address.                                            *)

\* The view is what p says, for a metric of p's kind, but for what the effects
\* cleared or replaced.
Says(p, v, m) ==
  /\ v.dp \in {p.dp, None}
  /\ IF IsHistogram(m)
     THEN p.kind = "histogram" /\ v.tab = p.htab /\ v.scope = p.hscope
     ELSE p.kind = "timeseries" /\ (p.agg # "none" => v.agg = p.agg \/ v.coerced)

\* The inductive invariant: the snapshot always describes the view, whatever
\* the address is.
SnapshotInv == IsView(view) /\ (metric # NoMetric => Says(snapshot, view, metric))

\* The effects only clear the datapoint or replace the aggregation view.
LEMMA SettleKeeps ==
  ASSUME NEW v, NEW m, NEW s, NEW p, IsView(v), Settle(v, m, s), m # NoMetric => Says(p, v, m)
  PROVE  IsView(view') /\ metric' = m /\ (m # NoMetric => Says(p, view', m))
<1> DEFINE v1 == PruneAndColour(v, m)
           v2 == DropHidden(v1, m)
<1>1. view' = Coerce(v2, m) /\ metric' = m
  BY DEF Settle
<1>2. IsView(v1) /\ v1.dp = v.dp /\ v1.agg = v.agg /\ v1.tab = v.tab /\ v1.scope = v.scope
      /\ v1.coerced = v.coerced
  BY DEF PruneAndColour, IsView
<1> HIDE DEF v1
<1>3. IsView(v2) /\ v2.dp \in {v1.dp, None} /\ v2.agg = v1.agg /\ v2.tab = v1.tab
      /\ v2.scope = v1.scope /\ v2.coerced = v1.coerced
  BY <1>2 DEF DropHidden, IsView
<1> HIDE DEF v2
<1>4. IsView(view') /\ view'.dp = v2.dp /\ view'.tab = v2.tab /\ view'.scope = v2.scope
      /\ ((view'.agg = v2.agg /\ view'.coerced = v2.coerced) \/ view'.coerced = TRUE)
  BY <1>1, <1>3 DEF Coerce, IsView
<1> QED
  BY <1>1, <1>2, <1>3, <1>4 DEF Says

\* Parameters that are taken over are what the view then says.
LEMMA ApplySays ==
  ASSUME NEW v, IsView(v), NEW q, NEW m, NEW reset
  PROVE  IsView(Apply(v, Parse(q, m), reset)) /\ Says(Parse(q, m), Apply(v, Parse(q, m), reset), m)
<1> DEFINE p == Parse(q, m)
           v1 == IF p.kind = "histogram" THEN [v EXCEPT !.tab = p.htab, !.scope = p.hscope]
                 ELSE IF p.agg # "none" THEN [v EXCEPT !.agg = p.agg, !.coerced = FALSE]
                 ELSE IF reset THEN [v EXCEPT !.agg = "raw", !.coerced = FALSE] ELSE v
<1>1. p.kind = IF IsHistogram(m) THEN "histogram" ELSE "timeseries"
  BY DEF Parse
<1>2. Apply(v, p, reset) =
        [v1 EXCEPT !.dp = p.dp, !.series = p.series,
                   !.visible = IF p.series = None \/ p.series \in ToSet(@) THEN @
                               ELSE Append(@, p.series)]
  BY DEF Apply
<1> HIDE DEF p
<1>3. /\ IsView(v1)
      /\ IsHistogram(m) => v1.tab = p.htab /\ v1.scope = p.hscope
      /\ ~IsHistogram(m) /\ p.agg # "none" => v1.agg = p.agg
  BY <1>1 DEF IsView
<1> HIDE DEF v1
<1>4. IsView(Apply(v, p, reset)) /\ Apply(v, p, reset).dp = p.dp /\ Apply(v, p, reset).tab = v1.tab
      /\ Apply(v, p, reset).scope = v1.scope /\ Apply(v, p, reset).agg = v1.agg
  BY <1>2, <1>3 DEF IsView
<1> QED
  BY <1>1, <1>3, <1>4 DEF Says, p

\* What is written to the address is what the view says.
LEMMA ViewQuerySays ==
  ASSUME NEW v, NEW m
  PROVE  Says(ViewQuery(v, m), v, m)
BY DEF ViewQuery, Says

\* A navigation ends with a snapshot that describes the view.
LEMMA NavigatedKeeps ==
  ASSUME NEW v, NEW e, NEW snap, NEW s, IsView(v), metric # NoMetric => Says(snap, v, metric),
         Navigated(v, e, snap, s)
  PROVE  SnapshotInv'
<1> DEFINE p == Parse(e.q, metric)
           r == Routed(v, p, snap)
<1>1. snapshot' = p /\ Settle(r, metric, s)
  BY DEF Navigated
<1>2. IsView(r) /\ (metric # NoMetric => Says(p, r, metric))
  <2>1. CASE p = snap
    BY <2>1 DEF Routed
  <2>2. CASE p # snap
    BY <2>2, ApplySays DEF Routed
  <2> QED
    BY <2>1, <2>2
<1> HIDE DEF p, r
<1>3. IsView(view') /\ metric' = metric /\ (metric # NoMetric => Says(p, view', metric))
  BY <1>1, <1>2, SettleKeeps
<1> QED
  BY <1>1, <1>3 DEF SnapshotInv

LEMMA WriteUrlKeeps ==
  ASSUME NEW v, NEW s, NEW push, IsView(v), WriteUrl(v, s, push)
  PROVE  SnapshotInv'
<1>1. Navigated(v, [Here EXCEPT !.q = ToParams(ViewQuery(v, metric))], ViewQuery(v, metric), s)
  BY DEF WriteUrl
<1> QED
  BY <1>1, ViewQuerySays, NavigatedKeeps


LEMMA NavigationKeeps ==
  ASSUME SnapshotInv, Select \/ Back \/ Forward \/ TimeRangeWritten
  PROVE  SnapshotInv'
<1>1. PICK e, s : Navigated(view, e, snapshot, s)
  BY DEF Select, Back, Forward, TimeRangeWritten
<1> QED
  BY <1>1, NavigatedKeeps DEF SnapshotInv

LEMMA SeedKeeps == ASSUME SnapshotInv, Seed PROVE SnapshotInv'
<1>1. PICK m \in Arrivals(Here.id) :
        LET vis == Resolve(m)
            p   == Parse(Here.q, m)
            v   == [FirstView EXCEPT !.visible = vis,
                                     !.colour = SeedColours(Palette(m, vis), vis, m.keys),
                                     !.agg = SeedAgg(m), !.all = saved[m.id].all]
        IN snapshot' = p /\ Settle(Apply(v, p, FALSE), m, saved)
  BY DEF Seed
<1> DEFINE v == [FirstView EXCEPT !.visible = Resolve(m),
                                  !.colour = SeedColours(Palette(m, Resolve(m)), Resolve(m), m.keys),
                                  !.agg = SeedAgg(m), !.all = saved[m.id].all]
<1>2. snapshot' = Parse(Here.q, m) /\ Settle(Apply(v, Parse(Here.q, m), FALSE), m, saved)
  BY <1>1
<1>3. IsView(v)
  <2> DEFINE w == [FirstView EXCEPT !.visible = Resolve(m),
                                    !.colour = SeedColours(Palette(m, Resolve(m)), Resolve(m), m.keys)]
             x == [w EXCEPT !.agg = SeedAgg(m)]
  <2>1. v = [x EXCEPT !.all = saved[m.id].all]
    BY DEF FirstView
  <2>2. IsView(w)
    BY TwoFields, FieldsAreView DEF FirstView, Alike
  <2> HIDE DEF v, w
  <2>3. IsView(x)
    BY <2>2 DEF IsView
  <2> HIDE DEF x
  <2> QED
    BY <2>1, <2>3 DEF IsView
<1> HIDE DEF v
<1>4. IsView(view') /\ metric' = m /\ (m # NoMetric => Says(Parse(Here.q, m), view', m))
  BY <1>2, <1>3, ApplySays, SettleKeeps
<1> QED
  BY <1>2, <1>4 DEF SnapshotInv

LEMMA RefetchKeeps == ASSUME SnapshotInv, Refetched PROVE SnapshotInv'
<1>1. PICK m \in Arrivals(metric.id) : Settle(view, m, saved)
  BY DEF Refetched
<1>2. metric # NoMetric /\ snapshot' = snapshot /\ m.id = metric.id
  BY DEF Refetched, Arrivals
<1>3. Says(snapshot, view, m)
  BY <1>2 DEF SnapshotInv, Says, IsHistogram
<1>4. IsView(view') /\ metric' = m /\ (m # NoMetric => Says(snapshot, view', m))
  BY <1>1, <1>3, SettleKeeps DEF SnapshotInv
<1> QED
  BY <1>2, <1>4 DEF SnapshotInv

\* The methods that write the address.
LEMMA WritersKeep ==
  ASSUME SnapshotInv,
         \/ SetActiveHistogramTab \/ SetHistogramScope \/ SetAggregationView
         \/ OnDatapointClick \/ OnChartPointClick
  PROVE  SnapshotInv'
<1>1. CASE SetActiveHistogramTab
  <2>1. PICK t \in Tabs : WriteUrl([view EXCEPT !.tab = t], saved, TRUE)
    BY <1>1 DEF SetActiveHistogramTab
  <2>2. IsView([view EXCEPT !.tab = t])
    BY DEF SnapshotInv, IsView
  <2> QED
    BY <2>1, <2>2, WriteUrlKeeps
<1>2. CASE SetHistogramScope
  <2>1. PICK c \in Scopes : WriteUrl([view EXCEPT !.scope = c], saved, FALSE)
    BY <1>2 DEF SetHistogramScope
  <2>2. IsView([view EXCEPT !.scope = c])
    BY DEF SnapshotInv, IsView
  <2> QED
    BY <2>1, <2>2, WriteUrlKeeps
<1>3. CASE SetAggregationView
  <2>1. PICK a \in Available(metric) :
          WriteUrl([view EXCEPT !.agg = a, !.coerced = FALSE], SaveAgg(metric.id, a), FALSE)
    BY <1>3 DEF SetAggregationView
  <2>2. IsView([view EXCEPT !.agg = a, !.coerced = FALSE])
    BY TwoFields DEF SnapshotInv
  <2> QED
    BY <2>1, <2>2, WriteUrlKeeps
<1>4. CASE OnDatapointClick
  <2>1. PICK dp :
          LET on == view.dp # dp
              v  == [view EXCEPT !.dp = IF on THEN dp ELSE None]
          IN WriteUrl(IF ~IsHistogram(metric) THEN v
                      ELSE IF on THEN [v EXCEPT !.tab = "histogram", !.scope = "bucket"]
                      ELSE [v EXCEPT !.scope = "window"], saved, TRUE)
    BY <1>4 DEF OnDatapointClick
  <2> DEFINE on == view.dp # dp
             v  == [view EXCEPT !.dp = IF on THEN dp ELSE None]
             w  == IF ~IsHistogram(metric) THEN v
                   ELSE IF on THEN [v EXCEPT !.tab = "histogram", !.scope = "bucket"]
                   ELSE [v EXCEPT !.scope = "window"]
  <2>2. WriteUrl(w, saved, TRUE)
    BY <2>1
  <2>3. IsView(v)
    BY DEF SnapshotInv, IsView
  <2> HIDE DEF on, v
  <2>4. IsView(w)
    BY <2>3 DEF IsView
  <2> HIDE DEF w
  <2> QED
    BY <2>2, <2>4, WriteUrlKeeps
<1>5. CASE OnChartPointClick
  <2>1. PICK s \in metric.have \cap ToSet(view.visible) : WriteUrl([view EXCEPT !.dp = s], saved, TRUE)
    BY <1>5 DEF OnChartPointClick
  <2>2. IsView([view EXCEPT !.dp = s])
    BY DEF SnapshotInv, IsView
  <2> QED
    BY <2>1, <2>2, WriteUrlKeeps
<1> QED
  BY <1>1, <1>2, <1>3, <1>4, <1>5

\* The methods that leave it: they change what the snapshot does not describe.
LEMMA OthersKeep ==
  ASSUME SnapshotInv, SetShowAllSeriesAggregate \/ Toggle \/ ClearAllTimeseriesVisible
  PROVE  SnapshotInv'
<1>1. PICK v, s : Settle(v, metric, s) /\ Alike(v, view)
  <2>1. CASE SetShowAllSeriesAggregate
    <3> DEFINE v == [view EXCEPT !.all = ~@]
    <3>1. Settle(v, metric, SaveAll(metric.id, ~view.all))
      BY <2>1 DEF SetShowAllSeriesAggregate
    <3>2. Alike(v, view)
      BY DEF SnapshotInv, IsView, Alike
    <3> QED
      BY <3>1, <3>2
  <2>2. CASE Toggle
    <3>1. PICK vis, col, s : Settle([view EXCEPT !.visible = vis, !.colour = col], metric, s)
      BY <2>2 DEF Toggle
    <3> DEFINE v == [view EXCEPT !.visible = vis, !.colour = col]
    <3>2. Alike(v, view)
      BY TwoFields DEF SnapshotInv
    <3> QED
      BY <3>1, <3>2
  <2>3. CASE ClearAllTimeseriesVisible
    <3> DEFINE v == [view EXCEPT !.visible = <<>>, !.colour = <<>>]
    <3>1. Settle(v, metric, SaveKeys(metric.id, <<>>))
      BY <2>3 DEF ClearAllTimeseriesVisible
    <3>2. Alike(v, view)
      BY TwoFields DEF SnapshotInv
    <3> QED
      BY <3>1, <3>2
  <2> QED
    BY <2>1, <2>2, <2>3
<1>2. metric # NoMetric => Says(snapshot, v, metric)
  BY <1>1 DEF SnapshotInv, Says, Alike
<1>3. snapshot' = snapshot
  BY DEF SetShowAllSeriesAggregate, Toggle, ClearAllTimeseriesVisible
<1> QED
  BY <1>1, <1>2, <1>3, SettleKeeps DEF SnapshotInv, Alike

THEOREM SnapshotInvariant == Spec => []SnapshotInv
<1>1. Init => SnapshotInv
  BY DEF Init, SnapshotInv, IsView, FirstView
<1>2. SnapshotInv /\ [Next]_vars => SnapshotInv'
  <2>1. ASSUME SnapshotInv, UNCHANGED vars PROVE SnapshotInv'
    BY <2>1 DEF vars, SnapshotInv, IsView, Says, IsHistogram
  <2>2. ASSUME SnapshotInv, Next PROVE SnapshotInv'
    BY <2>2, NavigationKeeps, SeedKeeps, RefetchKeeps, WritersKeep, OthersKeep DEF Next, Event
  <2> QED
    BY <2>1, <2>2
<1> QED
  BY <1>1, <1>2, PTL DEF Spec

\* An address skipped as the view's own echo is what the view shows, for any
\* metrics, links, refetches and moves through the history
\* (metric-view-context.svelte.ts, effect 1b).
THEOREM EchoNeverMistaken == Spec => []SkippedEchoMatches
<1>1. SnapshotInv => SkippedEchoMatches
  BY DEF SnapshotInv, Says, SkippedEchoMatches, Parse
<1> QED
  BY <1>1, SnapshotInvariant, PTL

----------------------------------------------------------------------------
(* Numbers, recursion and sequences.                                       *)

\* Numbers have a least one.
LEMMA Least ==
  ASSUME NEW I, I \subseteq Nat, I # {}
  PROVE  \E m \in I : \A i \in I : m <= i
<1> DEFINE R == {ss \in Nat \X Nat : ss[1] < ss[2]}
<1>1. IsWellFoundedOn(R, Nat)
  BY NatLessThanWellFounded DEF OpToRel
<1> HIDE DEF R
<1>2. PICK m \in I : \A i \in I : ~ (<<i, m>> \in R)
  BY <1>1, WFMin
<1>3. ASSUME NEW i \in I, ~ (<<i, m>> \in R) PROVE m <= i
  BY <1>3 DEF R
<1> QED
  BY <1>2, <1>3

\* What holds at 0 and passes from each number to the next holds up to N.
LEMMA Steps ==
  ASSUME NEW N \in Nat, NEW I, 0 \in I, \A i \in 1 .. N : i - 1 \in I => i \in I
  PROVE  0 .. N \subseteq I
<1> DEFINE B == {i \in 0 .. N : i \notin I}
<1> SUFFICES ASSUME B # {} PROVE FALSE
  OBVIOUS
<1>1. B \subseteq Nat
  OBVIOUS
<1>2. PICK m \in B : \A i \in B : m <= i
  <2> HIDE DEF B
  <2> QED
    BY <1>1, Least
<1>3. m \in 1 .. N
  BY <1>2
<1>4. m - 1 \in I
  BY <1>2, <1>3
<1> QED
  BY <1>2, <1>3, <1>4

\* f starts at c and goes on by g.
Recurses(f, N, c, g) == f[0] = c /\ \A i \in 1 .. N : f[i] = g[<<i, f[i - 1]>>]

\* A function on 0 .. N can be defined by recursion.
LEMMA Recursion ==
  ASSUME NEW N \in Nat, NEW V, NEW c \in V, NEW g \in [(1 .. N) \X V -> V]
  PROVE  \E f \in [0 .. N -> V] : Recurses(f, N, c, g)
<1> DEFINE I == {n \in 0 .. N : \E f \in [0 .. n -> V] : Recurses(f, n, c, g)}
<1>1. 0 \in I
  <2> DEFINE f == [i \in 0 .. 0 |-> c]
  <2>1. f \in [0 .. 0 -> V] /\ Recurses(f, 0, c, g)
    BY DEF Recurses
  <2> QED
    BY <2>1
<1>2. ASSUME NEW n \in 1 .. N, n - 1 \in I PROVE n \in I
  <2>1. PICK f \in [0 .. n - 1 -> V] : Recurses(f, n - 1, c, g)
    BY <1>2
  <2> DEFINE h == [i \in 0 .. n |-> IF i = n THEN g[<<n, f[n - 1]>>] ELSE f[i]]
  <2>2. g[<<n, f[n - 1]>>] \in V
    BY <2>1
  <2>3. h \in [0 .. n -> V]
    BY <2>1, <2>2
  <2>4. h[n] = g[<<n, f[n - 1]>>] /\ \A i \in 0 .. n - 1 : h[i] = f[i]
    OBVIOUS
  <2> HIDE DEF h
  <2>5. h[0] = c /\ \A i \in 1 .. n - 1 : h[i] = g[<<i, h[i - 1]>>]
    BY <2>1, <2>4 DEF Recurses
  <2>6. h[n] = g[<<n, h[n - 1]>>]
    BY <2>4
  <2>7. Recurses(h, n, c, g)
    BY <2>5, <2>6 DEF Recurses
  <2> QED
    BY <2>3, <2>7
<1> HIDE DEF I
<1>3. N \in I
  BY <1>1, <1>2, Steps
<1> QED
  BY <1>3 DEF I

\* The empty sequence.
LEMMA EmptyFact ==
  ASSUME NEW T
  PROVE  <<>> \in Seq(T) /\ ToSet(<<>>) = {} /\ Len(<<>>) = 0 /\ IsInjective(<<>>) /\ DOMAIN <<>> = {}
<1>1. <<>> \in Seq(T) /\ DOMAIN <<>> = {} /\ Len(<<>>) = 0
  OBVIOUS
<1> QED
  BY <1>1 DEF ToSet, IsInjective

\* A sequence with one element more at its end.
LEMMA AppendFact ==
  ASSUME NEW T, NEW s \in Seq(T), NEW x \in T
  PROVE  /\ Append(s, x) \in Seq(T) /\ Len(Append(s, x)) = Len(s) + 1
         /\ ToSet(Append(s, x)) = ToSet(s) \cup {x}
         /\ IsInjective(s) /\ x \notin ToSet(s) => IsInjective(Append(s, x))
<1> DEFINE a == Append(s, x)
<1>1. /\ a \in Seq(T) /\ Len(a) = Len(s) + 1 /\ a[Len(s) + 1] = x
      /\ \A i \in 1 .. Len(s) : a[i] = s[i]
      /\ DOMAIN a = 1 .. Len(s) + 1 /\ DOMAIN s = 1 .. Len(s) /\ Len(s) \in Nat
  OBVIOUS
<1> HIDE DEF a
<1>2. ToSet(a) = ToSet(s) \cup {x}
  <2>1. \A y \in ToSet(a) : y \in ToSet(s) \cup {x}
    BY <1>1 DEF ToSet
  <2>2. ToSet(s) \subseteq ToSet(a)
    BY <1>1 DEF ToSet
  <2>3. x \in ToSet(a)
    BY <1>1 DEF ToSet
  <2> QED
    BY <2>1, <2>2, <2>3
<1>3. ASSUME IsInjective(s), x \notin ToSet(s) PROVE IsInjective(a)
  <2>1. \A i \in 1 .. Len(s) : s[i] # x
    BY <1>1, <1>3 DEF ToSet
  <2> QED
    BY <1>1, <1>3, <2>1 DEF IsInjective
<1> QED
  BY <1>1, <1>2, <1>3 DEF a

\* A sequence without repetition has as many places as elements.
LEMMA CountDistinct ==
  ASSUME NEW T, NEW s \in Seq(T)
  PROVE  /\ IsFiniteSet(ToSet(s)) /\ ToSet(s) \subseteq T
         /\ IsInjective(s) => Cardinality(ToSet(s)) = Len(s)
<1>1. s \in [1 .. Len(s) -> T] /\ Len(s) \in Nat /\ DOMAIN s = 1 .. Len(s)
  OBVIOUS
<1>0. \A k \in Nat : IsFiniteSet(1 .. k) /\ Cardinality(1 .. k) = k
  BY FS_Interval
<1>2. IsFiniteSet(1 .. Len(s)) /\ Cardinality(1 .. Len(s)) = Len(s)
  BY <1>0, <1>1
<1>3. s \in Surjection(1 .. Len(s), ToSet(s))
  BY <1>1 DEF Surjection, ToSet
<1>4. IsFiniteSet(ToSet(s))
  BY <1>2, <1>3, FS_Surjection
<1>5. IsInjective(s) => s \in Injection(1 .. Len(s), ToSet(s))
  BY <1>1 DEF Injection, ToSet
<1>6. IsInjective(s) => Cardinality(ToSet(s)) = Len(s)
  BY <1>2, <1>3, <1>5, FS_Surjection
<1>7. ToSet(s) \subseteq T
  BY <1>1 DEF ToSet
<1> QED
  BY <1>4, <1>6, <1>7

\* The first n elements.
LEMMA UptoFact ==
  ASSUME NEW T, NEW s \in Seq(T), NEW n \in Nat
  PROVE  /\ Upto(n, s) \in Seq(T) /\ Len(Upto(n, s)) <= n /\ ToSet(Upto(n, s)) \subseteq ToSet(s)
         /\ IsInjective(s) => IsInjective(Upto(n, s))
         /\ Len(s) <= n => Upto(n, s) = s
<1> DEFINE k == IF n < Len(s) THEN n ELSE Len(s)
           u == SubSeq(s, 1, k)
<1>1. k \in 0 .. Len(s) /\ k <= n /\ (Len(s) <= n => k = Len(s)) /\ Len(s) \in Nat
  OBVIOUS
<1>2. Upto(n, s) = u
  BY DEF Upto
<1> HIDE DEF k
<1>3. /\ u \in Seq(T) /\ Len(u) = k /\ DOMAIN u = 1 .. k
      /\ \A i \in 1 .. k : u[i] = s[i]
  BY <1>1
<1>4. k = Len(s) => u = s
  BY <1>1
<1> HIDE DEF u
<1>5. ToSet(u) \subseteq ToSet(s)
  BY <1>1, <1>3 DEF ToSet
<1>6. IsInjective(s) => IsInjective(u)
  BY <1>1, <1>3 DEF IsInjective
<1> QED
  BY <1>1, <1>2, <1>3, <1>4, <1>5, <1>6

\* What of a sequence is in S.
LEMMA KeepingFact ==
  ASSUME NEW T, NEW vis \in Seq(T), NEW S
  PROVE  /\ Keeping(vis, S) \in Seq(T) /\ ToSet(Keeping(vis, S)) = ToSet(vis) \cap S
         /\ IsInjective(vis) => IsInjective(Keeping(vis, S))
<1> DEFINE N == Len(vis)
           k == CHOOSE h : h = [i \in 0 .. N |->
                  IF i = 0 THEN <<>>
                  ELSE IF vis[i] \in S THEN Append(h[i - 1], vis[i]) ELSE h[i - 1]]
           g == [x \in (1 .. N) \X Seq(T) |->
                  IF vis[x[1]] \in S THEN Append(x[2], vis[x[1]]) ELSE x[2]]
           Till(n) == {vis[j] : j \in 1 .. n}
<1>0. N \in Nat /\ DOMAIN vis = 1 .. N /\ \A i \in 1 .. N : vis[i] \in T
  OBVIOUS
<1>1. Keeping(vis, S) = k[N]
  BY DEF Keeping
<1>2. <<>> \in Seq(T)
  BY EmptyFact
<1>3. g \in [(1 .. N) \X Seq(T) -> Seq(T)]
  <2>1. ASSUME NEW i \in 1 .. N, NEW s \in Seq(T) PROVE Append(s, vis[i]) \in Seq(T)
    BY <1>0
  <2> QED
    BY <2>1
<1>4. \A i \in 1 .. N, s \in Seq(T) :
        g[<<i, s>>] = IF vis[i] \in S THEN Append(s, vis[i]) ELSE s
  OBVIOUS
<1> HIDE DEF g
<1>5. PICK f \in [0 .. N -> Seq(T)] : Recurses(f, N, <<>>, g)
  BY <1>0, <1>2, <1>3, Recursion
<1>6. ASSUME NEW i \in 1 .. N
      PROVE  f[i] = IF vis[i] \in S THEN Append(f[i - 1], vis[i]) ELSE f[i - 1]
  <2>1. f[i - 1] \in Seq(T)
    BY <1>0, <1>5
  <2>2. f[i] = g[<<i, f[i - 1]>>]
    BY <1>5 DEF Recurses
  <2> QED
    BY <1>4, <2>1, <2>2
<1>7. f = [i \in 0 .. N |->
            IF i = 0 THEN <<>>
            ELSE IF vis[i] \in S THEN Append(f[i - 1], vis[i]) ELSE f[i - 1]]
  <2>1. f[0] = <<>> /\ \A i \in 0 .. N : i # 0 => i \in 1 .. N
    BY <1>0, <1>5 DEF Recurses
  <2> HIDE DEF N
  <2> QED
    BY <1>5, <1>6, <2>1
<1>8. k = [i \in 0 .. N |->
            IF i = 0 THEN <<>>
            ELSE IF vis[i] \in S THEN Append(k[i - 1], vis[i]) ELSE k[i - 1]]
  BY <1>7
<1> HIDE DEF k, N
<1>13. k[0] = <<>>
  BY <1>0, <1>8
<1>14. ASSUME NEW i \in 1 .. N
       PROVE  k[i] = IF vis[i] \in S THEN Append(k[i - 1], vis[i]) ELSE k[i - 1]
  <2>1. i \in 0 .. N /\ i # 0
    BY <1>0
  <2> QED
    BY <1>8, <2>1
<1> DEFINE I == {i \in 0 .. N : /\ k[i] \in Seq(T) /\ ToSet(k[i]) = Till(i) \cap S
                                /\ IsInjective(vis) => IsInjective(k[i])}
<1> HIDE DEF Till
<1>9. 0 \in I
  <2>1. k[0] = <<>> /\ Till(0) = {}
    BY <1>13 DEF Till
  <2>2. k[0] \in Seq(T) /\ ToSet(k[0]) = Till(0) \cap S /\ IsInjective(k[0])
    BY <2>1, EmptyFact
  <2> QED
    BY <1>0, <2>2
<1>10. ASSUME NEW i \in 1 .. N, i - 1 \in I PROVE i \in I
  <2> DEFINE s == k[i - 1]
             x == vis[i]
  <2>1. k[i] = IF x \in S THEN Append(s, x) ELSE s
    BY <1>14
  <2>2. /\ s \in Seq(T) /\ ToSet(s) = Till(i - 1) \cap S
        /\ IsInjective(vis) => IsInjective(s)
    BY <1>10
  <2>0. \A j \in Int : j \in 1 .. i <=> j \in 1 .. i - 1 \/ j = i
    BY <1>0
  <2>3. Till(i) = Till(i - 1) \cup {x}
    BY <2>0 DEF Till
  <2>4. IsInjective(vis) => x \notin Till(i - 1)
    <3>1. \A j \in 1 .. i - 1 : j \in DOMAIN vis /\ i \in DOMAIN vis /\ j # i
      BY <1>0
    <3> QED
      BY <3>1 DEF IsInjective, Till
  <2>5. x \in T
    BY <1>0
  <2> HIDE DEF s, x
  <2>6. CASE x \in S
    <3> DEFINE a == Append(s, x)
    <3>1. /\ a \in Seq(T) /\ ToSet(a) = ToSet(s) \cup {x}
          /\ IsInjective(s) /\ x \notin ToSet(s) => IsInjective(a)
      BY <2>2, <2>5, AppendFact
    <3> HIDE DEF a
    <3>2. k[i] = a
      BY <2>1, <2>6 DEF a
    <3>3. ToSet(a) = Till(i) \cap S
      BY <2>2, <2>3, <2>6, <3>1
    <3>4. IsInjective(vis) => IsInjective(a)
      BY <2>2, <2>4, <3>1
    <3> QED
      BY <3>1, <3>2, <3>3, <3>4
  <2>7. CASE x \notin S
    BY <2>1, <2>2, <2>3, <2>7
  <2> QED
    BY <2>6, <2>7
<1>11. N \in I
  <2> HIDE DEF I
  <2>1. 0 .. N \subseteq I
    BY <1>0, <1>9, <1>10, Steps
  <2> QED
    BY <1>0, <2>1
<1>12. Till(N) = ToSet(vis)
  BY <1>0 DEF ToSet, Till
<1> QED
  BY <1>1, <1>11, <1>12

\* The series of a set, each once.
LEMMA OrderedFact ==
  ASSUME NEW S, S \subseteq Nat, IsFiniteSet(S)
  PROVE  /\ Ordered(S) \in Seq(S) /\ Len(Ordered(S)) = Cardinality(S)
         /\ ToSet(Ordered(S)) = S /\ IsInjective(Ordered(S))
<1> DEFINE N == Cardinality(S)
           Below(s) == {t \in S : t < s}
           rank == [s \in S |-> Cardinality(Below(s)) + 1]
           o == Ordered(S)
<1>0. N \in Nat
  BY FS_CardinalityType
<1>1. IsFiniteSet(1 .. N) /\ Cardinality(1 .. N) = N
  BY <1>0, FS_Interval
<1>2. ASSUME NEW s \in S PROVE rank[s] \in 1 .. N
  <2>1. IsFiniteSet(S \ {s}) /\ Cardinality(S \ {s}) = N - 1
    BY FS_RemoveElement
  <2>2. Below(s) \in SUBSET (S \ {s})
    OBVIOUS
  <2>3. IsFiniteSet(Below(s)) /\ Cardinality(Below(s)) <= N - 1
    BY <2>1, <2>2, FS_Subset
  <2>4. Cardinality(Below(s)) \in Nat
    BY <2>3, FS_CardinalityType
  <2> QED
    BY <1>0, <2>3, <2>4
<1>3. ASSUME NEW s \in S, NEW t \in S, s < t PROVE rank[s] # rank[t]
  <2>0. \A u \in S : u < s => u < t
    BY <1>3
  <2>5. s \in Below(t) /\ s \notin Below(s)
    BY <1>3
  <2>6. Below(s) \subseteq Below(t)
    BY <2>0
  <2>1. Below(s) \subseteq Below(t) /\ Below(s) # Below(t)
    BY <2>5, <2>6
  <2>2. IsFiniteSet(Below(t)) /\ IsFiniteSet(Below(s))
    BY FS_Subset
  <2>3. Cardinality(Below(s)) # Cardinality(Below(t))
    BY <2>1, <2>2, FS_Subset
  <2>4. Cardinality(Below(s)) \in Nat /\ Cardinality(Below(t)) \in Nat
    BY <2>2, FS_CardinalityType
  <2> QED
    BY <2>3, <2>4
<1>4. rank \in Injection(S, 1 .. N)
  <2>1. rank \in [S -> 1 .. N]
    BY <1>2
  <2>2. \A s, t \in S : s = t \/ s < t \/ t < s
    OBVIOUS
  <2> HIDE DEF rank
  <2> QED
    BY <1>3, <2>1, <2>2 DEF Injection, IsInjective
<1>5. rank \in Surjection(S, 1 .. N)
  BY <1>0, <1>1, <1>4, FS_Injection
<1>6. ASSUME NEW i \in 1 .. N PROVE o[i] \in S /\ rank[o[i]] = i
  <2>1. PICK s \in S : rank[s] = i
    BY <1>5 DEF Surjection
  <2>2. \A t \in S : Cardinality(Below(t)) \in Nat
    BY FS_Subset, FS_CardinalityType
  <2>3. Cardinality(Below(s)) = i - 1
    BY <2>1, <2>2
  <2>4. o[i] = CHOOSE t \in S : Cardinality(Below(t)) = i - 1
    BY DEF Ordered
  <2>5. o[i] \in S /\ Cardinality(Below(o[i])) = i - 1
    BY <2>3, <2>4
  <2> QED
    BY <2>5
<1>7. o \in Seq(S) /\ Len(o) = N /\ DOMAIN o = 1 .. N
  <2> DEFINE e(i) == CHOOSE s \in S : Cardinality({t \in S : t < s}) = i - 1
  <2>3. o = [i \in 1 .. N |-> e(i)]
    BY DEF Ordered
  <2> HIDE DEF o, e
  <2>1. DOMAIN o = 1 .. N /\ o = [i \in 1 .. N |-> o[i]]
    BY <2>3
  <2>2. o \in [1 .. N -> S]
    BY <1>6, <2>1
  <2> QED
    BY <1>0, <2>1, <2>2
<1> HIDE DEF o, rank
<1>8. IsInjective(o)
  BY <1>6, <1>7 DEF IsInjective
<1>9. ToSet(o) \subseteq S /\ Cardinality(ToSet(o)) = N
  BY <1>7, <1>8, CountDistinct
<1>10. ToSet(o) = S
  BY <1>9, FS_Subset
<1> QED
  BY <1>7, <1>8, <1>10 DEF o

----------------------------------------------------------------------------
(* Colours.                                                                *)

\* Colours of its own for every series: as many colours as series.
LEMMA ImageFact ==
  ASSUME NEW col, IsInjective(col), IsFiniteSet(DOMAIN col)
  PROVE  /\ IsFiniteSet({col[t] : t \in DOMAIN col})
         /\ Cardinality({col[t] : t \in DOMAIN col}) = Cardinality(DOMAIN col)
<1> DEFINE D == DOMAIN col
           C == {col[t] : t \in D}
           f == [t \in D |-> col[t]]
<1>1. f \in Surjection(D, C)
  BY DEF Surjection
<1>2. f \in Injection(D, C)
  <2>1. f \in [D -> C] /\ DOMAIN f = D /\ \A t \in D : f[t] = col[t]
    OBVIOUS
  <2> HIDE DEF f
  <2> QED
    BY <2>1 DEF Injection, IsInjective
<1> HIDE DEF f
<1> QED
  BY <1>1, <1>2, FS_Surjection

\* A colour is free when fewer than n are given.
LEMMA FreeFact ==
  ASSUME NEW n \in Nat, NEW col, IsInjective(col), IsFiniteSet(DOMAIN col)
  PROVE  /\ Free(n, col) = {} => n <= Cardinality(DOMAIN col)
         /\ Free(n, col) # {} => First(Free(n, col)) \in Free(n, col)
<1> DEFINE C == {col[t] : t \in DOMAIN col}
           F == Free(n, col)
<1>1. F = (1 .. n) \ C
  BY DEF Free
<1>2. IsFiniteSet(C) /\ Cardinality(C) = Cardinality(DOMAIN col)
  BY ImageFact
<1>3. IsFiniteSet(1 .. n) /\ Cardinality(1 .. n) = n
  BY FS_Interval
<1> HIDE DEF C, F
<1>4. ASSUME F = {} PROVE n <= Cardinality(C)
  <2>1. 1 .. n \subseteq C
    BY <1>1, <1>4
  <2> QED
    BY <2>1, <1>2, <1>3, FS_Subset
<1>5. ASSUME F # {} PROVE First(F) \in F
  <2>1. F \subseteq Nat
    BY <1>1
  <2>2. \E m \in F : \A i \in F : m <= i
    BY <1>5, <2>1, Least
  <2> QED
    BY <2>2 DEF First
<1> QED
  BY <1>2, <1>4, <1>5 DEF F

\* a gives what col gives, and further series colours of n that nothing else has.
Grown(a, col, n) ==
  /\ IsInjective(a) /\ DOMAIN col \subseteq DOMAIN a
  /\ \A t \in DOMAIN col : a[t] = col[t]
  /\ \A t \in DOMAIN a \ DOMAIN col : a[t] \in 1 .. n

\* acquireColor.
LEMMA AcquireFact ==
  ASSUME NEW n \in Nat, NEW col, NEW s, IsInjective(col), IsFiniteSet(DOMAIN col)
  PROVE  /\ Grown(Acquire(n, col, s), col, n)
         /\ DOMAIN Acquire(n, col, s) \subseteq DOMAIN col \cup {s}
         /\ Cardinality(DOMAIN col) < n => s \in DOMAIN Acquire(n, col, s)
<1>0. Cardinality(DOMAIN col) \in Nat
  BY FS_CardinalityType
<1>1. CASE s \in DOMAIN col \/ Free(n, col) = {}
  <2>1. Acquire(n, col, s) = col
    BY <1>1 DEF Acquire
  <2>2. Grown(col, col, n)
    BY DEF Grown
  <2>3. Free(n, col) = {} => ~(Cardinality(DOMAIN col) < n)
    BY <1>0, FreeFact
  <2> QED
    BY <1>1, <2>1, <2>2, <2>3
<1>2. CASE s \notin DOMAIN col /\ Free(n, col) # {}
  <2> DEFINE c == First(Free(n, col))
             a == Give(col, s, c)
  <2>1. Acquire(n, col, s) = a
    BY <1>2 DEF Acquire
  <2>2. c \in 1 .. n /\ \A t \in DOMAIN col : col[t] # c
    BY <1>2, FreeFact DEF Free
  <2> HIDE DEF c
  <2>3. DOMAIN a = DOMAIN col \cup {s} /\ a[s] = c /\ \A t \in DOMAIN col : a[t] = col[t]
    BY <1>2 DEF Give
  <2> HIDE DEF a
  <2>4. IsInjective(a)
    BY <2>2, <2>3 DEF IsInjective
  <2>5. Grown(a, col, n)
    BY <2>2, <2>3, <2>4 DEF Grown
  <2> QED
    BY <2>1, <2>3, <2>5
<1> QED
  BY <1>1, <1>2

\* seedColorAssignments: every series drawn has a colour when there are enough.
LEMMA SeedFact ==
  ASSUME NEW n \in Nat, NEW vis \in Seq(Nat), NEW keys
  PROVE  /\ IsInjective(SeedColours(n, vis, keys))
         /\ DOMAIN SeedColours(n, vis, keys) \subseteq ToSet(vis)
         /\ \A s \in DOMAIN SeedColours(n, vis, keys) : SeedColours(n, vis, keys)[s] \in 1 .. n
         /\ ToSet(vis) \subseteq keys /\ Cardinality(ToSet(vis)) <= n
              => DOMAIN SeedColours(n, vis, keys) = ToSet(vis)
<1> DEFINE S == ToSet(vis) \cap keys
           order == Upto(n, Ordered(S))
           c == SeedColours(n, vis, keys)
<1>1. IsFiniteSet(ToSet(vis)) /\ ToSet(vis) \subseteq Nat
  BY CountDistinct
<1>2. S \subseteq Nat /\ IsFiniteSet(S)
  BY <1>1, FS_Subset
<1>3. /\ Ordered(S) \in Seq(S) /\ Len(Ordered(S)) = Cardinality(S)
      /\ ToSet(Ordered(S)) = S /\ IsInjective(Ordered(S))
  <2> HIDE DEF S
  <2> QED
    BY <1>2, OrderedFact
<1>4. c = [s \in ToSet(order) |-> CHOOSE i \in 1 .. Len(order) : order[i] = s]
  BY DEF SeedColours
<1>5. /\ order \in Seq(S) /\ Len(order) <= n /\ ToSet(order) \subseteq S
      /\ Cardinality(S) <= n => order = Ordered(S)
  <2> HIDE DEF S
  <2> DEFINE o == Ordered(S)
  <2> HIDE DEF o
  <2>1. /\ Upto(n, o) \in Seq(S) /\ Len(Upto(n, o)) <= n /\ ToSet(Upto(n, o)) \subseteq ToSet(o)
        /\ Len(o) <= n => Upto(n, o) = o
    BY <1>3, UptoFact DEF o
  <2> QED
    BY <1>3, <2>1 DEF o
<1> HIDE DEF order, c
<1>6. ASSUME NEW s \in DOMAIN c PROVE c[s] \in 1 .. n /\ order[c[s]] = s
  <2>1. s \in ToSet(order) /\ c[s] = CHOOSE i \in 1 .. Len(order) : order[i] = s
    BY <1>4
  <2>2. \E i \in 1 .. Len(order) : order[i] = s
    BY <1>5, <2>1 DEF ToSet
  <2>3. c[s] \in 1 .. Len(order) /\ order[c[s]] = s
    BY <2>1, <2>2
  <2> QED
    BY <1>5, <2>3
<1>7. IsInjective(c)
  BY <1>6 DEF IsInjective
<1>8. DOMAIN c = ToSet(order)
  BY <1>4
<1>9. ASSUME ToSet(vis) \subseteq keys, Cardinality(ToSet(vis)) <= n PROVE DOMAIN c = ToSet(vis)
  <2>1. S = ToSet(vis)
    BY <1>9
  <2> HIDE DEF S
  <2> QED
    BY <1>3, <1>5, <1>8, <1>9, <2>1
<1> QED
  BY <1>5, <1>6, <1>7, <1>8, <1>9 DEF c

\* syncColorAssignments: every series drawn has a colour of its own, and the
\* one it had.
LEMMA SyncFact ==
  ASSUME NEW n \in Nat, NEW col, IsInjective(col), NEW vis \in Seq(Nat), NEW keys,
         ToSet(vis) \subseteq keys, Cardinality(ToSet(vis)) <= n
  PROVE  /\ DOMAIN SyncColours(n, col, vis, keys) = ToSet(vis)
         /\ Grown(SyncColours(n, col, vis, keys), Only(col, ToSet(vis)), n)
<1> DEFINE U == ToSet(vis)
           order == Ordered(keys \cap U)
           N == Len(order)
           k == CHOOSE h : h = [i \in 0 .. N |->
                  IF i = 0 THEN Only(col, U) ELSE Acquire(n, h[i - 1], order[i])]
           C == (1 .. n) \cup {col[s] : s \in DOMAIN col}
           V == {c \in UNION {[D -> C] : D \in SUBSET U} : IsInjective(c)}
           g == [x \in (1 .. N) \X V |-> Acquire(n, x[2], order[x[1]])]
           Till(i) == {order[j] : j \in 1 .. i}
<1>1. SyncColours(n, col, vis, keys) = k[N]
  BY DEF SyncColours
<1>2. IsFiniteSet(U) /\ U \subseteq Nat /\ keys \cap U = U
  BY CountDistinct
<1>3. order \in Seq(U) /\ ToSet(order) = U /\ IsInjective(order)
  <2> HIDE DEF U
  <2> QED
    BY <1>2, OrderedFact
<1>4. N \in Nat /\ DOMAIN order = 1 .. N /\ \A i \in 1 .. N : order[i] \in U
  <2> HIDE DEF order, U
  <2> QED
    BY <1>3
<1> HIDE DEF order, N, U
<1>5. \A c \in V : c \in [DOMAIN c -> C] /\ DOMAIN c \subseteq U /\ IsInjective(c)
                   /\ IsFiniteSet(DOMAIN c)
  <2>1. \A c \in V : c \in [DOMAIN c -> C] /\ DOMAIN c \subseteq U /\ IsInjective(c)
    BY DEF V
  <2> HIDE DEF V
  <2> QED
    BY <1>2, <2>1, FS_Subset
<1>6. Only(col, U) \in V /\ DOMAIN Only(col, U) = DOMAIN col \cap U
      /\ \A s \in DOMAIN col \cap U : Only(col, U)[s] = col[s]
  <2> DEFINE c == Only(col, U)
  <2>1. /\ c \in [DOMAIN col \cap U -> C]
        /\ \A s \in DOMAIN col \cap U : c[s] = col[s]
    BY DEF Only
  <2> HIDE DEF c
  <2>2. IsInjective(c)
    BY <2>1 DEF IsInjective
  <2> QED
    BY <2>1, <2>2 DEF V, c
<1>7. ASSUME NEW c \in V, NEW s \in U PROVE Acquire(n, c, s) \in V
  <2>0. c \in [DOMAIN c -> C] /\ DOMAIN c \subseteq U /\ IsInjective(c) /\ IsFiniteSet(DOMAIN c)
    BY <1>5
  <2> DEFINE a == Acquire(n, c, s)
             b == Give(c, s, First(Free(n, c)))
  <2>1. CASE s \in DOMAIN c \/ Free(n, c) = {}
    BY <2>1 DEF Acquire
  <2>2. CASE ~(s \in DOMAIN c \/ Free(n, c) = {})
    <3>1. a = b
      BY <2>2 DEF Acquire
    <3>2. First(Free(n, c)) \in C
      BY <2>0, <2>2, FreeFact DEF Free
    <3>3. b \in [DOMAIN c \cup {s} -> C]
      BY <2>0, <3>2 DEF Give
    <3>4. IsInjective(a)
      BY <2>0, AcquireFact DEF Grown
    <3> HIDE DEF a, b
    <3>5. DOMAIN c \cup {s} \in SUBSET U
      BY <2>0
    <3>6. b \in V
      BY <3>1, <3>3, <3>4, <3>5 DEF V
    <3> QED
      BY <3>1, <3>6 DEF a
  <2> QED
    BY <2>1, <2>2
<1> HIDE DEF V, C
<1>8. g \in [(1 .. N) \X V -> V]
  BY <1>4, <1>7
<1>9. \A i \in 1 .. N, c \in V : g[<<i, c>>] = Acquire(n, c, order[i])
  OBVIOUS
<1> HIDE DEF g
<1>10. PICK f \in [0 .. N -> V] : Recurses(f, N, Only(col, U), g)
  BY <1>4, <1>6, <1>8, Recursion
<1>11. ASSUME NEW i \in 1 .. N PROVE f[i] = Acquire(n, f[i - 1], order[i])
  <2>1. f[i - 1] \in V
    BY <1>4, <1>10
  <2>2. f[i] = g[<<i, f[i - 1]>>]
    BY <1>10 DEF Recurses
  <2> QED
    BY <1>9, <2>1, <2>2
<1>12. f = [i \in 0 .. N |->
             IF i = 0 THEN Only(col, U) ELSE Acquire(n, f[i - 1], order[i])]
  <2>1. f[0] = Only(col, U) /\ \A i \in 0 .. N : i # 0 => i \in 1 .. N
    BY <1>4, <1>10 DEF Recurses
  <2> QED
    BY <1>10, <1>11, <2>1
<1>13. k = [i \in 0 .. N |->
             IF i = 0 THEN Only(col, U) ELSE Acquire(n, k[i - 1], order[i])]
  BY <1>12
<1> HIDE DEF k
<1>14. k[0] = Only(col, U)
  BY <1>4, <1>13
<1>15. ASSUME NEW i \in 1 .. N PROVE k[i] = Acquire(n, k[i - 1], order[i])
  <2>1. i \in 0 .. N /\ i # 0
    BY <1>4
  <2> QED
    BY <1>13, <2>1
<1> DEFINE Q(c, i) == /\ c \in V /\ Till(i) \subseteq DOMAIN c
                      /\ Grown(c, Only(col, U), n)
           I == {i \in 0 .. N : Q(k[i], i)}
<1> HIDE DEF Till
<1>16. 0 \in I
  <2>1. Till(0) = {}
    BY DEF Till
  <2>2. Grown(Only(col, U), Only(col, U), n)
    BY <1>5, <1>6 DEF Grown
  <2> QED
    BY <1>4, <1>6, <1>14, <2>1, <2>2
<1>17. ASSUME NEW i \in 1 .. N, i - 1 \in I PROVE i \in I
  <2> DEFINE c == k[i - 1]
             s == order[i]
             a == Acquire(n, c, s)
  <2>1. k[i] = a /\ s \in U
    BY <1>4, <1>15
  <2>2. c \in V /\ Till(i - 1) \subseteq DOMAIN c /\ Grown(c, Only(col, U), n)
    BY <1>17
  <2>3. DOMAIN c \subseteq U /\ IsInjective(c) /\ IsFiniteSet(DOMAIN c)
    BY <1>5, <2>2
  <2>4. \A j \in Int : j \in 1 .. i <=> j \in 1 .. i - 1 \/ j = i
    BY <1>4
  <2>5. Till(i) = Till(i - 1) \cup {s}
    BY <2>4 DEF Till
  <2> HIDE DEF c, s
  <2>6. s \notin DOMAIN c => Cardinality(DOMAIN c) < n
    <3>1. Cardinality(DOMAIN c) <= Cardinality(U) /\ (Cardinality(DOMAIN c) = Cardinality(U) => DOMAIN c = U)
      BY <1>2, <2>3, FS_Subset
    <3>2. Cardinality(DOMAIN c) \in Nat /\ Cardinality(U) \in Nat
      BY <1>2, <2>3, FS_CardinalityType
    <3>3. Cardinality(U) <= n
      BY DEF U
    <3> QED
      BY <2>1, <3>1, <3>2, <3>3
  <2>7. Grown(a, c, n) /\ (Cardinality(DOMAIN c) < n => s \in DOMAIN a)
    BY <2>3, AcquireFact
  <2>8. a \in V
    BY <1>7, <2>1, <2>2
  <2> HIDE DEF a
  <2>9. Till(i) \subseteq DOMAIN a
    BY <2>2, <2>5, <2>6, <2>7 DEF Grown
  <2>10. Grown(a, Only(col, U), n)
    BY <2>2, <2>7 DEF Grown
  <2> QED
    BY <1>4, <2>1, <2>8, <2>9, <2>10
<1>18. N \in I
  <2> HIDE DEF I
  <2>1. 0 .. N \subseteq I
    BY <1>4, <1>16, <1>17, Steps
  <2> QED
    BY <1>4, <2>1
<1>19. Till(N) = U
  BY <1>3, <1>4 DEF Till, ToSet
<1>20. k[N] \in V /\ U \subseteq DOMAIN k[N] /\ Grown(k[N], Only(col, U), n)
  BY <1>18, <1>19
<1>21. DOMAIN k[N] = U
  BY <1>5, <1>20
<1> QED
  BY <1>1, <1>20, <1>21 DEF U

----------------------------------------------------------------------------
(* The invariant.                                                          *)

\* Series of S, each once.
Distinct(vis, S) == vis \in Seq(S) /\ IsInjective(vis)

\* A metric as an answer brings it.
Known(m) == m.id \in Metrics /\ m.keys \subseteq SeriesOf(m.id) /\ m.keys # {} /\ m.have \subseteq m.keys

\* Colours that no two series share; a scalar chart's are of its palette.
Colouring(m, col) ==
  IsInjective(col) /\ (IsHistogram(m) \/ \A s \in DOMAIN col : col[s] \in 1 .. Cap)

\* The legend of a metric that is shown.
Legend(v, m) ==
  /\ Distinct(v.visible, m.keys) /\ DOMAIN v.colour = ToSet(v.visible) /\ Colouring(m, v.colour)
  /\ IsHistogram(m) \/ Len(v.visible) <= Cap

\* What a handler may hand to the effects: series of the metric, listed or
\* not, coloured or not, more than the cap or not.
Draft(v, m) ==
  Distinct(v.visible, SeriesOf(m.id)) /\ DOMAIN v.colour \subseteq ToSet(v.visible)
  /\ Colouring(m, v.colour)

\* A stored view, and all of them.
IsStored(r) == r = [keys |-> r.keys, agg |-> r.agg, all |-> r.all]
SavedFits(s) ==
  /\ DOMAIN s = Metrics
  /\ \A m \in Metrics : s[m] # Unsaved => IsStored(s[m]) /\ Distinct(s[m].keys, SeriesOf(m))

\* A metric's series are positive numbers, and finitely many.
LEMMA SeriesFact ==
  ASSUME NEW m \in Metrics \cup {None}
  PROVE  SeriesOf(m) \subseteq Nat \ {0} /\ IsFiniteSet(SeriesOf(m))
<1>1. m \in Nat /\ NumSeries \in Nat /\ NumSeries * m \in Nat
  BY MetricViewAssumption DEF None
<1> DEFINE b == NumSeries * m
<1>2. SeriesOf(m) = {b + i : i \in 1 .. NumSeries}
  BY DEF SeriesOf
<1> HIDE DEF b
<1>3. SeriesOf(m) \in SUBSET (1 .. b + NumSeries)
  BY <1>1, <1>2 DEF b
<1>4. IsFiniteSet(1 .. b + NumSeries)
  BY <1>1, FS_Interval DEF b
<1> QED
  BY <1>1, <1>3, <1>4, FS_Subset DEF b

LEMMA KnownFact ==
  ASSUME NEW m, Known(m)
  PROVE  /\ m # NoMetric /\ m.id \in Metrics /\ m.keys \subseteq Nat /\ IsFiniteSet(m.keys)
         /\ Cardinality(m.keys) \in Nat \ {0} /\ SeriesOf(m.id) \subseteq Nat
<1>1. m.id \in Metrics /\ m.keys \subseteq SeriesOf(m.id) /\ m.keys # {} /\ None \notin Metrics
  BY MetricViewAssumption DEF Known, None
<1>2. SeriesOf(m.id) \subseteq Nat \ {0} /\ IsFiniteSet(SeriesOf(m.id))
  BY <1>1, SeriesFact
<1>3. IsFiniteSet(m.keys)
  BY <1>1, <1>2, FS_Subset
<1>4. Cardinality(m.keys) \in Nat /\ Cardinality(m.keys) # 0
  BY <1>1, <1>3, FS_CardinalityType, FS_EmptySet
<1> QED
  BY <1>1, <1>2, <1>3, <1>4 DEF NoMetric

\* The palette has a colour for every series the metric lists or the chart
\* draws, unless the chart has a cap.
LEMMA PaletteFact ==
  ASSUME NEW m, Known(m), NEW vis \in Seq(Nat)
  PROVE  /\ Palette(m, vis) \in Nat /\ (~IsHistogram(m) => Palette(m, vis) = Cap)
         /\ IsHistogram(m) => /\ Cardinality(m.keys) <= Palette(m, vis)
                              /\ Cardinality(ToSet(vis)) <= Palette(m, vis)
<1>1. Cardinality(m.keys) \in Nat \ {0} /\ Cap \in Nat
  BY KnownFact, MetricViewAssumption
<1>2. Cardinality(ToSet(vis)) \in Nat
  BY CountDistinct, FS_CardinalityType
<1> QED
  BY <1>1, <1>2 DEF Palette

\* What is left of distinct series, in a larger or a smaller set.
LEMMA DistinctFact ==
  ASSUME NEW S, NEW vis, Distinct(vis, S)
  PROVE  /\ \A U : ToSet(vis) \subseteq U => Distinct(vis, U)
         /\ \A U : Distinct(Keeping(vis, U), S) /\ Distinct(Keeping(vis, U), U)
         /\ \A U : ToSet(Keeping(vis, U)) = ToSet(vis) \cap U
         /\ \A n \in Nat : /\ Distinct(Upto(n, vis), S) /\ Len(Upto(n, vis)) <= n
                           /\ ToSet(Upto(n, vis)) \subseteq ToSet(vis)
         /\ Cardinality(ToSet(vis)) = Len(vis) /\ IsFiniteSet(ToSet(vis)) /\ ToSet(vis) \subseteq S
<1>0. vis \in Seq(S) /\ IsInjective(vis)
  BY DEF Distinct
<1>1. ASSUME NEW T, NEW s \in Seq(T), NEW U, ToSet(s) \subseteq U PROVE s \in Seq(U)
  <2>1. \A i \in 1 .. Len(s) : s[i] \in U
    BY <1>1 DEF ToSet
  <2> QED
    BY <2>1
<1>2. ASSUME NEW U, ToSet(vis) \subseteq U PROVE Distinct(vis, U)
  BY <1>0, <1>1, <1>2 DEF Distinct
<1>3. ASSUME NEW U
      PROVE  /\ Distinct(Keeping(vis, U), S) /\ Distinct(Keeping(vis, U), U)
             /\ ToSet(Keeping(vis, U)) = ToSet(vis) \cap U
  <2> DEFINE k == Keeping(vis, U)
  <2>1. k \in Seq(S) /\ ToSet(k) = ToSet(vis) \cap U /\ IsInjective(k)
    BY <1>0, KeepingFact
  <2> HIDE DEF k
  <2>2. k \in Seq(U)
    BY <1>1, <2>1
  <2> QED
    BY <2>1, <2>2 DEF Distinct, k
<1>4. ASSUME NEW n \in Nat
      PROVE  /\ Distinct(Upto(n, vis), S) /\ Len(Upto(n, vis)) <= n
             /\ ToSet(Upto(n, vis)) \subseteq ToSet(vis)
  <2> DEFINE u == Upto(n, vis)
  <2>1. u \in Seq(S) /\ Len(u) <= n /\ IsInjective(u) /\ ToSet(u) \subseteq ToSet(vis)
    BY <1>0, UptoFact
  <2> QED
    BY <2>1 DEF Distinct
<1>5. Cardinality(ToSet(vis)) = Len(vis) /\ IsFiniteSet(ToSet(vis)) /\ ToSet(vis) \subseteq S
  BY <1>0, CountDistinct
<1> QED
  BY <1>2, <1>3, <1>4, <1>5

LEMMA CappedFact ==
  ASSUME NEW S, NEW vis, Distinct(vis, S), NEW m
  PROVE  /\ Distinct(Capped(m, vis), S) /\ (IsHistogram(m) \/ Len(Capped(m, vis)) <= Cap)
         /\ ToSet(Capped(m, vis)) \subseteq ToSet(vis)
BY DistinctFact, MetricViewAssumption DEF Capped

\* resolveTimeseriesVisible, reconcileTimeseriesVisible: series the metric
\* lists, each once, within the cap.
LEMMA ResolveFact ==
  ASSUME NEW m, Known(m), SavedFits(saved)
  PROVE  Distinct(Resolve(m), m.keys) /\ (IsHistogram(m) \/ Len(Resolve(m)) <= Cap)
<1>0. m.id \in Metrics /\ m.keys \subseteq Nat /\ IsFiniteSet(m.keys)
  BY KnownFact
<1>1. CASE saved[m.id] = Unsaved
  <2> DEFINE o == Ordered(m.keys)
  <2>1. Distinct(o, m.keys)
    BY <1>0, OrderedFact DEF Distinct
  <2>2. Resolve(m) = Upto(Default, o) /\ Default \in Nat /\ Default <= Cap /\ Cap \in Nat
    BY <1>1, MetricViewAssumption DEF Resolve
  <2> HIDE DEF o
  <2>3. Distinct(Upto(Default, o), m.keys) /\ Len(Upto(Default, o)) <= Default
    BY <2>1, <2>2, DistinctFact
  <2>4. Len(Upto(Default, o)) \in Nat
    BY <2>3 DEF Distinct
  <2> QED
    BY <2>2, <2>3, <2>4
<1>2. CASE saved[m.id] # Unsaved
  <2> DEFINE k == Keeping(saved[m.id].keys, m.keys)
  <2>1. Distinct(saved[m.id].keys, SeriesOf(m.id))
    BY <1>0, <1>2 DEF SavedFits
  <2>2. Distinct(k, m.keys)
    BY <2>1, DistinctFact
  <2>3. Resolve(m) = Capped(m, k)
    BY <1>2 DEF Resolve
  <2> HIDE DEF k
  <2> QED
    BY <2>2, <2>3, CappedFact
<1> QED
  BY <1>1, <1>2

LEMMA ReconcileFact ==
  ASSUME NEW m, Known(m), SavedFits(saved), NEW vis, Distinct(vis, SeriesOf(m.id))
  PROVE  /\ Distinct(Reconcile(m, vis), m.keys) /\ (IsHistogram(m) \/ Len(Reconcile(m, vis)) <= Cap)
         /\ ToSet(vis) \subseteq m.keys => ToSet(Reconcile(m, vis)) \subseteq ToSet(vis)
<1> DEFINE k == Keeping(vis, m.keys)
<1>1. Distinct(k, m.keys) /\ ToSet(k) \subseteq ToSet(vis)
  BY DistinctFact
<1> HIDE DEF k
<1>2. /\ Distinct(Capped(m, k), m.keys) /\ (IsHistogram(m) \/ Len(Capped(m, k)) <= Cap)
      /\ ToSet(Capped(m, k)) \subseteq ToSet(k)
  BY <1>1, CappedFact
<1>3. /\ Reconcile(m, vis) = Capped(m, k) \/ Reconcile(m, vis) = Resolve(m)
      /\ ToSet(vis) \subseteq m.keys => Reconcile(m, vis) = Capped(m, k)
  BY DEF Reconcile, k
<1> QED
  BY <1>1, <1>2, <1>3, ResolveFact

\* Effect (2b): whatever legend a handler leaves, what comes of it is one of
\* the metric; a series that had a colour and is still drawn keeps it.
LEMMA PruneFact ==
  ASSUME NEW m, Known(m), SavedFits(saved), NEW v, IsView(v), Draft(v, m)
  PROVE  /\ Legend(PruneAndColour(v, m), m)
         /\ Alike(PruneAndColour(v, m), v) /\ PruneAndColour(v, m).series = v.series
         /\ ToSet(v.visible) \subseteq DOMAIN v.colour =>
              \A s \in DOMAIN v.colour \cap DOMAIN PruneAndColour(v, m).colour :
                PruneAndColour(v, m).colour[s] = v.colour[s]
         /\ ToSet(v.visible) \subseteq m.keys =>
              DOMAIN PruneAndColour(v, m).colour \subseteq ToSet(v.visible)
<1> DEFINE vis  == v.visible
           col  == v.colour
           next == Reconcile(m, vis)
           n    == Palette(m, vis)
           c    == Palette(m, next)
           u    == PruneAndColour(v, m)
           same == [v EXCEPT !.colour = EnsureColours(m, col, vis)]
           sync == SyncColours(c, col, next, m.keys)
           new  == [v EXCEPT !.visible = next, !.colour = sync]
<1>0. /\ Distinct(vis, SeriesOf(m.id)) /\ DOMAIN col \subseteq ToSet(vis) /\ Colouring(m, col)
      /\ m # NoMetric /\ m.keys # {} /\ m.keys \subseteq Nat /\ IsFiniteSet(m.keys)
      /\ Cardinality(m.keys) \in Nat /\ SeriesOf(m.id) \subseteq Nat /\ Cap \in Nat
  BY KnownFact, MetricViewAssumption DEF Draft, Known
<1>1. u = IF ToSet(next) = ToSet(vis) THEN same ELSE new
  BY <1>0 DEF PruneAndColour
<1>2. /\ Distinct(next, m.keys) /\ (IsHistogram(m) \/ Len(next) <= Cap)
      /\ ToSet(vis) \subseteq m.keys => ToSet(next) \subseteq ToSet(vis)
  BY <1>0, ReconcileFact
<1> HIDE DEF next
<1>3. vis \in Seq(Nat) /\ next \in Seq(Nat)
  BY <1>0, <1>2 DEF Distinct
<1>4. /\ n \in Nat /\ (~IsHistogram(m) => n = Cap)
      /\ IsHistogram(m) => Cardinality(m.keys) <= n /\ Cardinality(ToSet(vis)) <= n
      /\ c \in Nat /\ (~IsHistogram(m) => c = Cap)
      /\ IsHistogram(m) => Cardinality(ToSet(next)) <= c
  BY <1>3, PaletteFact
<1>5. /\ Cardinality(ToSet(next)) = Len(next) /\ ToSet(next) \subseteq m.keys
      /\ Cardinality(ToSet(vis)) = Len(vis) /\ IsFiniteSet(ToSet(vis))
      /\ Len(next) \in Nat /\ Len(vis) \in Nat
  BY <1>0, <1>2, <1>3, DistinctFact
<1> HIDE DEF n, c
<1>6. CASE ToSet(next) = ToSet(vis)
  <2> DEFINE e == EnsureColours(m, col, vis)
  <2>1. Distinct(vis, m.keys) /\ (IsHistogram(m) \/ Len(vis) <= Cap)
    BY <1>0, <1>2, <1>5, <1>6, DistinctFact
  <2>2. same.visible = vis /\ same.colour = e /\ same.series = v.series /\ Alike(same, v)
    BY DEF IsView, Alike
  <2>3. /\ DOMAIN e = ToSet(vis) /\ Colouring(m, e)
        /\ ToSet(vis) \subseteq DOMAIN col => \A s \in DOMAIN col \cap DOMAIN e : e[s] = col[s]
    <3>1. CASE vis = <<>>
      <4>1. e = <<>> /\ ToSet(vis) = {} /\ DOMAIN e = {}
        BY <3>1, EmptyFact DEF EnsureColours
      <4> QED
        BY <4>1 DEF Colouring, IsInjective
    <3>2. CASE vis # <<>> /\ ToSet(vis) \subseteq DOMAIN col
      <4>1. e = col
        BY <3>2 DEF EnsureColours
      <4> QED
        BY <1>0, <3>2, <4>1
    <3>3. CASE vis # <<>> /\ ~(ToSet(vis) \subseteq DOMAIN col)
      <4>1. e = SeedColours(n, vis, m.keys)
        BY <3>3 DEF EnsureColours, n
      <4>2. ToSet(vis) \subseteq m.keys /\ Cardinality(ToSet(vis)) <= n
        BY <1>4, <1>5, <1>6, <2>1
      <4>3. DOMAIN e = ToSet(vis) /\ IsInjective(e) /\ \A s \in DOMAIN e : e[s] \in 1 .. n
        BY <1>3, <1>4, <4>1, <4>2, SeedFact
      <4> QED
        BY <1>4, <3>3, <4>3 DEF Colouring
    <3> QED
      BY <3>1, <3>2, <3>3
  <2> HIDE DEF e, same
  <2> QED
    BY <1>1, <1>6, <2>1, <2>2, <2>3 DEF Legend
<1>7. CASE ToSet(next) # ToSet(vis)
  <2>1. Alike(new, v) /\ new.visible = next /\ new.colour = sync /\ new.series = v.series
    <3>1. Alike(new, v)
      BY TwoFields
    <3>2. new.visible = next /\ new.colour = sync /\ new.series = v.series
      BY DEF IsView
    <3> QED
      BY <3>1, <3>2
  <2>2. Cardinality(ToSet(next)) <= c
    BY <1>2, <1>4, <1>5
  <2>3. IsInjective(col)
    BY <1>0 DEF Colouring
  <2>4. DOMAIN sync = ToSet(next) /\ Grown(sync, Only(col, ToSet(next)), c)
    BY <1>3, <1>4, <1>5, <2>2, <2>3, SyncFact
  <2> HIDE DEF sync, new
  <2>5. /\ DOMAIN Only(col, ToSet(next)) = DOMAIN col \cap ToSet(next)
        /\ \A s \in DOMAIN col \cap ToSet(next) : Only(col, ToSet(next))[s] = col[s]
    BY DEF Only
  <2>6. \A s \in DOMAIN col \cap DOMAIN sync : sync[s] = col[s]
    BY <2>4, <2>5 DEF Grown
  <2>7. \A s \in DOMAIN sync \ DOMAIN col : sync[s] \in 1 .. c
    BY <2>4, <2>5 DEF Grown
  <2>8. IsInjective(sync)
    BY <2>4 DEF Grown
  <2>9. Colouring(m, sync)
    BY <1>0, <1>4, <2>6, <2>7, <2>8 DEF Colouring
  <2> QED
    BY <1>1, <1>2, <1>7, <2>1, <2>4, <2>6, <2>9 DEF Legend
<1> QED
  BY <1>6, <1>7

Aggs == {"raw", "rate", "sum"}
Params == [agg : Aggs \cup {"none"}, htab : Tabs \cup {"none"}, hscope : Scopes \cup {"none"},
           dp : Int, series : Int]
Entries == [id : Metrics \cup {None}, q : Params]

\* What every view is, for any metric.
ViewTypes(v, m) ==
  /\ IsView(v) /\ v.agg \in Aggs /\ v.tab \in Tabs /\ v.scope \in Scopes
  /\ v.dp \in Int /\ v.series \in SeriesOf(m.id) \cup {None}

\* Before a metric arrives nothing is drawn or selected.
Blank(v) == v.visible = <<>> /\ DOMAIN v.colour = {} /\ v.dp = None /\ v.series = None

\* A view that a handler hands to the effects, and one that they leave.
Ready(v, m) == ViewTypes(v, m) /\ IF m = NoMetric THEN Blank(v) ELSE Known(m) /\ Draft(v, m)
OnScreen(v, m) ==
  (v.dp # None => v.dp \in m.have \cap ToSet(v.visible)) /\ v.agg \in Available(m)
Shown(v, m) ==
  ViewTypes(v, m) /\ IF m = NoMetric THEN Blank(v) ELSE Known(m) /\ Legend(v, m) /\ OnScreen(v, m)

HistoryFits ==
  history \in Seq(Entries) /\ Len(history) <= MaxHistory /\ pos \in 1 .. Len(history)

\* The inductive invariant: view and metric, history and stored views.
MetricInv ==
  /\ Shown(view, metric) /\ HistoryFits /\ SavedFits(saved)
  /\ touched \subseteq Metrics /\ events \in 0 .. MaxEvents

LEMMA ShownReady == ASSUME NEW v, NEW m, Shown(v, m) PROVE Ready(v, m)
<1>1. ASSUME Known(m), Legend(v, m) PROVE Draft(v, m)
  <2>1. Distinct(v.visible, m.keys) /\ m.keys \subseteq SeriesOf(m.id)
    BY <1>1 DEF Legend, Known
  <2>2. ToSet(v.visible) \subseteq SeriesOf(m.id)
    BY <2>1, DistinctFact
  <2>3. Distinct(v.visible, SeriesOf(m.id))
    BY <2>1, <2>2, DistinctFact
  <2> QED
    BY <1>1, <2>3 DEF Legend, Draft
<1> QED
  BY <1>1 DEF Shown, Ready

LEMMA AvailableFact ==
  ASSUME NEW m
  PROVE  Available(m) \subseteq Aggs /\ DefaultView(m) \in Available(m) /\ "raw" \in Available(m)
BY DEF Available, DefaultView, Aggs

\* A stored view that is written.
LEMMA StoredFact ==
  ASSUME SavedFits(saved), NEW m \in Metrics
  PROVE  /\ IsStored(Stored(m)) /\ Distinct(Stored(m).keys, SeriesOf(m))
         /\ \A s, r : SavedFits(s) /\ IsStored(r) /\ Distinct(r.keys, SeriesOf(m))
                        => SavedFits([s EXCEPT ![m] = r])
<1>1. IsStored(Stored(m)) /\ Distinct(Stored(m).keys, SeriesOf(m))
  <2>1. CASE saved[m] = Unsaved
    <3> DEFINE r == [keys |-> <<>>, agg |-> "none", all |-> FALSE]
    <3>1. Stored(m) = r /\ IsStored(r) /\ r.keys = <<>>
      BY <2>1 DEF Stored, IsStored
    <3> QED
      BY <3>1, EmptyFact DEF Distinct
  <2>2. CASE saved[m] # Unsaved
    BY <2>2 DEF Stored, SavedFits
  <2> QED
    BY <2>1, <2>2
<1>2. ASSUME NEW s, NEW r, SavedFits(s), IsStored(r), Distinct(r.keys, SeriesOf(m))
      PROVE  SavedFits([s EXCEPT ![m] = r])
  BY <1>2 DEF SavedFits
<1> QED
  BY <1>1, <1>2

LEMMA SaveFact ==
  ASSUME SavedFits(saved), NEW m \in Metrics, NEW a, NEW b, NEW vis, Distinct(vis, SeriesOf(m))
  PROVE  SavedFits(SaveAgg(m, a)) /\ SavedFits(SaveAll(m, b)) /\ SavedFits(SaveKeys(m, vis))
<1> DEFINE r == Stored(m)
           ra == [r EXCEPT !.agg = a]
           rb == [r EXCEPT !.all = b]
           rk == [r EXCEPT !.keys = vis]
<1>1. IsStored(r) /\ Distinct(r.keys, SeriesOf(m))
  BY StoredFact
<1>2. m # None
  BY MetricViewAssumption
<1>3. /\ SaveAgg(m, a) = [saved EXCEPT ![m] = ra]
      /\ SaveAll(m, b) = [saved EXCEPT ![m] = rb]
      /\ SaveKeys(m, vis) = [saved EXCEPT ![m] = rk]
  BY <1>2 DEF SaveAgg, SaveAll, SaveKeys
<1> HIDE DEF r
<1>4. /\ IsStored(ra) /\ ra.keys = r.keys
      /\ IsStored(rb) /\ rb.keys = r.keys
      /\ IsStored(rk) /\ rk.keys = vis
  BY <1>1 DEF IsStored
<1> HIDE DEF ra, rb, rk
<1>5. \A x : IsStored(x) /\ Distinct(x.keys, SeriesOf(m)) => SavedFits([saved EXCEPT ![m] = x])
  BY StoredFact
<1> QED
  BY <1>1, <1>3, <1>4, <1>5

\* The effects: of any view a handler leaves they make one that is shown.
LEMMA SettleFact ==
  ASSUME SavedFits(saved), NEW s, SavedFits(s), NEW m, NEW v, Ready(v, m), Settle(v, m, s)
  PROVE  /\ metric' = m /\ Shown(view', m) /\ SavedFits(saved')
         /\ m # NoMetric /\ ToSet(v.visible) \subseteq DOMAIN v.colour =>
              \A t \in DOMAIN v.colour \cap DOMAIN view'.colour : view'.colour[t] = v.colour[t]
         /\ m # NoMetric /\ ToSet(v.visible) \subseteq m.keys =>
              DOMAIN view'.colour \subseteq ToSet(v.visible)
<1> DEFINE v1 == PruneAndColour(v, m)
           v2 == DropHidden(v1, m)
           v3 == Coerce(v2, m)
<1>1. view' = v3 /\ metric' = m
  BY DEF Settle
<1>2. DefaultView(m) \in Available(m) /\ Available(m) \subseteq Aggs
  BY AvailableFact
<1>3. ViewTypes(v, m)
  BY DEF Ready
<1>4. /\ Alike(v1, v) /\ v1.series = v.series
      /\ IF m = NoMetric THEN v1 = v ELSE Legend(v1, m)
      /\ m # NoMetric /\ ToSet(v.visible) \subseteq DOMAIN v.colour =>
           \A t \in DOMAIN v.colour \cap DOMAIN v1.colour : v1.colour[t] = v.colour[t]
      /\ m # NoMetric /\ ToSet(v.visible) \subseteq m.keys =>
           DOMAIN v1.colour \subseteq ToSet(v.visible)
  <2>1. CASE m = NoMetric
    <3>1. v1 = v
      BY <2>1 DEF PruneAndColour
    <3> QED
      BY <1>3, <2>1, <3>1 DEF Alike, ViewTypes
  <2>2. CASE m # NoMetric
    <3>1. Known(m) /\ Draft(v, m) /\ IsView(v)
      BY <1>3, <2>2 DEF Ready, ViewTypes
    <3> QED
      BY <2>2, <3>1, PruneFact
  <2> QED
    BY <2>1, <2>2
<1> HIDE DEF v1
<1>5. /\ IsView(v2) /\ v2.visible = v1.visible /\ v2.colour = v1.colour /\ v2.series = v1.series
      /\ v2.agg = v1.agg /\ v2.tab = v1.tab /\ v2.scope = v1.scope
      /\ v2.dp \in {v1.dp, None}
      /\ m # NoMetric /\ v2.dp # None => v2.dp \in m.have \cap ToSet(v2.visible)
      /\ m = NoMetric => v2 = v1
  BY <1>4 DEF DropHidden, IsView, Alike
<1> HIDE DEF v2
<1>6. /\ IsView(v3) /\ v3.visible = v2.visible /\ v3.colour = v2.colour /\ v3.series = v2.series
      /\ v3.dp = v2.dp /\ v3.tab = v2.tab /\ v3.scope = v2.scope
      /\ v3.agg \in Available(m)
  <2>1. CASE Coerced(v2, m)
    BY <1>2, <1>5, <2>1 DEF Coerce, IsView
  <2>2. CASE ~Coerced(v2, m)
    BY <1>5, <2>2 DEF Coerce, Coerced
  <2> QED
    BY <2>1, <2>2
<1> HIDE DEF v3
<1>7. ViewTypes(v3, m)
  BY <1>2, <1>3, <1>4, <1>5, <1>6 DEF ViewTypes, Alike, None
<1>8. CASE m = NoMetric
  <2>1. Blank(v)
    BY <1>8 DEF Ready
  <2>2. Blank(v3)
    BY <1>4, <1>5, <1>6, <1>8, <2>1 DEF Blank
  <2> QED
    BY <1>1, <1>7, <1>8, <2>2 DEF Shown, Settle
<1>9. CASE m # NoMetric
  <2>1. Known(m)
    BY <1>9 DEF Ready
  <2>2. Legend(v3, m)
    BY <1>4, <1>5, <1>6, <1>9 DEF Legend
  <2>3. OnScreen(v3, m)
    BY <1>5, <1>6, <1>9 DEF OnScreen
  <2>4. SavedFits(saved')
    <3> DEFINE r == IF s[m.id] = Unsaved THEN Stored(m.id) ELSE s[m.id]
               ra == [r EXCEPT !.agg = DefaultView(m)]
    <3>0. m.id \in Metrics
      BY <2>1 DEF Known
    <3>1. saved' = s \/ saved' = [s EXCEPT ![m.id] = ra]
      BY <3>0 DEF Settle, SavedFits
    <3>2. IsStored(r) /\ Distinct(r.keys, SeriesOf(m.id))
      BY <3>0, StoredFact DEF SavedFits
    <3> HIDE DEF r
    <3>3. IsStored(ra) /\ ra.keys = r.keys
      BY <3>2 DEF IsStored
    <3> HIDE DEF ra
    <3>4. SavedFits([s EXCEPT ![m.id] = ra])
      BY <3>0, <3>2, <3>3, StoredFact
    <3> QED
      BY <3>1, <3>4
  <2> QED
    BY <1>1, <1>4, <1>5, <1>6, <1>7, <1>9, <2>1, <2>2, <2>3, <2>4 DEF Shown
<1> QED
  BY <1>8, <1>9

\* Parameters taken over: a series they name joins the legend, coloured or not.
LEMMA ApplyFact ==
  ASSUME NEW v, NEW m, Ready(v, m), NEW q, NEW reset
  PROVE  Ready(Apply(v, Parse(q, m), reset), m)
<1> DEFINE p == Parse(q, m)
           v1 == IF p.kind = "histogram" THEN [v EXCEPT !.tab = p.htab, !.scope = p.hscope]
                 ELSE IF p.agg # "none" THEN [v EXCEPT !.agg = p.agg, !.coerced = FALSE]
                 ELSE IF reset THEN [v EXCEPT !.agg = "raw", !.coerced = FALSE] ELSE v
           vis == IF p.series = None \/ p.series \in ToSet(v1.visible) THEN v1.visible
                  ELSE Append(v1.visible, p.series)
           u == Apply(v, p, reset)
<1>1. u = [v1 EXCEPT !.dp = p.dp, !.series = p.series, !.visible = vis]
  BY DEF Apply
<1>2. ViewTypes(v, m)
  BY DEF Ready
<1>3. /\ p.dp \in m.have \cup {None} /\ p.series \in m.keys \cup {None}
      /\ p.kind = "histogram" => p.htab \in Tabs /\ p.hscope \in Scopes
      /\ p.kind # "histogram" => p.agg \in Available(m) \cup {"none"}
  BY DEF Parse, Member, Tabs, Scopes
<1> HIDE DEF p
<1>4. /\ IsView(v1) /\ v1.visible = v.visible /\ v1.colour = v.colour
      /\ v1.agg \in Aggs /\ v1.tab \in Tabs /\ v1.scope \in Scopes
  <2>1. CASE p.kind = "histogram"
    BY <1>2, <1>3, <2>1 DEF ViewTypes, IsView
  <2>2. CASE p.kind # "histogram" /\ p.agg # "none"
    <3>1. p.agg \in Aggs
      BY <1>3, <2>2, AvailableFact
    <3> DEFINE w == [v EXCEPT !.agg = p.agg, !.coerced = FALSE]
    <3>2. v1 = w
      BY <2>2
    <3>3. IsView(w)
      BY <1>2, TwoFields DEF ViewTypes
    <3>4. w.visible = v.visible /\ w.colour = v.colour /\ w.agg = p.agg /\ w.tab = v.tab /\ w.scope = v.scope
      BY <1>2 DEF ViewTypes, IsView
    <3> QED
      BY <1>2, <3>1, <3>2, <3>3, <3>4 DEF ViewTypes
  <2>3. CASE p.kind # "histogram" /\ p.agg = "none"
    <3> DEFINE w == [v EXCEPT !.agg = "raw", !.coerced = FALSE]
    <3>2. v1 = v \/ v1 = w
      BY <2>3
    <3>3. IsView(w)
      BY <1>2, TwoFields DEF ViewTypes
    <3>4. w.visible = v.visible /\ w.colour = v.colour /\ w.agg = "raw" /\ w.tab = v.tab /\ w.scope = v.scope
      BY <1>2 DEF ViewTypes, IsView
    <3> QED
      BY <1>2, <3>2, <3>3, <3>4 DEF ViewTypes, Aggs
  <2> QED
    BY <2>1, <2>2, <2>3
<1> HIDE DEF v1, vis
<1>5. /\ IsView(u) /\ u.visible = vis /\ u.colour = v.colour /\ u.dp = p.dp /\ u.series = p.series
      /\ u.agg = v1.agg /\ u.tab = v1.tab /\ u.scope = v1.scope
  BY <1>1, <1>4 DEF IsView
<1> SUFFICES Ready(u, m)
  BY DEF p
<1> HIDE DEF u
<1>6. vis = IF p.series = None \/ p.series \in ToSet(v.visible) THEN v.visible
            ELSE Append(v.visible, p.series)
  BY <1>4 DEF vis
<1>7. CASE m = NoMetric
  <2>1. Blank(v) /\ p.dp = None /\ p.series = None
    BY <1>3, <1>7 DEF Ready, NoMetric
  <2>2. Blank(u)
    BY <1>5, <1>6, <2>1 DEF Blank
  <2>3. ViewTypes(u, m)
    BY <1>4, <1>5, <2>1 DEF ViewTypes, None
  <2> QED
    BY <1>7, <2>2, <2>3 DEF Ready
<1>8. CASE m # NoMetric
  <2>1. Known(m) /\ Draft(v, m)
    BY <1>8 DEF Ready
  <2>2. m.keys \subseteq SeriesOf(m.id) /\ m.have \subseteq m.keys /\ SeriesOf(m.id) \subseteq Nat
    BY <2>1, KnownFact DEF Known
  <2>3. ViewTypes(u, m)
    <3>1. p.dp \in Int /\ p.series \in SeriesOf(m.id) \cup {None}
      BY <1>3, <2>2 DEF None
    <3> QED
      BY <1>4, <1>5, <3>1 DEF ViewTypes
  <2>4. Distinct(vis, SeriesOf(m.id)) /\ ToSet(v.visible) \subseteq ToSet(vis)
    <3>1. CASE p.series = None \/ p.series \in ToSet(v.visible)
      BY <1>6, <2>1, <3>1 DEF Draft
    <3>2. CASE ~(p.series = None \/ p.series \in ToSet(v.visible))
      <4> DEFINE a == Append(v.visible, p.series)
      <4>1. p.series \in SeriesOf(m.id) /\ v.visible \in Seq(SeriesOf(m.id)) /\ IsInjective(v.visible)
        BY <1>3, <2>1, <2>2, <3>2 DEF Draft, Distinct
      <4>2. a \in Seq(SeriesOf(m.id)) /\ ToSet(a) = ToSet(v.visible) \cup {p.series} /\ IsInjective(a)
        BY <3>2, <4>1, AppendFact
      <4>3. vis = a
        BY <1>6, <3>2
      <4> HIDE DEF a
      <4> QED
        BY <4>2, <4>3 DEF Distinct
    <3> QED
      BY <3>1, <3>2
  <2>5. Draft(u, m)
    BY <1>5, <2>1, <2>4 DEF Draft
  <2> QED
    BY <1>8, <2>1, <2>3, <2>5 DEF Ready
<1> QED
  BY <1>7, <1>8

LEMMA NavigatedFact ==
  ASSUME SavedFits(saved), NEW s, SavedFits(s), NEW v, Ready(v, metric), NEW e, NEW snap,
         Navigated(v, e, snap, s)
  PROVE  Shown(view', metric') /\ SavedFits(saved')
<1> DEFINE p == Parse(e.q, metric)
           r == Routed(v, p, snap)
<1>1. Settle(r, metric, s)
  BY DEF Navigated
<1>2. Ready(r, metric)
  <2>1. r = v \/ r = Apply(v, p, TRUE)
    BY DEF Routed
  <2>2. Ready(Apply(v, p, TRUE), metric)
    BY ApplyFact
  <2> HIDE DEF r, p
  <2> QED
    BY <2>1, <2>2
<1> HIDE DEF r, p
<1> QED
  BY <1>1, <1>2, SettleFact

\* The browser's history stays one.
LEMMA HistoryFact ==
  ASSUME HistoryFits
  PROVE  /\ Here \in Entries /\ \A i \in 1 .. Len(history) : history[i] \in Entries
         /\ \A e \in Entries : pos < MaxHistory /\ Push(e) => HistoryFits'
         /\ \A e \in Entries : Replace(e) => HistoryFits'
<1>0. /\ history \in Seq(Entries) /\ Len(history) \in Nat /\ Len(history) <= MaxHistory
      /\ pos \in 1 .. Len(history) /\ MaxHistory \in Nat
  BY MetricViewAssumption DEF HistoryFits
<1>1. ASSUME NEW i \in 1 .. Len(history) PROVE history[i] \in Entries
  BY <1>0
<1>2. ASSUME NEW e \in Entries, pos < MaxHistory, Push(e) PROVE HistoryFits'
  <2> DEFINE h == SubSeq(history, 1, pos)
             a == Append(h, e)
  <2>1. h \in Seq(Entries) /\ Len(h) = pos
    BY <1>0
  <2> HIDE DEF h
  <2>2. a \in Seq(Entries) /\ Len(a) = pos + 1
    BY <2>1, AppendFact
  <2>3. history' = a /\ pos' = pos + 1
    BY <1>2 DEF Push, h
  <2> HIDE DEF a
  <2> QED
    BY <1>0, <1>2, <2>2, <2>3 DEF HistoryFits
<1>3. ASSUME NEW e \in Entries, Replace(e) PROVE HistoryFits'
  <2> DEFINE h == [history EXCEPT ![pos] = e]
  <2>1. h \in Seq(Entries) /\ Len(h) = Len(history)
    BY <1>0
  <2>2. history' = h /\ pos' = pos
    BY <1>3 DEF Replace
  <2> HIDE DEF h
  <2> QED
    BY <1>0, <2>1, <2>2 DEF HistoryFits
<1> QED
  BY <1>0, <1>1, <1>2, <1>3 DEF Here

\* writeMetricUrl, with any view a handler makes.
LEMMA WriteUrlFact ==
  ASSUME HistoryFits, SavedFits(saved), NEW s, SavedFits(s), NEW v, Ready(v, metric),
         NEW push, WriteUrl(v, s, push)
  PROVE  Shown(view', metric') /\ SavedFits(saved') /\ HistoryFits'
<1> DEFINE q == ViewQuery(v, metric)
           t == ToParams(q)
           e == [Here EXCEPT !.q = t]
<1>1. /\ IF push THEN pos < MaxHistory /\ Push(e) ELSE Replace(e)
      /\ Navigated(v, e, q, s)
  BY DEF WriteUrl
<1>2. ViewTypes(v, metric) /\ metric.keys \subseteq Nat
  <2>1. metric = NoMetric => metric.keys = {}
    BY DEF NoMetric
  <2> QED
    BY <2>1, KnownFact DEF Ready
<1>3. SelectedSeries(v, metric) \in Int
  BY <1>2 DEF SelectedSeries, Member, ViewTypes, None
<1>4. t \in Params
  <2>1. CASE IsHistogram(metric)
    <3>1. t = [agg |-> "none", htab |-> v.tab, hscope |-> v.scope, dp |-> v.dp,
               series |-> SelectedSeries(v, metric)]
      BY <2>1 DEF ViewQuery, ToParams, Bare
    <3> QED
      BY <1>2, <1>3, <3>1 DEF Params, ViewTypes
  <2>2. CASE ~IsHistogram(metric)
    <3>1. t = [agg |-> IF v.agg = "raw" THEN "none" ELSE v.agg, htab |-> "none",
               hscope |-> "none", dp |-> v.dp, series |-> SelectedSeries(v, metric)]
      BY <2>2 DEF ViewQuery, ToParams, Bare
    <3> QED
      BY <1>2, <1>3, <3>1 DEF Params, ViewTypes
  <2> QED
    BY <2>1, <2>2
<1> HIDE DEF t, q
<1>5. e \in Entries
  BY <1>4, HistoryFact DEF Entries
<1> HIDE DEF e
<1> QED
  BY <1>1, <1>5, HistoryFact, NavigatedFact

(* ------------------------------ the steps ------------------------------ *)

LEMMA NavigationFact ==
  ASSUME MetricInv, Select \/ Back \/ Forward \/ TimeRangeWritten
  PROVE  Shown(view', metric') /\ SavedFits(saved') /\ HistoryFits'
<1>0. Ready(view, metric) /\ SavedFits(saved) /\ HistoryFits
  BY ShownReady DEF MetricInv
<1>1. Shown(view', metric') /\ SavedFits(saved')
  <2>1. PICK e : Navigated(view, e, snapshot, saved)
    BY DEF Select, Back, Forward, TimeRangeWritten
  <2> QED
    BY <1>0, <2>1, NavigatedFact
<1>2. CASE Select
  <2>1. PICK m \in Metrics : \E q \in {Bare, Link(m)} : Push([id |-> m, q |-> q]) /\ pos < MaxHistory
    BY <1>2 DEF Select
  <2>5. PICK q \in {Bare, Link(m)} : Push([id |-> m, q |-> q]) /\ pos < MaxHistory
    BY <2>1
  <2>2. Newest(m) \in Int
    BY MetricViewAssumption DEF Newest
  <2>3. /\ q = [agg |-> "none", htab |-> "none", hscope |-> "none", dp |-> q.dp, series |-> q.series]
        /\ q.dp \in Int /\ q.series \in Int
    <3> DEFINE l == [Bare EXCEPT !.dp = Newest(m)]
    <3>1. l = [agg |-> "none", htab |-> "none", hscope |-> "none", dp |-> Newest(m), series |-> None]
      BY DEF Bare
    <3>2. Link(m) = [l EXCEPT !.series = Newest(m)]
      BY DEF Link, Bare
    <3> HIDE DEF l
    <3>3. Link(m) = [agg |-> "none", htab |-> "none", hscope |-> "none",
                     dp |-> Newest(m), series |-> Newest(m)]
      BY <3>1, <3>2
    <3>4. CASE q = Link(m)
      BY <2>2, <3>3, <3>4
    <3>5. CASE q = Bare
      BY <3>5 DEF Bare, None
    <3> QED
      BY <3>4, <3>5
  <2>4. [id |-> m, q |-> q] \in Entries
    BY <2>3 DEF Entries, Params
  <2> QED
    BY <1>0, <1>1, <2>5, <2>4, HistoryFact
<1>3. CASE Back \/ Forward \/ TimeRangeWritten
  BY <1>0, <1>1, <1>3 DEF Back, Forward, TimeRangeWritten, HistoryFits
<1> QED
  BY <1>2, <1>3

\* An answer of the server is a metric the view can show.
LEMMA ArrivalFact ==
  ASSUME NEW id \in Metrics, NEW m \in Arrivals(id)
  PROVE  Known(m) /\ m.id = id
<1>1. id \in Nat /\ NumSeries \in Nat \ {0, 1} /\ NumSeries * id \in Nat
  BY MetricViewAssumption
<1> DEFINE b == NumSeries * id
<1>2. /\ SeriesOf(id) = {b + i : i \in 1 .. NumSeries} /\ Oldest(id) = b + 1
  BY DEF SeriesOf, Oldest
<1> HIDE DEF b
<1>3. Oldest(id) \in SeriesOf(id) /\ SeriesOf(id) \ {Oldest(id)} # {}
  <2>1. b \in Nat /\ 1 \in 1 .. NumSeries /\ 2 \in 1 .. NumSeries
    BY <1>1 DEF b
  <2>2. b + 1 \in SeriesOf(id) /\ b + 2 \in SeriesOf(id)
    BY <1>2, <2>1
  <2> QED
    BY <1>2, <2>1, <2>2
<1> DEFINE A == {SeriesOf(id), SeriesOf(id) \ {Oldest(id)}, {Oldest(id)}}
           B == {{}, {Newest(id)}}
<1>6. Arrivals(id) = {[id |-> id, keys |-> K, have |-> K \ N] : K \in A, N \in B}
  BY DEF Arrivals
<1> HIDE DEF A, B
<1>4. PICK K \in A, N \in B : m = [id |-> id, keys |-> K, have |-> K \ N]
  BY <1>6
<1>5. K \subseteq SeriesOf(id) /\ K # {}
  BY <1>3, <1>4 DEF A
<1> QED
  BY <1>4, <1>5 DEF Known

LEMMA SeedStep ==
  ASSUME MetricInv, Seed
  PROVE  Shown(view', metric') /\ SavedFits(saved') /\ HistoryFits'
<1>0. SavedFits(saved) /\ HistoryFits
  BY DEF MetricInv
<1>1. PICK m \in Arrivals(Here.id) :
        LET vis == Resolve(m)
            p   == Parse(Here.q, m)
            v   == [FirstView EXCEPT !.visible = vis,
                                     !.colour = SeedColours(Palette(m, vis), vis, m.keys),
                                     !.agg = SeedAgg(m), !.all = saved[m.id].all]
        IN Settle(Apply(v, p, FALSE), m, saved)
  BY DEF Seed
<1> DEFINE vis == Resolve(m)
           col == SeedColours(Palette(m, vis), vis, m.keys)
           v == [FirstView EXCEPT !.visible = vis, !.colour = col,
                                  !.agg = SeedAgg(m), !.all = saved[m.id].all]
<1>2. Settle(Apply(v, Parse(Here.q, m), FALSE), m, saved)
  BY <1>1
<1>3. Known(m)
  <2>1. Here.id \in Metrics
    BY <1>0, HistoryFact DEF Seed, Entries
  <2> QED
    BY <2>1, ArrivalFact
<1>4. Distinct(vis, m.keys) /\ m.keys \subseteq SeriesOf(m.id) /\ SeriesOf(m.id) \subseteq Nat
  BY <1>0, <1>3, ResolveFact, KnownFact DEF Known
<1>5. SeedAgg(m) \in Aggs
  BY AvailableFact DEF SeedAgg
<1> DEFINE a == SeedAgg(m)
           b == saved[m.id].all
<1>6. /\ IsView(v) /\ v.visible = vis /\ v.colour = col /\ v.agg = a
      /\ v.tab = "heatmap" /\ v.scope = "window" /\ v.dp = None /\ v.series = None
  <2> HIDE DEF vis, col, a, b
  <2> DEFINE f == FirstView
             w == [f EXCEPT !.visible = vis, !.colour = col]
             x == [w EXCEPT !.agg = a]
  <2>1. v = [x EXCEPT !.all = b]
    BY DEF FirstView, a, b
  <2>2. /\ IsView(f) /\ f.tab = "heatmap" /\ f.scope = "window" /\ f.dp = None /\ f.series = None
    BY DEF FirstView, IsView
  <2> HIDE DEF f
  <2>7. Alike(w, f)
    BY <2>2, TwoFields
  <2>4. w.visible = vis /\ w.colour = col /\ w.series = f.series
    BY <2>2 DEF IsView
  <2> HIDE DEF w
  <2>3. /\ IsView(w) /\ w.tab = f.tab /\ w.scope = f.scope /\ w.dp = f.dp
    BY <2>7 DEF Alike
  <2>5. /\ IsView(x) /\ x.tab = w.tab /\ x.scope = w.scope /\ x.dp = w.dp /\ x.visible = w.visible
        /\ x.colour = w.colour /\ x.series = w.series /\ x.agg = a
    BY <2>3 DEF IsView
  <2> HIDE DEF x, v
  <2>6. /\ IsView(v) /\ v.tab = x.tab /\ v.scope = x.scope /\ v.dp = x.dp /\ v.visible = x.visible
        /\ v.colour = x.colour /\ v.series = x.series /\ v.agg = x.agg
    BY <2>1, <2>5 DEF IsView
  <2> QED
    BY <2>2, <2>3, <2>4, <2>5, <2>6
<1> HIDE DEF v
<1>7. Ready(v, m)
  <2>1. ViewTypes(v, m)
    BY <1>5, <1>6 DEF ViewTypes, IsView, Tabs, Scopes, None
  <2>2. Distinct(vis, SeriesOf(m.id)) /\ vis \in Seq(Nat)
    <3>1. ToSet(vis) \subseteq m.keys
      BY <1>4, DistinctFact
    <3>2. Distinct(vis, SeriesOf(m.id)) /\ Distinct(vis, Nat)
      BY <1>4, <3>1, DistinctFact
    <3> QED
      BY <3>2 DEF Distinct
  <2>3. Palette(m, vis) \in Nat /\ (~IsHistogram(m) => Palette(m, vis) = Cap)
    BY <1>3, <2>2, PaletteFact
  <2>4. /\ IsInjective(col) /\ DOMAIN col \subseteq ToSet(vis)
        /\ \A s \in DOMAIN col : col[s] \in 1 .. Palette(m, vis)
    BY <2>2, <2>3, SeedFact
  <2>5. v.visible = vis /\ v.colour = col
    BY <1>6
  <2> HIDE DEF vis, col
  <2>6. Draft(v, m)
    BY <2>2, <2>3, <2>4, <2>5 DEF Draft, Colouring
  <2> QED
    BY <1>3, <2>1, <2>6, KnownFact DEF Ready
<1>8. Ready(Apply(v, Parse(Here.q, m), FALSE), m)
  BY <1>7, ApplyFact
<1>9. Shown(view', m) /\ metric' = m /\ SavedFits(saved')
  BY <1>0, <1>2, <1>8, SettleFact
<1>10. HistoryFits'
  BY <1>0 DEF Seed, HistoryFits
<1> QED
  BY <1>9, <1>10

\* The same metric once more: what is drawn of it fits another answer too.
LEMMA RefetchStep ==
  ASSUME MetricInv, Refetched
  PROVE  /\ Shown(view', metric') /\ SavedFits(saved') /\ HistoryFits'
         /\ \A t \in DOMAIN view.colour \cap DOMAIN view'.colour : view'.colour[t] = view.colour[t]
<1>0. SavedFits(saved) /\ HistoryFits /\ metric # NoMetric /\ Ready(view, metric) /\ Legend(view, metric)
  BY ShownReady DEF MetricInv, Refetched, Shown
<1>1. PICK m \in Arrivals(metric.id) : Settle(view, m, saved)
  BY DEF Refetched
<1>2. metric.id \in Metrics /\ Known(metric) /\ Draft(view, metric) /\ ViewTypes(view, metric)
  BY <1>0 DEF Ready, Known
<1>3. Known(m) /\ m.id = metric.id
  BY <1>2, ArrivalFact
<1>4. Ready(view, m)
  BY <1>2, <1>3, KnownFact DEF Ready, ViewTypes, Draft, Colouring, IsHistogram
<1>5. Shown(view', m) /\ metric' = m /\ SavedFits(saved')
      /\ \A t \in DOMAIN view.colour \cap DOMAIN view'.colour : view'.colour[t] = view.colour[t]
  <2>1. ToSet(view.visible) \subseteq DOMAIN view.colour /\ m # NoMetric
    BY <1>0, <1>3, KnownFact DEF Legend
  <2> QED
    BY <1>0, <1>1, <1>4, <2>1, SettleFact
<1> QED
  BY <1>0, <1>5 DEF Refetched, HistoryFits

\* toggleTimeseriesVisible: a series leaves with its colour, or joins when it
\* finds one.
LEMMA ToggleStep ==
  ASSUME MetricInv, Toggle
  PROVE  /\ Shown(view', metric') /\ SavedFits(saved') /\ HistoryFits' /\ touched' \subseteq Metrics
         /\ \A t \in DOMAIN view.colour \cap DOMAIN view'.colour : view'.colour[t] = view.colour[t]
<1> DEFINE col == view.colour
           on  == view.visible
           With(vis, c) == [view EXCEPT !.visible = vis, !.colour = c]
           Aim(vis, c) == /\ Distinct(vis, SeriesOf(metric.id)) /\ DOMAIN c = ToSet(vis)
                          /\ ToSet(vis) \subseteq metric.keys /\ Colouring(metric, c)
                          /\ \A t \in DOMAIN col \cap DOMAIN c : c[t] = col[t]
<1>0. SavedFits(saved) /\ HistoryFits /\ touched \subseteq Metrics /\ ViewTypes(view, metric)
  BY DEF MetricInv, Shown
<1>1. metric # NoMetric /\ Known(metric) /\ Legend(view, metric)
  <2>1. metric # NoMetric
    BY DEF Toggle, NoMetric
  <2> QED
    BY <2>1 DEF MetricInv, Shown
<1>2. /\ metric.id \in Metrics /\ metric.keys \subseteq SeriesOf(metric.id) /\ metric.keys \subseteq Nat
      /\ metric.keys \subseteq AllSeries /\ Cap \in Nat
  BY <1>1, KnownFact, MetricViewAssumption DEF Known, AllSeries
<1>3. /\ Distinct(on, metric.keys) /\ DOMAIN col = ToSet(on) /\ Colouring(metric, col)
      /\ IsHistogram(metric) \/ Len(on) <= Cap
  BY <1>1 DEF Legend
<1>4. ToSet(on) \subseteq metric.keys /\ IsFiniteSet(ToSet(on)) /\ on \in Seq(Nat) /\ on \in Seq(metric.keys)
  <2>1. ToSet(on) \subseteq metric.keys /\ IsFiniteSet(ToSet(on))
    BY <1>3, DistinctFact
  <2>2. Distinct(on, Nat)
    BY <1>2, <1>3, <2>1, DistinctFact
  <2> QED
    BY <1>3, <2>1, <2>2 DEF Distinct
<1>5. ASSUME NEW vis, NEW c, Aim(vis, c), Settle(With(vis, c), metric, SaveKeys(metric.id, vis))
      PROVE  /\ Shown(view', metric') /\ SavedFits(saved')
             /\ \A t \in DOMAIN col \cap DOMAIN view'.colour : view'.colour[t] = col[t]
  <2> DEFINE v == With(vis, c)
  <2>1. /\ Alike(v, view) /\ v.visible = vis /\ v.colour = c /\ v.series = view.series
    <3>1. IsView(view)
      BY <1>0 DEF ViewTypes
    <3>2. Alike(v, view)
      BY <3>1, TwoFields
    <3>3. v.visible = vis /\ v.colour = c /\ v.series = view.series
      BY <3>1 DEF IsView
    <3> QED
      BY <3>2, <3>3
  <2>2. SavedFits(SaveKeys(metric.id, vis))
    BY <1>0, <1>2, <1>5, SaveFact
  <2>3. Settle(v, metric, SaveKeys(metric.id, vis))
    BY <1>5
  <2> HIDE DEF v
  <2>4. Ready(v, metric)
    BY <1>0, <1>1, <1>5, <2>1 DEF Ready, ViewTypes, Draft, Alike
  <2>5. /\ metric' = metric /\ Shown(view', metric) /\ SavedFits(saved')
        /\ \A t \in DOMAIN c \cap DOMAIN view'.colour : view'.colour[t] = c[t]
        /\ DOMAIN view'.colour \subseteq DOMAIN c
    BY <1>0, <1>1, <1>5, <2>1, <2>2, <2>3, <2>4, SettleFact
  <2> QED
    BY <1>5, <2>5
<1>6. PICK s \in metric.keys :
        IF s \in ToSet(on)
        THEN LET vis == Keeping(on, metric.keys \ {s}) IN
             /\ Settle([view EXCEPT !.visible = vis, !.colour = Only(@, AllSeries \ {s})], metric,
                       SaveKeys(metric.id, vis))
             /\ touched' = touched \cup {metric.id}
        ELSE LET c == Check(s)
                 vis == Append(on, s) IN
             /\ s \in DOMAIN c
             /\ Settle([view EXCEPT !.visible = vis, !.colour = c], metric, SaveKeys(metric.id, vis))
             /\ UNCHANGED touched
  BY DEF Toggle
<1>7. touched' \subseteq Metrics /\ HistoryFits'
  BY <1>0, <1>2, <1>6 DEF Toggle, HistoryFits
<1>8. CASE s \in ToSet(on)
  <2> DEFINE vis == Keeping(on, metric.keys \ {s})
             c == Only(col, AllSeries \ {s})
  <2>1. Settle(With(vis, c), metric, SaveKeys(metric.id, vis))
    <3>1. [view EXCEPT !.visible = vis, !.colour = Only(@, AllSeries \ {s})] = With(vis, c)
      BY <1>0 DEF ViewTypes, IsView
    <3> QED
      BY <1>6, <1>8, <3>1
  <2>2. Distinct(vis, metric.keys \ {s}) /\ ToSet(vis) = ToSet(on) \ {s}
    <3>1. Distinct(vis, metric.keys \ {s}) /\ ToSet(vis) = ToSet(on) \cap (metric.keys \ {s})
      BY <1>3, DistinctFact
    <3> QED
      BY <1>4, <3>1
  <2>3. DOMAIN c = ToSet(on) \ {s} /\ \A t \in DOMAIN c : c[t] = col[t]
    BY <1>2, <1>3, <1>4 DEF Only
  <2> HIDE DEF vis, c
  <2>4. Distinct(vis, SeriesOf(metric.id)) /\ ToSet(vis) \subseteq metric.keys
    BY <1>2, <1>4, <2>2, DistinctFact
  <2>5. Colouring(metric, c)
    BY <1>3, <2>3 DEF Colouring, IsInjective
  <2>6. Aim(vis, c)
    BY <2>2, <2>3, <2>4, <2>5
  <2> QED
    BY <1>5, <1>7, <2>1, <2>6
<1>9. CASE s \notin ToSet(on)
  <2> DEFINE vis == Append(on, s)
             c == Check(s)
             n == Palette(metric, on)
             c1 == Acquire(n, col, s)
             c2 == Acquire(n + 1, col, s)
  <2>1. Settle(With(vis, c), metric, SaveKeys(metric.id, vis)) /\ s \in DOMAIN c
    BY <1>6, <1>9
  <2>2. n \in Nat /\ n + 1 \in Nat /\ (~IsHistogram(metric) => n = Cap)
    BY <1>1, <1>4, PaletteFact
  <2>3. c = IF s \in DOMAIN c1 \/ ~IsHistogram(metric) THEN c1 ELSE c2
    BY DEF Check
  <2>4. /\ vis \in Seq(metric.keys) /\ ToSet(vis) = ToSet(on) \cup {s} /\ IsInjective(vis)
    <3>1. IsInjective(on) /\ on \in Seq(metric.keys)
      BY <1>3, <1>4 DEF Distinct
    <3> HIDE DEF on
    <3> QED
      BY <1>9, <3>1, AppendFact
  <2> HIDE DEF vis, c, n
  <2>5. IsInjective(col) /\ IsFiniteSet(DOMAIN col)
    BY <1>3, <1>4 DEF Colouring
  <2>6. \A k \in Nat : /\ Grown(Acquire(k, col, s), col, k)
                       /\ DOMAIN Acquire(k, col, s) \subseteq DOMAIN col \cup {s}
    BY <2>5, AcquireFact
  <2>7. PICK k \in Nat : /\ Grown(c, col, k) /\ DOMAIN c \subseteq DOMAIN col \cup {s}
                         /\ ~IsHistogram(metric) => k = Cap
    <3>1. CASE s \in DOMAIN c1 \/ ~IsHistogram(metric)
      BY <2>2, <2>3, <2>6, <3>1
    <3>2. CASE ~(s \in DOMAIN c1 \/ ~IsHistogram(metric))
      BY <2>2, <2>3, <2>6, <3>2
    <3> QED
      BY <3>1, <3>2
  <2>8. DOMAIN c = ToSet(vis)
    BY <1>3, <2>1, <2>4, <2>7 DEF Grown
  <2>9. Colouring(metric, c)
    BY <1>3, <2>7 DEF Colouring, Grown
  <2>10. \A t \in DOMAIN col \cap DOMAIN c : c[t] = col[t]
    BY <2>7 DEF Grown
  <2>11. Distinct(vis, SeriesOf(metric.id)) /\ ToSet(vis) \subseteq metric.keys
    <3>1. ToSet(vis) \subseteq metric.keys /\ Distinct(vis, metric.keys)
      BY <1>4, <2>4 DEF Distinct
    <3>2. ToSet(vis) \subseteq SeriesOf(metric.id)
      BY <1>2, <3>1
    <3> QED
      BY <3>1, <3>2, DistinctFact
  <2>12. Aim(vis, c)
    BY <2>8, <2>9, <2>10, <2>11
  <2> QED
    BY <1>5, <1>7, <2>1, <2>12
<1> QED
  BY <1>8, <1>9

LEMMA OthersFact ==
  ASSUME MetricInv, SetShowAllSeriesAggregate \/ ClearAllTimeseriesVisible
  PROVE  Shown(view', metric') /\ SavedFits(saved') /\ HistoryFits' /\ touched' \subseteq Metrics
<1>0. /\ SavedFits(saved) /\ HistoryFits /\ touched \subseteq Metrics
      /\ ViewTypes(view, metric) /\ Shown(view, metric) /\ Ready(view, metric) /\ IsView(view)
  BY ShownReady DEF MetricInv, Shown, ViewTypes
<1>1. metric # NoMetric /\ Known(metric) /\ metric.id \in Metrics
  <2>1. metric # NoMetric
    BY MetricViewAssumption DEF SetShowAllSeriesAggregate, ClearAllTimeseriesVisible, NoMetric, Metrics
  <2> QED
    BY <1>0, <2>1 DEF Shown, Known
<1>2. touched' \subseteq Metrics /\ HistoryFits'
  BY <1>0, <1>1 DEF SetShowAllSeriesAggregate, ClearAllTimeseriesVisible, HistoryFits
<1>3. CASE SetShowAllSeriesAggregate
  <2> DEFINE v == [view EXCEPT !.all = ~@]
             s == SaveAll(metric.id, ~view.all)
  <2>1. Settle(v, metric, s)
    BY <1>3 DEF SetShowAllSeriesAggregate
  <2>2. SavedFits(s)
    <3>1. Distinct(<<>>, SeriesOf(metric.id))
      BY EmptyFact DEF Distinct
    <3> QED
      BY <1>0, <1>1, <3>1, SaveFact
  <2>3. /\ IsView(v) /\ v.visible = view.visible /\ v.colour = view.colour /\ v.dp = view.dp
        /\ v.agg = view.agg /\ v.tab = view.tab /\ v.scope = view.scope /\ v.series = view.series
    BY <1>0 DEF IsView
  <2> HIDE DEF v, s
  <2>4. Ready(v, metric)
    BY <1>0, <1>1, <2>3 DEF Ready, ViewTypes, Draft
  <2> QED
    BY <1>0, <1>2, <2>1, <2>2, <2>4, SettleFact
<1>4. CASE ClearAllTimeseriesVisible
  <2> DEFINE none == <<>>
             v == [view EXCEPT !.visible = none, !.colour = none]
             s == SaveKeys(metric.id, none)
  <2>1. Settle(v, metric, s)
    BY <1>4 DEF ClearAllTimeseriesVisible
  <2>2. Distinct(none, SeriesOf(metric.id)) /\ ToSet(none) = {} /\ DOMAIN none = {}
    BY EmptyFact DEF Distinct
  <2> HIDE DEF none
  <2>3. SavedFits(s)
    BY <1>0, <1>1, <2>2, SaveFact
  <2>4. Alike(v, view)
    BY <1>0, TwoFields
  <2>5. v.visible = none /\ v.colour = none /\ v.series = view.series
    BY <1>0 DEF IsView
  <2> HIDE DEF v, s
  <2>6. Draft(v, metric)
    BY <2>2, <2>5 DEF Draft, Colouring, IsInjective
  <2>7. Ready(v, metric)
    BY <1>0, <1>1, <2>4, <2>5, <2>6 DEF Ready, ViewTypes, Alike
  <2> QED
    BY <1>0, <1>2, <2>1, <2>3, <2>7, SettleFact
<1> QED
  BY <1>3, <1>4

\* The methods that write the address.
LEMMA WritersFact ==
  ASSUME MetricInv,
         \/ SetActiveHistogramTab \/ SetHistogramScope \/ SetAggregationView
         \/ OnDatapointClick \/ OnChartPointClick
  PROVE  Shown(view', metric') /\ SavedFits(saved') /\ HistoryFits'
<1>0. SavedFits(saved) /\ HistoryFits /\ Shown(view, metric) /\ Ready(view, metric)
      /\ ViewTypes(view, metric) /\ IsView(view)
  BY ShownReady DEF MetricInv, Shown, ViewTypes
<1> DEFINE Similar(v) == v.visible = view.visible /\ v.colour = view.colour /\ v.series = view.series
<1>1. ASSUME NEW v, Similar(v), IsView(v), v.agg \in Aggs, v.tab \in Tabs, v.scope \in Scopes,
             v.dp \in Int, metric = NoMetric => v.dp = None
      PROVE  Ready(v, metric)
  BY <1>0, <1>1 DEF Ready, ViewTypes, Draft, Blank
<1>2. /\ view.agg \in Aggs /\ view.tab \in Tabs /\ view.scope \in Scopes /\ view.dp \in Int
      /\ metric = NoMetric => view.dp = None
  BY <1>0 DEF ViewTypes, Shown, Blank
<1>3. CASE SetActiveHistogramTab
  <2>1. PICK t \in Tabs : WriteUrl([view EXCEPT !.tab = t], saved, TRUE)
    BY <1>3 DEF SetActiveHistogramTab
  <2> DEFINE v == [view EXCEPT !.tab = t]
  <2>2. Similar(v) /\ IsView(v) /\ v.agg = view.agg /\ v.tab = t /\ v.scope = view.scope /\ v.dp = view.dp
    BY <1>0 DEF IsView
  <2> HIDE DEF v
  <2> QED
    BY <1>0, <1>1, <1>2, <2>1, <2>2, WriteUrlFact DEF v
<1>4. CASE SetHistogramScope
  <2>1. PICK t \in Scopes : WriteUrl([view EXCEPT !.scope = t], saved, FALSE)
    BY <1>4 DEF SetHistogramScope
  <2> DEFINE v == [view EXCEPT !.scope = t]
  <2>2. Similar(v) /\ IsView(v) /\ v.agg = view.agg /\ v.tab = view.tab /\ v.scope = t /\ v.dp = view.dp
    BY <1>0 DEF IsView
  <2> HIDE DEF v
  <2> QED
    BY <1>0, <1>1, <1>2, <2>1, <2>2, WriteUrlFact DEF v
<1>5. CASE SetAggregationView
  <2>1. PICK a \in Available(metric) :
          WriteUrl([view EXCEPT !.agg = a, !.coerced = FALSE], SaveAgg(metric.id, a), FALSE)
    BY <1>5 DEF SetAggregationView
  <2> DEFINE v == [view EXCEPT !.agg = a, !.coerced = FALSE]
             s == SaveAgg(metric.id, a)
  <2>2. IsView(v)
    BY <1>0, TwoFields
  <2>3. Similar(v) /\ v.agg = a /\ v.tab = view.tab /\ v.scope = view.scope /\ v.dp = view.dp
    BY <1>0 DEF IsView
  <2>4. a \in Aggs
    BY AvailableFact
  <2>5. SavedFits(s)
    <3>1. metric.id \in Metrics
      BY <1>5 DEF SetAggregationView, Metrics
    <3>2. Distinct(<<>>, SeriesOf(metric.id))
      BY EmptyFact DEF Distinct
    <3> QED
      BY <1>0, <3>1, <3>2, SaveFact
  <2> HIDE DEF v, s
  <2>6. WriteUrl(v, s, FALSE)
    BY <2>1 DEF v, s
  <2>7. Ready(v, metric)
    BY <1>1, <1>2, <2>2, <2>3, <2>4
  <2> QED
    BY <1>0, <2>5, <2>6, <2>7, WriteUrlFact
<1>6. CASE OnDatapointClick
  <2>1. PICK k \in metric.keys : \E dp \in {k, Raw(k)} :
          LET on == view.dp # dp
              v  == [view EXCEPT !.dp = IF on THEN dp ELSE None]
          IN WriteUrl(IF ~IsHistogram(metric) THEN v
                      ELSE IF on THEN [v EXCEPT !.tab = "histogram", !.scope = "bucket"]
                      ELSE [v EXCEPT !.scope = "window"], saved, TRUE)
    BY <1>6 DEF OnDatapointClick
  <2>2. PICK dp \in {k, Raw(k)} :
          LET on == view.dp # dp
              v  == [view EXCEPT !.dp = IF on THEN dp ELSE None]
          IN WriteUrl(IF ~IsHistogram(metric) THEN v
                      ELSE IF on THEN [v EXCEPT !.tab = "histogram", !.scope = "bucket"]
                      ELSE [v EXCEPT !.scope = "window"], saved, TRUE)
    BY <2>1
  <2> DEFINE on == view.dp # dp
             to == IF on THEN dp ELSE None
             v  == [view EXCEPT !.dp = to]
             w  == IF ~IsHistogram(metric) THEN v
                   ELSE IF on THEN [v EXCEPT !.tab = "histogram", !.scope = "bucket"]
                   ELSE [v EXCEPT !.scope = "window"]
  <2>3. WriteUrl(w, saved, TRUE)
    BY <2>2
  <2>4. metric # NoMetric /\ to \in Int
    <3>1. metric # NoMetric
      BY <2>1 DEF NoMetric
    <3>2. k \in Int
      BY <1>0, <2>1, <3>1, KnownFact DEF Shown
    <3> QED
      BY <2>2, <3>1, <3>2 DEF Raw, None
  <2> HIDE DEF to
  <2>5. Similar(v) /\ IsView(v) /\ v.agg = view.agg /\ v.tab = view.tab /\ v.scope = view.scope /\ v.dp = to
    BY <1>0 DEF IsView
  <2> HIDE DEF on, v
  <2>6. Similar(w) /\ IsView(w) /\ w.agg = v.agg /\ w.tab \in Tabs /\ w.scope \in Scopes /\ w.dp = v.dp
    BY <1>2, <2>5 DEF IsView, Tabs, Scopes
  <2> HIDE DEF w
  <2> QED
    BY <1>0, <1>1, <1>2, <2>3, <2>4, <2>5, <2>6, WriteUrlFact
<1>7. CASE OnChartPointClick
  <2>1. PICK k \in metric.have \cap ToSet(view.visible) : WriteUrl([view EXCEPT !.dp = k], saved, TRUE)
    BY <1>7 DEF OnChartPointClick
  <2>2. metric # NoMetric /\ k \in Int
    <3>1. metric # NoMetric
      BY <2>1 DEF NoMetric
    <3> QED
      BY <1>0, <2>1, <3>1, KnownFact DEF Shown, Known
  <2> DEFINE v == [view EXCEPT !.dp = k]
  <2>3. Similar(v) /\ IsView(v) /\ v.agg = view.agg /\ v.tab = view.tab /\ v.scope = view.scope /\ v.dp = k
    BY <1>0 DEF IsView
  <2> HIDE DEF v
  <2> QED
    BY <1>0, <1>1, <1>2, <2>1, <2>2, <2>3, WriteUrlFact DEF v
<1> QED
  BY <1>3, <1>4, <1>5, <1>6, <1>7

LEMMA MetricStarts == ASSUME Init PROVE MetricInv
<1>1. metric = NoMetric /\ view = FirstView /\ saved = [m \in Metrics |-> Unsaved]
  BY DEF Init
<1>2. IsView(view)
  BY <1>1 DEF FirstView, IsView
<1>3. ViewTypes(view, metric)
  BY <1>1, <1>2 DEF ViewTypes, FirstView, Aggs, Tabs, Scopes, None
<1>4. Blank(view)
  BY <1>1, EmptyFact DEF FirstView, Blank
<1>5. SavedFits(saved)
  BY <1>1 DEF SavedFits
<1>6. HistoryFits
  <2> DEFINE e == [id |-> None, q |-> Bare]
  <2>1. e \in Entries
    BY DEF e, Entries, Params, Bare, None
  <2>2. history = <<e>> /\ pos = 1
    BY DEF Init
  <2> HIDE DEF e
  <2> QED
    BY <2>1, <2>2, MetricViewAssumption DEF HistoryFits
<1> QED
  BY <1>1, <1>3, <1>4, <1>5, <1>6, MetricViewAssumption DEF MetricInv, Shown, Init

\* What the invariant says of the view is more than its consistency.
LEMMA ShownConsistent == ASSUME MetricInv PROVE ViewConsistent
<1>0. /\ Shown(view, metric) /\ SavedFits(saved) /\ ViewTypes(view, metric)
      /\ history \in Seq(Entries) /\ Len(history) <= MaxHistory /\ pos \in 1 .. Len(history)
      /\ touched \subseteq Metrics /\ events \in 0 .. MaxEvents
  BY DEF MetricInv, Shown, HistoryFits
<1>1. \A m \in Metrics : saved[m] # Unsaved => ToSet(saved[m].keys) \subseteq SeriesOf(m)
  BY <1>0, DistinctFact DEF SavedFits
<1>2. CASE metric = NoMetric
  <2>1. /\ view.visible = <<>> /\ DOMAIN view.colour = {} /\ view.dp = None /\ view.series = None
        /\ metric.id = None /\ metric.have = {} /\ metric.keys = {}
    BY <1>0, <1>2 DEF Shown, Blank, NoMetric
  <2>2. view.visible \in Seq(AllSeries)
    BY <2>1, EmptyFact
  <2>3. TypeOK
    BY <1>0, <1>1, <2>1, <2>2 DEF TypeOK, ViewTypes, Aggs, Choice
  <2> QED
    BY <1>2, <2>3 DEF ViewConsistent, LegendConsistent, SelectionOnScreen
<1>3. CASE metric # NoMetric
  <2>1. Known(metric) /\ Legend(view, metric) /\ OnScreen(view, metric)
    BY <1>0, <1>3 DEF Shown
  <2>2. /\ metric.id \in Metrics /\ metric.keys \subseteq SeriesOf(metric.id) /\ metric.have \subseteq metric.keys
        /\ Distinct(view.visible, metric.keys) /\ DOMAIN view.colour = ToSet(view.visible)
        /\ IsInjective(view.colour) /\ (IsHistogram(metric) \/ Len(view.visible) <= Cap)
    BY <2>1 DEF Known, Legend, Colouring
  <2>3. SeriesOf(metric.id) \subseteq AllSeries
    BY <2>2 DEF AllSeries
  <2>4. ToSet(view.visible) \subseteq metric.keys /\ Cardinality(ToSet(view.visible)) = Len(view.visible)
    BY <2>2, DistinctFact
  <2>5. view.visible \in Seq(AllSeries)
    <3>1. Distinct(view.visible, AllSeries)
      BY <2>2, <2>3, <2>4, DistinctFact
    <3> QED
      BY <3>1 DEF Distinct
  <2>6. view.dp \in AllSeries \cup {None}
    BY <2>1, <2>2, <2>3, <2>4 DEF OnScreen
  <2>7. TypeOK
    BY <1>0, <1>1, <2>2, <2>3, <2>4, <2>5, <2>6 DEF TypeOK, ViewTypes, Aggs, Choice
  <2>8. LegendConsistent
    <3>1. \A s, t \in DOMAIN view.colour : s # t => view.colour[s] # view.colour[t]
      BY <2>2 DEF IsInjective
    <3> QED
      BY <2>2, <2>4, <3>1, Zenon DEF LegendConsistent
  <2> QED
    BY <2>1, <2>7, <2>8 DEF ViewConsistent, SelectionOnScreen, OnScreen
<1> QED
  BY <1>2, <1>3

LEMMA MetricKept == ASSUME MetricInv, Next PROVE MetricInv'
<1>1. events' \in 0 .. MaxEvents
  BY MetricViewAssumption DEF Next, MetricInv
<1>2. Shown(view', metric') /\ SavedFits(saved') /\ HistoryFits' /\ touched' \subseteq Metrics
  <2>1. touched \subseteq Metrics
    BY DEF MetricInv
  <2>2. CASE Select \/ Back \/ Forward \/ TimeRangeWritten
    BY <2>1, <2>2, NavigationFact DEF Select, Back, Forward, TimeRangeWritten
  <2>3. CASE Seed
    BY <2>1, <2>3, SeedStep DEF Seed
  <2>4. CASE Refetched
    BY <2>1, <2>4, RefetchStep DEF Refetched
  <2>5. CASE \/ SetActiveHistogramTab \/ SetHistogramScope \/ SetAggregationView
             \/ OnDatapointClick \/ OnChartPointClick
    BY <2>1, <2>5, WritersFact
       DEF SetActiveHistogramTab, SetHistogramScope, SetAggregationView, OnDatapointClick, OnChartPointClick
  <2>6. CASE SetShowAllSeriesAggregate \/ ClearAllTimeseriesVisible
    BY <2>6, OthersFact
  <2>7. CASE Toggle
    BY <2>7, ToggleStep
  <2> QED
    BY <2>2, <2>3, <2>4, <2>5, <2>6, <2>7 DEF Next, Event
<1> QED
  BY <1>1, <1>2 DEF MetricInv

\* View and metric, history and stored views fit one another, for any metrics
\* and series, palette, length of the history and number of events.
THEOREM MetricInvariant == Spec => []MetricInv
<1>1. MetricInv /\ [Next]_vars => MetricInv'
  <2>1. ASSUME MetricInv, UNCHANGED vars PROVE MetricInv'
    BY <2>1 DEF vars, MetricInv, HistoryFits
  <2> QED
    BY <2>1, MetricKept
<1> QED
  BY <1>1, MetricStarts, PTL DEF Spec

\* Whatever links, refetches, checkboxes and moves through the history brought
\* the view there: each series drawn is one the metric lists, in a colour of
\* its own, a scalar chart keeps to its cap, and what is selected can be seen
\* (metric-view-context.svelte.ts, effects 2b, 2c and 3).
THEOREM MetricViewConsistent == Spec => []ViewConsistent
BY MetricInvariant, ShownConsistent, PTL

\* A series that stays on the chart keeps its colour through checkboxes and
\* refetches (metric-view-context.svelte.ts, acquireColor and
\* syncColorAssignments).
THEOREM ColoursKept == Spec => ColoursStable
<1>1. MetricInv /\ [Next]_vars =>
        [Toggle \/ Refetched
           => \A s \in DOMAIN view.colour \cap DOMAIN view'.colour :
                view'.colour[s] = view.colour[s]]_vars
  BY ToggleStep, RefetchStep
<1> QED
  BY <1>1, MetricInvariant, PTL DEF Spec, ColoursStable
=============================================================================
