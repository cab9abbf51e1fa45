--------------------------- MODULE MetricReduction ---------------------------
(***************************************************************************)
(* What the store makes of a metric before the page draws it: the buckets  *)
(* a scalar series is folded into, the pools of several series, and the    *)
(* merged columns of a histogram, as queries/metrics/get_metric.sql does.  *)
(*                                                                         *)
(* Time is in nanoseconds.  The viewer's offset is zero, the window is one *)
(* the reader asked for (never fitted to the data), no longer than the     *)
(* ladder reaches, and the store has nothing later than the window.  All   *)
(* samples of a histogram carry the same bounds, so no merge is refused,   *)
(* and its count is the sum of its buckets, as OTLP asks of an exporter.   *)
(* Left out are the cadence cap of the views, the M4 election of raw       *)
(* points, and exponential histograms.  A rate is the increase per bucket: *)
(* every bucket of a metric is equally wide, so the division by its        *)
(* seconds changes nothing that is compared.  A null is {}, a value v {v}. *)
(***************************************************************************)
EXTENDS Integers, SequencesExt

CONSTANTS
  Metrics,        \* the metrics
  Type,           \* metric -> [kind, temporality, monotonic]
  Samples,        \* metric -> sequence of [key, dps], dps oldest first: [t, v]
  Bounds,         \* the explicit bounds every histogram sample carries
  Ladder,         \* bucket widths, in nanoseconds
  Buckets,        \* how many buckets a chart asks for
  Window          \* [start, end] of the query

ASSUME ReductionAssumption ==
  /\ Ladder \subseteq Nat \ {0} /\ Ladder # {}
  /\ Buckets \in Nat \ {0}
  /\ Window.start \in Nat /\ Window.end \in Nat /\ Window.start < Window.end
  /\ \E w \in Ladder : (Window.end - Window.start) \div w <= Buckets
  /\ Bounds \in Seq(Int)

IsHistogram(x) == Type[x].kind = "Histogram"
KeySeq(x) == [i \in DOMAIN Samples[x] |-> Samples[x][i].key]
Keys(x) == ToSet(KeySeq(x))
Dps(x, k) == Samples[x][SelectInSeq(Samples[x], LAMBDA s : s.key = k)].dps

\* What a sample holds: a number, or the counts of a histogram's buckets.
Value(x) == IF IsHistogram(x) THEN [1 .. Len(Bounds) + 1 -> Nat] ELSE Int
Cumulative(x) == Type[x].temporality = "Cumulative"

\* The query answers with one entry for each series that has samples in the
\* window, both ends included, oldest first.
ASSUME SamplesAssumption ==
  \A x \in Metrics :
    /\ Samples[x] \in Seq(ToSet(Samples[x])) /\ IsInjective(KeySeq(x))
    /\ \A k \in Keys(x) :
         /\ Dps(x, k) \in Seq([t : Window.start .. Window.end, v : Value(x)]) /\ Dps(x, k) # <<>>
         /\ \A i, j \in DOMAIN Dps(x, k) : i < j => Dps(x, k)[i].t <= Dps(x, k)[j].t
    /\ IsHistogram(x) => Type[x].temporality \in {"Delta", "Cumulative"}

\* The elements of a finite set of numbers in order, those of a sequence that
\* are in S, and a sum that is null when there is nothing to add.
Ascending(S) == [i \in 1 .. Cardinality(S) |-> CHOOSE s \in S : Cardinality({t \in S : t < s}) = i - 1]
Keeping(s, S) ==
  LET at == Ascending({i \in DOMAIN s : s[i] \in S}) IN [i \in DOMAIN at |-> s[at[i]]]
Nullable(w) == IF DOMAIN w = {} THEN {} ELSE {SumFunction(w)}

\* The least rung that cuts the span into no more buckets than asked for.
BucketWidth == Min({w \in Ladder : (Window.end - Window.start) \div w <= Buckets})
BucketStart(t) == (t \div BucketWidth) * BucketWidth

\* The increase since the datapoint before; a fall is a counter that restarted.
\* The first has none.
Delta(x, k, i) ==
  LET v == Dps(x, k)[i].v
      before == Dps(x, k)[i - 1].v
  IN IF v < before THEN v ELSE v - before

\* One row of a series' views: every answer for the bucket that starts at b.
ViewRow(x, k, b) ==
  LET dps == Dps(x, k)
      here == {i \in DOMAIN dps : BucketStart(dps[i].t) = b}
      sum == Nullable([i \in here |-> dps[i].v])
  IN [at |-> b, n |-> Cardinality(here), sum |-> sum,
      avg |-> {v \div Cardinality(here) : v \in sum},
      rate |-> Nullable([i \in here \ {1} |-> Delta(x, k, i)]), slope |-> {}]

\* The rate as it is drawn: an empty bucket is a zero, a first one is nothing.
DrawnRate(r) == IF r.n = 0 THEN {0} ELSE r.rate

\* Each drawn row with the slope of the segment that arrives at it.
WithSlopes(rows) ==
  [i \in DOMAIN rows |->
     LET before == {j \in 1 .. i - 1 : DrawnRate(rows[j]) # {}}
         p == rows[Max(before)]
     IN [rows[i] EXCEPT !.slope =
           IF before = {} THEN {}
           ELSE {<<v - u, rows[i].at - p.at>> : v \in DrawnRate(rows[i]), u \in DrawnRate(p)}]]

\* Every bucket from a series' first to its last, the empty ones included.
Spine(x, k) ==
  LET starts == {BucketStart(Dps(x, k)[i].t) : i \in DOMAIN Dps(x, k)}
  IN {b \in Min(starts) .. Max(starts) : b % BucketWidth = 0}

SeriesRows(x, k) ==
  LET at == Ascending(Spine(x, k)) IN [i \in DOMAIN at |-> ViewRow(x, k, at[i])]
\* The views of each series, computed once.
ViewsOf ==
  [x \in {y \in Metrics : ~IsHistogram(y)} |-> [k \in Keys(x) |-> WithSlopes(SeriesRows(x, k))]]

\* Several series folded into one line, bucket by bucket.
PoolRow(x, K, b) ==
  LET Fold(row, f) == Nullable([k \in {j \in DOMAIN row : row[j][f] # {}} |->
                                  CHOOSE v \in row[k][f] : TRUE])
      Row(n, sum, rate) ==
        [at |-> b, n |-> n, sum |-> sum, avg |-> {v \div n : v \in sum},
         rate |-> rate, slope |-> {}]
      Pool(row) == Row(SumFunction([k \in DOMAIN row |-> row[k].n]),
                       Fold(row, "sum"), Fold(row, "rate"))
  IN Pool([k \in {j \in K : b \in Spine(x, j)} |-> ViewRow(x, k, b)])
PoolViews(x, K) ==
  LET at == Ascending(UNION {Spine(x, k) : k \in K})
  IN WithSlopes([i \in DOMAIN at |-> PoolRow(x, K, at[i])])

(* ------------------------------ histograms ----------------------------- *)

\* Of the samples a query read, those that say what was observed: a running
\* total says it only together with the one read before it.
Measured(x, read) == {i \in read : Cumulative(x) => i - 1 \in read}

\* What was observed since the sample before, by bucket and in all.  A fall is
\* a restart, and each of the two has its own eye for one.
CountsSince(x, k, i) ==
  LET Since(v, before) ==
        IF ~Cumulative(x) \/ (\E j \in DOMAIN v : v[j] < before[j]) THEN v
        ELSE [j \in DOMAIN v |-> v[j] - before[j]]
  IN Since(Dps(x, k)[i].v, Dps(x, k)[i - 1].v)
TotalSince(x, k, i) ==
  LET Since(n, before) == IF ~Cumulative(x) \/ n < before THEN n ELSE n - before
  IN Since(SumFunction(Dps(x, k)[i].v), SumFunction(Dps(x, k)[i - 1].v))

\* The samples of the series K that are merged into the column that starts at b.
InColumn(x, K, b) ==
  UNION {{<<k, i>> : i \in {j \in Measured(x, DOMAIN Dps(x, k)) :
                              BucketStart(Dps(x, k)[j].t) = b}} : k \in K}

\* One slice: what those samples observed, added up.
Slice(x, K, b) ==
  LET here == InColumn(x, K, b)
  IN [at |-> b,
      counts |-> [i \in 1 .. Len(Bounds) + 1 |->
                    SumFunction([d \in here |-> CountsSince(x, d[1], d[2])[i]])],
      total |-> SumFunction([d \in here |-> TotalSince(x, d[1], d[2])])]

\* The merged columns of the series K: one for each bucket with such a sample.
ColumnStarts(x, K) ==
  UNION {{BucketStart(Dps(x, k)[i].t) : i \in Measured(x, DOMAIN Dps(x, k))} : k \in K}
Columns(x, K) ==
  LET at == Ascending(ColumnStarts(x, K)) IN [i \in DOMAIN at |-> Slice(x, K, at[i])]

\* The store's own reading of bucket i: the outer two are as wide as a bound.
StoreLo(i) == IF i = 1 THEN Bounds[1] ELSE Bounds[i - 1]
StoreHi(i) == IF i = Len(Bounds) + 1 THEN Bounds[Len(Bounds)] ELSE Bounds[i]

\* Quantiles are reckoned in units of 1/Unit, which every count divides.
Unit == 1200

\* The value q percent of the observations do not exceed, interpolated.
Quantile(counts, q) ==
  IF SumFunction(counts) = 0 THEN {}
  ELSE LET acc(i) == SumFunctionOnSet(counts, 1 .. i)
           i == Min({j \in DOMAIN counts :
                       counts[j] > 0 /\ 100 * acc(j) >= q * SumFunction(counts)})
       IN {StoreLo(i) * Unit
             + (StoreHi(i) - StoreLo(i)) * (q * SumFunction(counts) - 100 * acc(i - 1))
                 * (Unit \div (100 * counts[i]))}
=============================================================================
