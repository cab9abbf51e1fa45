------------------------------ MODULE ChartsMC ------------------------------
(* A small instance of Charts: a counter with a restart and a gap, a       *)
(* counter that may fall, and three histograms, one of running totals with *)
(* a restart that shows in its buckets alone.                              *)
EXTENDS Charts

D(t, v) == [t |-> t, v |-> v]
S(k, dps) == [key |-> k, dps |-> dps]
T(kind, temporality, monotonic) ==
  [kind |-> kind, temporality |-> temporality, monotonic |-> monotonic]

MCType == [counter |-> T("Sum", "Cumulative", TRUE),
           level |-> T("Sum", "Cumulative", FALSE),
           latency |-> T("Histogram", "Delta", FALSE),
           size |-> T("Histogram", "Delta", FALSE),
           totals |-> T("Histogram", "Cumulative", FALSE)]

\* Two samples of "a" in one millisecond, an empty bucket, a restart of "b".
MCSamples ==
  [counter |-> <<S("a", <<D(1, 1), D(4, 3), D(5, 4), D(17, 6)>>),
                 S("b", <<D(2, 5), D(6, 7), D(10, 2)>>),
                 S("c", <<D(14, 1)>>)>>,
   level |-> <<S("a", <<D(3, 4), D(9, 2)>>)>>,
   latency |-> <<S("a", <<D(1, <<1, 0, 2>>), D(3, <<0, 1, 0>>), D(13, <<0, 3, 0>>)>>),
                 S("b", <<D(2, <<0, 1, 0>>), D(8, <<1, 0, 0>>)>>)>>,
   size |-> <<S("a", <<D(6, <<2, 2, 0>>)>>)>>,
   totals |-> <<S("a", <<D(1, <<1, 0, 1>>), D(2, <<2, 0, 1>>), D(5, <<2, 1, 1>>),
                         D(6, <<3, 1, 2>>), D(13, <<0, 4, 0>>)>>),
                S("b", <<D(3, <<0, 2, 0>>), D(9, <<1, 3, 0>>), D(10, <<0, 5, 0>>),
                         D(14, <<0, 1, 0>>)>>)>>]

\* Two series of one counter start in neighbouring buckets while a third is silent.
JoinType == [joins |-> T("Sum", "Cumulative", TRUE)]
JoinSamples ==
  [joins |-> <<S("a", <<D(1, 1), D(2, 1), D(3, 2), D(5, 3), D(6, 4), D(17, 6)>>),
              S("b", <<D(9, 5)>>), S("c", <<D(13, 1)>>)>>]

\* The only samples are where the window ends.
EdgeType == [edge |-> T("Histogram", "Delta", FALSE)]
EdgeSamples == [edge |-> <<S("a", <<D(16, <<1, 0, 2>>)>>)>>]
EdgeWindow == [start |-> 0, end |-> 16]

MCBounds == <<10, 20>>
MCWindow == [start |-> 0, end |-> 19]
=============================================================================
