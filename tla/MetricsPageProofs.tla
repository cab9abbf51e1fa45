-------------------------- MODULE MetricsPageProofs --------------------------
(***************************************************************************)
(* The metrics page shows one question answered, for any number of         *)
(* metrics, series, windows, columns and events: PageSettles and           *)
(* NothingStaleShown are invariants.                                       *)
(***************************************************************************)
EXTENDS MetricsPage, FiniteSetTheorems, TLAPS

Keys == {NoKey, StaleKey} \cup (Metrics \X Windows)
Requests == [id : Metrics, win : Windows, keys : (SUBSET AllSeries) \cup {Unsaved}, reseed : BOOLEAN]
Merges == [id : Metrics, win : Windows, keys : SUBSET AllSeries]
AtMostOne(S) == S = {} \/ \E r : S = {r}

\* A metric as it is answered.
MetricOK(m) ==
  m = NoMetric \/ /\ m \in [id : Metrics, win : Windows, listed : SUBSET AllSeries, have : SUBSET AllSeries]
                  /\ m.have \subseteq m.listed /\ m.listed \subseteq SeriesOf(m.id)
TimerOK(t) == t = NoTimer \/ t \in [id : Metrics, keys : SUBSET AllSeries]
SavedOK(f) == /\ f \in [Metrics -> (SUBSET AllSeries) \cup {Unsaved}]
              /\ \A m \in Metrics : f[m] = Unsaved \/ f[m] \subseteq SeriesOf(m)

\* TypeOK over these names, for the page and for its fetchers.
PageTypes ==
  /\ items \subseteq Metrics /\ sel \in Metrics \cup {None} /\ win \in Windows
  /\ MetricOK(metric) /\ seeded \in Metrics \cup {None} /\ events \in 0 .. MaxEvents
  /\ visible \subseteq AllSeries /\ expanded \subseteq AllSeries /\ column \in Columns \cup {None}
  /\ SavedOK(saved) /\ details \subseteq Requests /\ AtMostOne(details) /\ TimerOK(dpTimer)

AggTypes ==
  /\ agg = [shown |-> agg.shown, timer |-> agg.timer, reqs |-> agg.reqs]
  /\ TimerOK(agg.timer) /\ AtMostOne(agg.reqs)

RawTypes == raw \in [key : Keys, cache : SUBSET (AllSeries \X Keys), flight : [AllSeries -> Keys]]

DistTypes == dist = [shown |-> dist.shown, reqs |-> dist.reqs] /\ AtMostOne(dist.reqs)

Types == PageTypes /\ AggTypes /\ RawTypes /\ DistTypes

\* What is out for the selected metric asks for it over the current window.
RequestsFollow ==
  Summary # None => /\ \A r \in details : r.id = Summary /\ r.win = win
                    /\ dpTimer # NoTimer => dpTimer.id = Summary

\* Only listed series are drawn.
DrawnListed == metric # NoMetric => visible \subseteq metric.listed

\* With no request out the metric shown is the selected one, and series without
\* datapoints have their timer.
MetricFollows ==
  Summary # None /\ metric # NoMetric /\ details = {} =>
    /\ metric.id = Summary /\ metric.win = win
    /\ dpTimer = NoTimer => visible \subseteq metric.have

\* The aggregate is timed, asked for or shown for what is drawn; a timer never
\* runs beside a request.
AggregateFollows ==
  /\ agg.timer # NoTimer => agg.reqs = {}
  /\ follow # "aggregate" => agg.timer = NoTimer /\ agg.reqs = {} /\ agg.shown = NoMetric
  /\ Summary # None /\ metric # NoMetric /\ details = {} =>
       LET want == [id |-> Summary, win |-> win, keys |-> visible] IN
       /\ agg.timer # NoTimer => agg.timer = [id |-> Summary, keys |-> visible]
       /\ agg.timer = NoTimer =>
            agg.reqs \subseteq {want} /\ (agg.reqs = {} => agg.shown \in {NoMetric, want})

\* What the cache holds answers its key.
CacheKeyed == \A c \in raw.cache : c[2] = raw.key

\* The distribution is asked for and shown for the selected column.
ColumnFollows ==
  /\ follow # "column" => dist.reqs = {} /\ dist.shown = <<>>
  /\ Summary # None /\ column # None =>
       dist.reqs \subseteq {<<Summary, column>>} /\ dist.shown \in {<<>>, <<Summary, column>>}

\* The inductive invariant.
PageInv == Types /\ RequestsFollow /\ DrawnListed /\ MetricFollows /\ AggregateFollows
           /\ CacheKeyed /\ ColumnFollows

(* ------------------------------ the effects --------------------------- *)

LEMMA SummaryListed ==
  ASSUME NEW rows \in SUBSET Metrics, NEW u \in Metrics \cup {None}
  PROVE  SummaryOf(u, rows) \in Metrics \cup {None} /\ None \notin Metrics
BY MetricsPageAssumption DEF SummaryOf

LEMMA SeriesKnown == \A m \in Metrics : SeriesOf(m) \subseteq AllSeries
BY DEF AllSeries

\* The choice a metric starts with is of its own series.
LEMMA ResolveListed ==
  ASSUME NEW m, MetricOK(m), m # NoMetric
  PROVE  Resolve(m) \subseteq m.listed
BY DEF Resolve, FirstN

LEMMA ReconcileListed ==
  ASSUME NEW m, MetricOK(m), m # NoMetric, NEW v
  PROVE  Reconcile(v, m) \subseteq m.listed
BY ResolveListed DEF Reconcile

LEMMA ListedKnown ==
  ASSUME NEW m, MetricOK(m), m # NoMetric
  PROVE  m.listed \subseteq AllSeries /\ m.id \in Metrics /\ m.have \subseteq m.listed
BY DEF MetricOK

\* An answer is a metric.
LEMMA AnswerOK ==
  ASSUME NEW r \in Requests
  PROVE  /\ MetricOK(Answer(r)) /\ Answer(r) # NoMetric
         /\ Answer(r).id = r.id /\ Answer(r).win = r.win
<1>1. Listed(r.id, r.win) \subseteq SeriesOf(r.id)
  BY DEF Listed, FirstN
<1>2. r.id \in Metrics /\ r.win \in Windows /\ SeriesOf(r.id) \subseteq AllSeries
  BY SeriesKnown DEF Requests
<1>3. Answer(r).have \subseteq Answer(r).listed /\ Answer(r).listed = Listed(r.id, r.win)
  BY DEF Answer, FirstN
<1>4. Answer(r) = [id |-> r.id, win |-> r.win, listed |-> Answer(r).listed, have |-> Answer(r).have]
  BY DEF Answer
<1>5. Answer(r).id # None
  BY <1>2, <1>4, MetricsPageAssumption
<1> QED
  BY <1>1, <1>2, <1>3, <1>4, <1>5 DEF MetricOK, NoMetric

\* The series effect keeps the shape of the cache and its key's meaning.
LEMMA SeriesEffectKeeps ==
  ASSUME NEW r \in [key : Keys, cache : SUBSET (AllSeries \X Keys), flight : [AllSeries -> Keys]],
         \A c \in r.cache : c[2] = r.key,
         NEW s \in Metrics \cup {None}, NEW w \in Windows, NEW e
  PROVE  /\ SeriesEffect(r, s, w, e) \in [key : Keys, cache : SUBSET (AllSeries \X Keys), flight : [AllSeries -> Keys]]
         /\ \A c \in SeriesEffect(r, s, w, e).cache : c[2] = SeriesEffect(r, s, w, e).key
<1> DEFINE moved == r.key # SeriesKey(s, w) \/ (s # None /\ w \in Live)
           cache == IF moved THEN {} ELSE r.cache
           old == [t \in AllSeries |-> IF r.flight[t] = NoKey THEN NoKey
                                       ELSE Outdated(r.flight[t], r.flight[t][2])]
           flight == [t \in AllSeries |->
                        IF s # None /\ t \in e \ {c[1] : c \in cache} /\ old[t] = NoKey
                        THEN SeriesKey(s, w) ELSE old[t]]
<1>1. SeriesEffect(r, s, w, e) = [key |-> SeriesKey(s, w), cache |-> cache, flight |-> flight]
  BY DEF SeriesEffect
<1>2. SeriesKey(s, w) \in Keys
  BY DEF SeriesKey, Keys
<1>3. old \in [AllSeries -> Keys]
  BY DEF Outdated, Keys
<1>4. flight \in [AllSeries -> Keys]
  <2> HIDE DEF old, cache
  <2> QED BY <1>2, <1>3
<1>5. cache \in SUBSET (AllSeries \X Keys) /\ \A c \in cache : c[2] = SeriesKey(s, w)
  OBVIOUS
<1> HIDE DEF cache, flight
<1> QED
  BY <1>1, <1>2, <1>4, <1>5

(* Every event ends in Flush.  What it needs of its arguments: a metric that is
   not the one shown has just been answered to the newest request or cleared. *)
LEMMA FlushKeeps ==
  ASSUME PageInv,
         NEW rows \in SUBSET Metrics, NEW u \in Metrics \cup {None}, NEW w \in Windows,
         NEW m, MetricOK(m), NEW v \in SUBSET AllSeries, NEW e \in SUBSET AllSeries,
         NEW c \in Columns \cup {None}, NEW fresh \in BOOLEAN, NEW arrived \in BOOLEAN,
         NEW reqs,
         \/ m = metric /\ reqs = details
         \/ m = NoMetric /\ arrived /\ reqs \in {details, {}}
         \/ /\ arrived /\ reqs = {} /\ rows = items /\ u = sel /\ w = win
            /\ Summary # None => m.id = Summary /\ m.win = win,
         SavedOK(saved'), seeded' \in Metrics \cup {None}, events' \in 0 .. MaxEvents,
         Flush(rows, u, w, m, v, e, c, fresh, arrived, reqs)
  PROVE  PageInv'
<1> DEFINE s == SummaryOf(u, rows)
           again == s # Summary \/ (s # None /\ fresh)
           m1 == IF again /\ s = None THEN NoMetric ELSE m
           v1 == IF m1 = NoMetric THEN v ELSE Reconcile(v, m1)
           redrawn == again \/ arrived \/ m1 # metric \/ v1 # visible
<1>1. /\ items' = rows /\ sel' = u /\ win' = w
      /\ metric' = m1 /\ visible' = v1 /\ expanded' = e /\ column' = c
      /\ follow' = follow
  BY DEF Flush
<1>2. details' = IF s # None /\ (again \/ w # win) THEN FetchDetail(SeedRequest(s, w)) ELSE reqs
  BY DEF Flush
<1>3. dpTimer' = IF redrawn THEN DatapointTimer(s, m1, v1) ELSE dpTimer
  BY DEF Flush
<1>4. agg' = IF follow = "aggregate" /\ redrawn THEN Aggregate(s, m1, v1) ELSE agg
  BY DEF Flush
<1>5. raw' = IF follow = "series" /\ (again \/ w # win \/ e # expanded)
             THEN SeriesEffect(raw, s, w, e) ELSE raw
  BY DEF Flush
<1>6. dist' = IF follow = "column" /\ (again \/ c # column) THEN ColumnEffect(s, c) ELSE dist
  BY DEF Flush
<1>7. Summary' = s
  BY <1>1 DEF Summary
<1>8. s \in Metrics \cup {None} /\ None \notin Metrics /\ Summary \in Metrics \cup {None}
  BY SummaryListed DEF PageInv, Types, PageTypes, Summary
<1>9. MetricOK(m1) /\ (m1 = NoMetric \/ m1 = m)
  BY DEF MetricOK
<1>10. v1 \subseteq AllSeries /\ (m1 # NoMetric => v1 \subseteq m1.listed)
  BY <1>9, ReconcileListed, ListedKnown
<1>11. again <=> (s # Summary \/ (s # None /\ fresh))
  OBVIOUS
<1>12. redrawn <=> (again \/ arrived \/ m1 # metric \/ v1 # visible)
  OBVIOUS
<1>13. s = None /\ again => m1 = NoMetric
  OBVIOUS
<1>14. ~(s = None /\ again) => m1 = m
  OBVIOUS
<1> HIDE DEF s, again, m1, v1, redrawn
<1>15. AtMostOne(reqs) /\ reqs \subseteq details
  BY DEF PageInv, Types, PageTypes, AtMostOne, MetricOK
<1>16. s # None => SeedRequest(s, w) \in Requests /\ SeedRequest(s, w).id = s /\ SeedRequest(s, w).win = w
  BY <1>8 DEF SeedRequest, Requests, PageInv, Types, PageTypes, SavedOK
<1>17. TimerOK(DatapointTimer(s, m1, v1))
  BY <1>8, <1>10 DEF DatapointTimer, TimerOK
<1>18. PageTypes'
  <2>1. details' \subseteq Requests /\ AtMostOne(details')
    BY <1>2, <1>15, <1>16 DEF FetchDetail, AtMostOne, PageInv, Types, PageTypes
  <2>2. TimerOK(dpTimer')
    BY <1>3, <1>17 DEF PageInv, Types, PageTypes
  <2> QED
    BY <1>1, <1>9, <1>10, <2>1, <2>2 DEF PageTypes
<1>19. RequestsFollow'
  <2>1. s # None => \A r \in details' : r.id = s /\ r.win = w
    <3>1. CASE s # None /\ (again \/ w # win)
      BY <3>1, <1>2, <1>16 DEF FetchDetail
    <3>2. CASE s # None /\ ~again /\ w = win
      BY <3>2, <1>2, <1>11, <1>15 DEF PageInv, RequestsFollow
    <3> QED
      BY <3>1, <3>2
  <2>2. s # None /\ dpTimer' # NoTimer => dpTimer'.id = s
    <3>1. CASE redrawn
      BY <3>1, <1>3 DEF DatapointTimer
    <3>2. CASE ~redrawn
      BY <3>2, <1>3, <1>11, <1>12 DEF PageInv, RequestsFollow
    <3> QED
      BY <3>1, <3>2
  <2> QED
    BY <1>1, <1>7, <2>1, <2>2 DEF RequestsFollow
<1>20. DrawnListed'
  BY <1>1, <1>10 DEF DrawnListed
<1>21. s # None /\ m1 # NoMetric /\ details' = {} => ~again /\ w = win /\ m1.id = s /\ m1.win = w
  <2> SUFFICES ASSUME s # None, m1 # NoMetric, details' = {} PROVE ~again /\ w = win /\ m1.id = s /\ m1.win = w
    OBVIOUS
  <2>1. ~again /\ w = win /\ reqs = {}
    BY <1>2 DEF FetchDetail
  <2>2. s = Summary /\ m1 = m
    BY <2>1, <1>11, <1>14
  <2> QED
    BY <2>1, <2>2 DEF PageInv, MetricFollows
<1>22. s # None /\ m1 # NoMetric /\ details' = {} /\ ~redrawn => details = {} /\ m1 = metric /\ v1 = visible /\ s = Summary
  BY <1>2, <1>11, <1>12, <1>21
<1>23. MetricFollows'
  <2> SUFFICES ASSUME s # None, m1 # NoMetric, details' = {}
               PROVE  m1.id = s /\ m1.win = w /\ (dpTimer' = NoTimer => v1 \subseteq m1.have)
    BY <1>1, <1>7 DEF MetricFollows
  <2>1. CASE redrawn
    <3>1. dpTimer' = NoTimer => (v1 \cap m1.listed) \subseteq m1.have
      BY <2>1, <1>3, <1>8 DEF DatapointTimer, NoTimer
    <3> QED
      BY <3>1, <1>10, <1>21
  <2>2. CASE ~redrawn
    BY <2>2, <1>3, <1>21, <1>22 DEF PageInv, MetricFollows
  <2> QED
    BY <2>1, <2>2
<1>24. AggTypes' /\ AggregateFollows'
  <2>1. CASE follow = "aggregate" /\ redrawn /\ s # None /\ m1 # NoMetric
    <3>1. agg' = [agg EXCEPT !.timer = [id |-> s, keys |-> v1], !.reqs = {}]
      BY <2>1, <1>4 DEF Aggregate
    <3>2. agg' = [shown |-> agg.shown, timer |-> [id |-> s, keys |-> v1], reqs |-> {}]
      BY <3>1 DEF PageInv, Types, AggTypes
    <3>3. AggTypes'
      <4>1. [id |-> s, keys |-> v1] \in [id : Metrics, keys : SUBSET AllSeries]
        BY <2>1, <1>8, <1>10
      <4> QED
        BY <3>2, <4>1 DEF AggTypes, TimerOK, AtMostOne
    <3>4. agg'.timer # NoTimer
      BY <3>2, <1>8 DEF NoTimer
    <3> QED
      BY <3>2, <3>3, <3>4, <2>1, <1>1, <1>7 DEF AggregateFollows
  <2>2. CASE follow = "aggregate" /\ redrawn /\ (s = None \/ m1 = NoMetric)
    <3>1. agg' = [agg EXCEPT !.shown = NoMetric, !.timer = NoTimer]
      BY <2>2, <1>4 DEF Aggregate
    <3>2. agg' = [shown |-> NoMetric, timer |-> NoTimer, reqs |-> agg.reqs]
      BY <3>1 DEF PageInv, Types, AggTypes
    <3> QED
      BY <3>2, <2>2, <1>1, <1>7 DEF AggregateFollows, PageInv, Types, AggTypes, TimerOK
  <2>3. CASE ~(follow = "aggregate" /\ redrawn)
    <3>1. agg' = agg
      BY <2>3, <1>4
    <3>2. AggTypes'
      BY <3>1 DEF PageInv, Types, AggTypes
    <3>3. CASE follow # "aggregate"
      BY <3>1, <3>2, <3>3, <1>1 DEF PageInv, AggregateFollows, NoTimer, NoMetric
    <3>4. CASE follow = "aggregate" /\ ~redrawn
      BY <3>1, <3>2, <3>4, <1>1, <1>7, <1>21, <1>22 DEF PageInv, AggregateFollows
    <3> QED
      BY <2>3, <3>3, <3>4
  <2> QED
    BY <2>1, <2>2, <2>3
<1>25. RawTypes' /\ CacheKeyed'
  BY <1>5, <1>8, SeriesEffectKeeps DEF PageInv, Types, RawTypes, CacheKeyed
<1>26. DistTypes' /\ ColumnFollows'
  <2>1. CASE follow = "column" /\ (again \/ c # column) /\ s # None /\ c # None
    <3>1. dist' = [shown |-> <<>>, reqs |-> {<<s, c>>}]
      BY <2>1, <1>6 DEF ColumnEffect
    <3> QED
      BY <3>1, <2>1, <1>1, <1>7 DEF DistTypes, AtMostOne, ColumnFollows
  <2>2. CASE follow = "column" /\ (again \/ c # column) /\ (s = None \/ c = None)
    <3>1. dist' = [shown |-> <<>>, reqs |-> dist.reqs]
      BY <2>2, <1>6 DEF ColumnEffect, PageInv, Types, DistTypes
    <3> QED
      BY <3>1, <2>2, <1>1, <1>7 DEF PageInv, Types, DistTypes, AtMostOne, ColumnFollows
  <2>3. CASE ~(follow = "column" /\ (again \/ c # column))
    <3>1. dist' = dist
      BY <2>3, <1>6
    <3>2. CASE follow # "column"
      BY <3>1, <3>2, <1>1 DEF PageInv, Types, DistTypes, AtMostOne, ColumnFollows
    <3>3. CASE ~again /\ c = column
      BY <3>1, <3>3, <1>1, <1>7, <1>11 DEF PageInv, Types, DistTypes, AtMostOne, ColumnFollows
    <3> QED
      BY <2>3, <3>2, <3>3
  <2> QED
    BY <2>1, <2>2, <2>3
<1> QED
  BY <1>18, <1>19, <1>20, <1>23, <1>24, <1>25, <1>26 DEF PageInv, Types

(* ------------------------------ the steps ----------------------------- *)

LEMMA PageInit == Init => PageInv
<1> SUFFICES ASSUME Init PROVE PageInv
  OBVIOUS
<1>1. Summary = None
  BY DEF Init, Summary, SummaryOf
<1>2. PageTypes
  <2>1. SavedOK(saved)
    <3>1. saved \in [Metrics -> {Unsaved}]
      BY DEF Init
    <3>2. \A m \in Metrics : saved[m] = Unsaved
      BY <3>1
    <3>3. saved \in [Metrics -> (SUBSET AllSeries) \cup {Unsaved}]
      <4> DEFINE V == (SUBSET AllSeries) \cup {Unsaved}
      <4>1. Unsaved \in V
        OBVIOUS
      <4> HIDE DEF V
      <4>2. saved \in [Metrics -> V]
        BY <4>1 DEF Init
      <4> QED
        BY <4>2 DEF V
    <3> QED
      BY <3>2, <3>3 DEF SavedOK
  <2>2. MetricOK(metric) /\ TimerOK(dpTimer) /\ details \subseteq Requests /\ AtMostOne(details)
    BY DEF Init, MetricOK, AtMostOne, TimerOK
  <2>3. events \in 0 .. MaxEvents
    BY MetricsPageAssumption DEF Init
  <2> QED
    BY <2>1, <2>2, <2>3 DEF Init, PageTypes
<1>3. AggTypes /\ DistTypes
  BY DEF Init, AggTypes, TimerOK, DistTypes, AtMostOne, NoMetric, NoTimer
<1>4. RawTypes
  BY DEF Init, RawTypes, Keys
<1> QED
  BY <1>1, <1>2, <1>3, <1>4
  DEF Init, PageInv, Types, RequestsFollow, DrawnListed, MetricFollows, AggregateFollows,
      CacheKeyed, ColumnFollows

LEMMA UserKeeps == ASSUME PageInv, User PROVE PageInv'
<1> USE DEF PageInv, Types, PageTypes
<1>1. events' \in 0 .. MaxEvents
  BY MetricsPageAssumption DEF User
<1>2. MetricOK(NoMetric) /\ MetricOK(metric)
  BY DEF MetricOK
<1>3. metric # NoMetric => metric.listed \subseteq AllSeries /\ metric.id \in Metrics
                           /\ metric.listed \subseteq SeriesOf(metric.id)
  BY DEF MetricOK
<1>4. CASE ListArrives
  <2>1. PICK rows \in SUBSET Metrics :
          \E u \in IF rows = {} THEN {None} ELSE IF sel \in rows THEN {sel} ELSE rows :
            Flush(rows, u, win, metric, visible, expanded, column, TRUE, FALSE, details)
    BY <1>4 DEF ListArrives
  <2>2. PICK u \in Metrics \cup {None} :
            Flush(rows, u, win, metric, visible, expanded, column, TRUE, FALSE, details)
    BY <2>1
  <2>3. SavedOK(saved') /\ seeded' \in Metrics \cup {None}
    BY <1>4 DEF ListArrives
  <2> QED
    BY <2>2, <2>3, <1>1, <1>2, FlushKeeps
<1>5. CASE SelectMetric
  <2>1. PICK u \in Metrics :
          Flush(items, u, win, metric, visible, expanded, column, FALSE, FALSE, details)
    BY <1>5 DEF SelectMetric
  <2>2. SavedOK(saved') /\ seeded' \in Metrics \cup {None}
    BY <1>5 DEF SelectMetric
  <2> QED
    BY <2>1, <2>2, <1>1, <1>2, FlushKeeps
<1>6. CASE SetWindow
  <2>1. PICK w \in Windows :
          Flush(items, sel, w, metric, visible, expanded, column, FALSE, FALSE, details)
    BY <1>6 DEF SetWindow
  <2>2. SavedOK(saved') /\ seeded' \in Metrics \cup {None}
    BY <1>6 DEF SetWindow
  <2> QED
    BY <2>1, <2>2, <1>1, <1>2, FlushKeeps
<1>7. CASE DeleteReturns
  <2>1. Flush(items, None, win, NoMetric, visible, expanded, column, FALSE, TRUE, details)
    BY <1>7 DEF DeleteReturns
  <2>2. SavedOK(saved') /\ seeded' \in Metrics \cup {None}
    BY <1>7 DEF DeleteReturns
  <2> QED
    BY <2>1, <2>2, <1>1, <1>2, FlushKeeps
<1>8. CASE ToggleVisible
  <2>1. PICK s \in metric.listed :
          LET v == IF s \in visible THEN visible \ {s} ELSE visible \cup {s} IN
          /\ saved' = [saved EXCEPT ![metric.id] = v]
          /\ Flush(items, sel, win, metric, v, expanded, column, FALSE, FALSE, details)
    BY <1>8 DEF ToggleVisible
  <2> DEFINE v == IF s \in visible THEN visible \ {s} ELSE visible \cup {s}
  <2>2. metric # NoMetric /\ seeded' = seeded
    BY <1>8 DEF ToggleVisible
  <2>3. v \subseteq SeriesOf(metric.id) /\ v \subseteq AllSeries
    BY <2>2, <1>3 DEF DrawnListed
  <2>4. /\ saved' = [saved EXCEPT ![metric.id] = v]
        /\ Flush(items, sel, win, metric, v, expanded, column, FALSE, FALSE, details)
    BY <2>1
  <2> HIDE DEF v
  <2>5. SavedOK(saved')
    BY <2>2, <2>3, <2>4, <1>3 DEF SavedOK
  <2> QED
    BY <2>2, <2>3, <2>4, <2>5, <1>1, <1>2, FlushKeeps
<1>9. CASE ToggleExpanded
  <2>1. PICK s \in metric.listed :
          Flush(items, sel, win, metric, visible,
                IF s \in expanded THEN expanded \ {s} ELSE expanded \cup {s},
                column, FALSE, FALSE, details)
    BY <1>9 DEF ToggleExpanded
  <2> DEFINE e == IF s \in expanded THEN expanded \ {s} ELSE expanded \cup {s}
  <2>2. SavedOK(saved') /\ seeded' \in Metrics \cup {None} /\ metric # NoMetric
    BY <1>9 DEF ToggleExpanded
  <2>3. e \subseteq AllSeries
    BY <2>2, <1>3
  <2>4. Flush(items, sel, win, metric, visible, e, column, FALSE, FALSE, details)
    BY <2>1
  <2> HIDE DEF e
  <2> QED
    BY <2>2, <2>3, <2>4, <1>1, <1>2, FlushKeeps
<1>10. CASE SelectColumn
  <2>1. PICK c \in Columns \cup {None} :
          Flush(items, sel, win, metric, visible, expanded, c, FALSE, FALSE, details)
    BY <1>10 DEF SelectColumn
  <2>2. SavedOK(saved') /\ seeded' \in Metrics \cup {None}
    BY <1>10 DEF SelectColumn
  <2> QED
    BY <2>1, <2>2, <1>1, <1>2, FlushKeeps
<1> QED
  BY <1>4, <1>5, <1>6, <1>7, <1>8, <1>9, <1>10 DEF User, Event

\* The request that is answered was the only one, and is for what is selected.
LEMMA AnsweredRequest ==
  ASSUME PageInv, NEW r \in details
  PROVE  details \ {r} = {} /\ r \in Requests /\ (Summary # None => r.id = Summary /\ r.win = win)
BY DEF PageInv, Types, PageTypes, AtMostOne, RequestsFollow

LEMMA DetailReturnsKeeps ==
  ASSUME PageInv, NEW r \in details, DetailReturns(r), events' = events
  PROVE  PageInv'
<1>1. PICK m \in {Answer(r), NoMetric} :
        IF r.reseed
        THEN /\ seeded' = m.id
             /\ Flush(items, sel, win, m, SeedVisible(m), {}, None, FALSE, TRUE, details \ {r})
        ELSE /\ Flush(items, sel, win, m, visible, expanded, column, FALSE, TRUE, details \ {r})
             /\ UNCHANGED seeded
  BY DEF DetailReturns
<1>2. details \ {r} = {} /\ (Summary # None => r.id = Summary /\ r.win = win)
  BY AnsweredRequest
<1>3. MetricOK(m) /\ (m = NoMetric \/ (Summary # None => m.id = Summary /\ m.win = win))
  BY <1>2, AnsweredRequest, AnswerOK DEF MetricOK
<1>4. SavedOK(saved') /\ events' \in 0 .. MaxEvents
  BY DEF DetailReturns, PageInv, Types, PageTypes
<1>5. m.id \in Metrics \cup {None}
  BY <1>3, ListedKnown DEF NoMetric
<1>6. SeedVisible(m) \subseteq AllSeries
  BY <1>3, ResolveListed, ListedKnown DEF SeedVisible
<1>7. CASE r.reseed
  BY <1>1, <1>2, <1>3, <1>4, <1>5, <1>6, <1>7, FlushKeeps DEF PageInv, Types, PageTypes
<1>8. CASE ~r.reseed
  BY <1>1, <1>2, <1>3, <1>4, <1>8, FlushKeeps DEF PageInv, Types, PageTypes
<1> QED
  BY <1>7, <1>8

LEMMA DetailFailsKeeps ==
  ASSUME PageInv, NEW r \in details, DetailFails(r), events' = events
  PROVE  PageInv'
<1>1. Flush(items, sel, win, NoMetric, {}, {}, None, FALSE, TRUE, {}) /\ seeded' = None /\ saved' = saved
  BY AnsweredRequest DEF DetailFails
<1>2. MetricOK(NoMetric)
  BY DEF MetricOK
<1> QED
  BY <1>1, <1>2, FlushKeeps DEF PageInv, Types, PageTypes

LEMMA DatapointTimerKeeps ==
  ASSUME PageInv, DatapointTimerFires, events' = events
  PROVE  PageInv'
<1> DEFINE r == [id |-> dpTimer.id, win |-> win, keys |-> dpTimer.keys, reseed |-> FALSE]
<1>1. dpTimer # NoTimer /\ dpTimer' = NoTimer /\ details' = {r}
  BY DEF DatapointTimerFires, FetchDetail
<1>2. UNCHANGED <<items, sel, win, metric, seeded, visible, expanded, column, saved, follow,
                  agg, raw, dist, events>>
  BY DEF DatapointTimerFires, page, fetchers
<1>3. Summary' = Summary
  BY <1>2 DEF Summary
<1>4. r \in Requests /\ r.id = dpTimer.id /\ r.win = win
  BY <1>1 DEF PageInv, Types, PageTypes, TimerOK, Requests
<1> HIDE DEF r
<1>5. PageTypes'
  BY <1>1, <1>2, <1>4 DEF PageInv, Types, PageTypes, AtMostOne, TimerOK
<1>6. AggTypes' /\ RawTypes' /\ DistTypes' /\ CacheKeyed'
  BY <1>2 DEF PageInv, Types, AggTypes, RawTypes, DistTypes, CacheKeyed
<1>7. RequestsFollow'
  BY <1>1, <1>2, <1>3, <1>4 DEF PageInv, RequestsFollow
<1>8. DrawnListed' /\ MetricFollows' /\ AggregateFollows' /\ ColumnFollows'
  BY <1>1, <1>2, <1>3 DEF PageInv, DrawnListed, MetricFollows, AggregateFollows, ColumnFollows
<1> QED
  BY <1>5, <1>6, <1>7, <1>8 DEF PageInv, Types

\* A fetcher's step leaves the page alone.
LEMMA FetcherLeavesPage ==
  ASSUME PageInv, UNCHANGED unfetched
  PROVE  /\ Summary' = Summary /\ PageTypes' /\ RequestsFollow' /\ DrawnListed' /\ MetricFollows'
         /\ UNCHANGED <<win, metric, visible, column, details, follow>>
<1>1. UNCHANGED <<items, sel, win, metric, seeded, visible, expanded, column, saved, events,
                  details, dpTimer, follow>>
  BY DEF unfetched, page
<1>2. Summary' = Summary
  BY <1>1 DEF Summary
<1> QED
  BY <1>1, <1>2 DEF PageInv, Types, PageTypes, RequestsFollow, DrawnListed, MetricFollows

LEMMA AggregateKeeps ==
  ASSUME PageInv, AggregateStep
  PROVE  PageInv'
<1>1. UNCHANGED unfetched /\ raw' = raw /\ dist' = dist
  BY DEF AggregateStep, AggregateTimerFires, AggregateReturns
<1>2. RawTypes' /\ DistTypes' /\ CacheKeyed' /\ ColumnFollows'
  BY <1>1, FetcherLeavesPage DEF PageInv, Types, RawTypes, DistTypes, CacheKeyed, ColumnFollows
<1>3. AggTypes' /\ AggregateFollows'
  <2>1. CASE AggregateTimerFires
    <3> DEFINE r == [id |-> agg.timer.id, win |-> win, keys |-> agg.timer.keys]
    <3>1. agg.timer # NoTimer /\ agg.reqs = {}
      BY <2>1 DEF AggregateTimerFires, PageInv, AggregateFollows
    <3>2. agg' = [shown |-> agg.shown, timer |-> NoTimer, reqs |-> {r}]
      BY <2>1, <3>1 DEF AggregateTimerFires, PageInv, Types, AggTypes
    <3>3. agg.timer = [id |-> Summary, keys |-> visible]
            => r = [id |-> Summary, win |-> win, keys |-> visible]
      OBVIOUS
    <3> HIDE DEF r
    <3>4. AggTypes'
      BY <3>2 DEF AggTypes, TimerOK, AtMostOne
    <3>5. agg'.timer = NoTimer /\ agg'.reqs = {r} /\ follow = "aggregate"
      BY <3>1, <3>2 DEF PageInv, AggregateFollows
    <3> QED
      BY <3>1, <3>3, <3>4, <3>5, <1>1, FetcherLeavesPage DEF PageInv, AggregateFollows
  <2>2. CASE \E r \in agg.reqs : AggregateReturns(r)
    <3>1. PICK r \in agg.reqs : AggregateReturns(r)
      BY <2>2
    <3>2. PICK a \in {r, NoMetric} : agg' = [agg EXCEPT !.shown = a, !.reqs = @ \ {r}]
      BY <3>1 DEF AggregateReturns
    <3>3. agg.reqs \ {r} = {} /\ agg.timer = NoTimer
      BY DEF PageInv, Types, AggTypes, AtMostOne, AggregateFollows
    <3>4. agg' = [shown |-> a, timer |-> NoTimer, reqs |-> {}]
      BY <3>2, <3>3 DEF PageInv, Types, AggTypes
    <3>5. AggTypes'
      BY <3>4 DEF AggTypes, TimerOK, AtMostOne
    <3> QED
      BY <3>3, <3>4, <3>5, <1>1, FetcherLeavesPage DEF PageInv, AggregateFollows
  <2> QED
    BY <2>1, <2>2 DEF AggregateStep
<1> QED
  BY <1>1, <1>2, <1>3, FetcherLeavesPage DEF PageInv, Types

LEMMA SeriesKeeps ==
  ASSUME PageInv, SeriesStep
  PROVE  PageInv'
<1>1. PICK t \in AllSeries : SeriesReturns(t)
  BY DEF SeriesStep
<1>2. UNCHANGED unfetched /\ agg' = agg /\ dist' = dist
  BY <1>1 DEF SeriesReturns
<1>3. AggTypes' /\ DistTypes' /\ AggregateFollows' /\ ColumnFollows'
  BY <1>2, FetcherLeavesPage DEF PageInv, Types, AggTypes, DistTypes, AggregateFollows, ColumnFollows
<1>4. RawTypes' /\ CacheKeyed'
  <2> DEFINE R == [key : Keys, cache : SUBSET (AllSeries \X Keys), flight : [AllSeries -> Keys]]
             r == SeriesAnswered(t)
  <2>1. raw \in R /\ \A c \in raw.cache : c[2] = raw.key
    BY DEF PageInv, Types, RawTypes, CacheKeyed
  <2>2. NoKey \in Keys
    BY DEF Keys
  <2>3. r \in R /\ \A c \in r.cache : c[2] = r.key
    <3>1. raw.flight[t] \in Keys
      BY <2>1
    <3>2. [raw EXCEPT !.cache = @ \cup {<<t, raw.flight[t]>>}, !.flight[t] = NoKey] \in R
      <4>1. raw.cache \cup {<<t, raw.flight[t]>>} \in SUBSET (AllSeries \X Keys)
        BY <2>1, <3>1
      <4>2. [raw.flight EXCEPT ![t] = NoKey] \in [AllSeries -> Keys]
        BY <2>1, <2>2
      <4>3. raw = [key |-> raw.key, cache |-> raw.cache, flight |-> raw.flight] /\ raw.key \in Keys
        BY <2>1
      <4> QED
        BY <4>1, <4>2, <4>3
    <3>3. [raw EXCEPT !.flight[t] = NoKey] \in R
      BY <2>1, <2>2
    <3>4. CASE raw.flight[t] = raw.key
      <4>1. r = [raw EXCEPT !.cache = @ \cup {<<t, raw.flight[t]>>}, !.flight[t] = NoKey]
        BY <3>4 DEF SeriesAnswered
      <4>2. r.cache = raw.cache \cup {<<t, raw.flight[t]>>} /\ r.key = raw.key
        BY <4>1, <2>1
      <4> QED
        BY <2>1, <3>2, <3>4, <4>1, <4>2
    <3>5. CASE raw.flight[t] # raw.key
      <4>1. r = [raw EXCEPT !.flight[t] = NoKey]
        BY <3>5 DEF SeriesAnswered
      <4> QED
        BY <2>1, <3>3, <4>1
    <3> QED
      BY <3>4, <3>5
  <2>4. [raw EXCEPT !.flight[t] = NoKey] \in R
    BY <2>1, <2>2
  <2>5. Summary \in Metrics \cup {None} /\ win \in Windows
    BY SummaryListed DEF PageInv, Types, PageTypes, Summary
  <2> HIDE DEF r
  <2>6. SeriesEffect(r, Summary, win, expanded) \in R
        /\ \A c \in SeriesEffect(r, Summary, win, expanded).cache :
              c[2] = SeriesEffect(r, Summary, win, expanded).key
    BY <2>3, <2>5, SeriesEffectKeeps
  <2>7. raw' \in {r, SeriesEffect(r, Summary, win, expanded), [raw EXCEPT !.flight[t] = NoKey]}
    BY <1>1 DEF SeriesReturns, r
  <2>8. \A c \in [raw EXCEPT !.flight[t] = NoKey].cache : c[2] = [raw EXCEPT !.flight[t] = NoKey].key
    BY <2>1
  <2> QED
    BY <2>3, <2>4, <2>6, <2>7, <2>8 DEF RawTypes, CacheKeyed
<1> QED
  BY <1>2, <1>3, <1>4, FetcherLeavesPage DEF PageInv, Types

LEMMA ColumnKeeps ==
  ASSUME PageInv, ColumnStep
  PROVE  PageInv'
<1>1. PICK r \in dist.reqs : ColumnReturns(r)
  BY DEF ColumnStep
<1>2. UNCHANGED unfetched /\ agg' = agg /\ raw' = raw
  BY <1>1 DEF ColumnReturns
<1>3. AggTypes' /\ RawTypes' /\ CacheKeyed' /\ AggregateFollows'
  BY <1>2, FetcherLeavesPage DEF PageInv, Types, AggTypes, RawTypes, CacheKeyed, AggregateFollows
<1>4. PICK d \in {r, <<>>} : dist' = [shown |-> d, reqs |-> dist.reqs \ {r}]
  BY <1>1 DEF ColumnReturns
<1>5. dist.reqs \ {r} = {} /\ follow = "column"
  BY DEF PageInv, Types, DistTypes, AtMostOne, ColumnFollows
<1>6. DistTypes' /\ ColumnFollows'
  BY <1>2, <1>4, <1>5, FetcherLeavesPage DEF PageInv, DistTypes, AtMostOne, ColumnFollows
<1> QED
  BY <1>2, <1>3, <1>6, FetcherLeavesPage DEF PageInv, Types

\* PageInv is an invariant of the metrics page, whatever the fairness.
THEOREM PageInvariant == Spec => []PageInv
<1>1. PageInv /\ [Next]_vars => PageInv'
  <2>1. ASSUME PageInv, UNCHANGED vars PROVE PageInv'
    <3>1. Summary' = Summary
      BY <2>1 DEF vars, Summary
    <3> QED
      BY <2>1, <3>1
      DEF vars, PageInv, Types, PageTypes, AggTypes, RawTypes, DistTypes, RequestsFollow, DrawnListed,
          MetricFollows, AggregateFollows, CacheKeyed, ColumnFollows
  <2>2. ASSUME PageInv, Detail PROVE PageInv'
    BY <2>2, DatapointTimerKeeps, DetailReturnsKeeps, DetailFailsKeeps DEF Detail
  <2> QED
    BY <2>1, <2>2, UserKeeps, AggregateKeeps, SeriesKeeps, ColumnKeeps DEF Next
<1> QED
  BY <1>1, PageInit, PTL DEF Spec

LEMMA SingletonCard == \A S : AtMostOne(S) => Cardinality(S) <= 1
BY FS_EmptySet, FS_Singleton DEF AtMostOne

\* For any number of metrics, series, windows and events: once nothing is
\* pending, metric, window, checked series and aggregate of the metrics page
\* belong together (MetricsPage.svelte, detailToken and aggregateToken).
THEOREM MetricsPageSettles == Spec => []PageSettles
<1>1. PageInv => TypeOK
  <2> SUFFICES ASSUME PageInv PROVE TypeOK
    OBVIOUS
  <2> USE DEF PageInv, Types
  <2>1. Cardinality(details) <= 1 /\ Cardinality(agg.reqs) <= 1 /\ Cardinality(dist.reqs) <= 1
    BY SingletonCard DEF PageTypes, AggTypes, DistTypes
  <2>2. Key(raw.key) /\ \A t \in AllSeries : Key(raw.flight[t])
    BY DEF RawTypes, Keys, Key
  <2>3. dpTimer = NoTimer \/ (dpTimer.id \in Metrics /\ dpTimer.keys \subseteq AllSeries)
    BY DEF PageTypes, TimerOK
  <2> QED
    BY <2>1, <2>2, <2>3 DEF PageTypes, MetricOK, SavedOK, TypeOK
<1>2. PageInv => ShownMetricSettles
  BY DEF PageInv, MetricFollows, ShownMetricSettles, Settled
<1>3. PageInv => AggregateSettles
  BY DEF PageInv, MetricFollows, AggregateFollows, AggregateSettles, Settled
<1> QED
  BY <1>1, <1>2, <1>3, PageInvariant, PTL DEF PageSettles

\* "A stale series can never be shown under a new question": cache and
\* distribution always answer what is asked now (MetricsPage.svelte,
\* fetchSeriesDatapoints and the column effect).
THEOREM StaleNeverShown == Spec => []NothingStaleShown
<1>1. PageInv => NothingStaleShown
  BY DEF PageInv, CacheKeyed, ColumnFollows, NothingStaleShown
<1> QED
  BY <1>1, PageInvariant, PTL
=============================================================================
