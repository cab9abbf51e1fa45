------------------------------ MODULE WireProofs ------------------------------
(***************************************************************************)
(* One call over the wire, for any series, spans, resources, query trees   *)
(* and times, however a number that is not exact is rounded: the answer a  *)
(* view is handed is the one its page asked for, a trace is rebuilt as it  *)
(* was stored and marked as its search describes, and a missing metric, an *)
(* abandoned call and a failure are told apart.                            *)
(***************************************************************************)
EXTENDS Wire, WellFoundedInduction, TLAPS

\* The calls the service makes, and the stores that answer them.
Arguments == GetMetric \cup GetMetricAggregate \cup SearchSpans \cup Other
Span == [start: Times, end: Times, resource: Resources]
StoreType == [stream: BOOLEAN, readings: [Series -> SUBSET ReadingTimes], trace: BOOLEAN,
              shape: Shapes, spans: [Spans -> Span]]
InOrder(db) == \A x \in Spans : db.spans[x].start <= db.spans[x].end

----------------------------------------------------------------------------
(* Numbers.                                                                *)

\* Numbers have a least one.
LEMMA Least ==
  ASSUME NEW I, I \subseteq Nat, I # {}
  PROVE  \E m \in I : \A i \in I : m <= i
<1> DEFINE R == {ss \in Nat \X Nat : ss[1] < ss[2]}
<1>1. IsWellFoundedOn(R, Nat)
  BY NatLessThanWellFounded DEF OpToRel
<1> HIDE DEF R
<1>2. PICK m \in I : \A i \in I : ~ (<<i, m>> \in R)
  BY <1>1, WFMin
<1>3. ASSUME NEW i \in I, ~ (<<i, m>> \in R) PROVE m <= i
  BY <1>3 DEF R
<1> QED
  BY <1>2, <1>3

\* Numbers below a bound have a greatest one.
LEMMA Greatest ==
  ASSUME NEW B \in Nat, NEW I, I \subseteq 0 .. B, I # {}
  PROVE  \E m \in I : \A i \in I : i <= m
<1> DEFINE U == {u \in Nat : \A i \in I : i <= u}
<1>1. U \subseteq Nat /\ B \in U
  OBVIOUS
<1>2. PICK u \in U : \A v \in U : u <= v
  <2> HIDE DEF U
  <2> QED
    BY <1>1, Least
<1>3. u \in I
  <2> SUFFICES ASSUME u \notin I PROVE FALSE
    OBVIOUS
  <2>1. PICK i \in I : TRUE
    OBVIOUS
  <2>2. u \in Nat /\ u # 0
    BY <2>1
  <2>3. u - 1 \in U
    BY <2>2
  <2> QED
    BY <1>2, <2>2, <2>3
<1> QED
  BY <1>3

\* Min and Max are what they say.
LEMMA MinFact ==
  ASSUME NEW S, S \subseteq Nat, S # {}
  PROVE  Min(S) \in S /\ \A x \in S : Min(S) <= x
<1>1. \E m \in S : \A x \in S : m <= x
  BY Least
<1> QED
  BY <1>1 DEF Min

LEMMA MaxFact ==
  ASSUME NEW B \in Nat, NEW S, S \subseteq 0 .. B, S # {}
  PROVE  Max(S) \in S /\ \A x \in S : x <= Max(S)
<1>1. \E m \in S : \A x \in S : x <= m
  BY Greatest
<1>2. \E m \in S : \A x \in S : m >= x
  BY <1>1
<1>3. Max(S) \in S /\ \A x \in S : Max(S) >= x
  BY <1>2 DEF Max
<1> QED
  BY <1>3

----------------------------------------------------------------------------
(* Parameters.                                                             *)

\* A name's place.
Place(k, i) == i \in 1 .. 8 /\ MethodParamNames[i] = k

\* Back in their places, the parameters are those that were named.
LEMMA NormalizeFact ==
  ASSUME NEW q, {"startTime", "endTime"} \subseteq DOMAIN q
  PROVE  /\ NormalizeParams(q)[2] = q["startTime"] /\ NormalizeParams(q)[3] = q["endTime"]
         /\ \A i \in 1 .. 8 : \A d :
              Optional(NormalizeParams(q), i, d)
                = IF MethodParamNames[i] \in DOMAIN q /\ q[MethodParamNames[i]] # Null
                  THEN q[MethodParamNames[i]] ELSE d
<1> DEFINE N == MethodParamNames
           I == {i \in 1 .. 8 : N[i] \in DOMAIN q}
           h == CHOOSE i \in DOMAIN N : N[i] \in DOMAIN q /\ \A j \in DOMAIN N : N[j] \in DOMAIN q => j <= i
           p == [i \in 1 .. h |-> IF N[i] \in DOMAIN q THEN q[N[i]] ELSE Null]
<1>1. DOMAIN N = 1 .. 8 /\ N[2] = "startTime" /\ N[3] = "endTime"
  BY DEF MethodParamNames
<1>2. NormalizeParams(q) = p
  BY DEF NormalizeParams
<1> HIDE DEF N
<1>3. 3 \in I /\ 2 \in I /\ I \subseteq 0 .. 8
  BY <1>1
<1>4. \E m \in I : \A i \in I : i <= m
  <2> HIDE DEF I
  <2> QED
    BY <1>3, Greatest
<1>5. h \in 1 .. 8 /\ N[h] \in DOMAIN q /\ \A j \in 1 .. 8 : N[j] \in DOMAIN q => j <= h
  BY <1>1, <1>4
<1> HIDE DEF h
<1>6. h >= 3
  BY <1>1, <1>5
<1>7. p \in Seq({p[i] : i \in 1 .. h}) /\ Len(p) = h
  BY <1>5
<1>8. p[2] = q["startTime"] /\ p[3] = q["endTime"]
  BY <1>1, <1>6, <1>5
<1>9. ASSUME NEW i \in 1 .. 8, NEW d
      PROVE  Optional(p, i, d) = IF N[i] \in DOMAIN q /\ q[N[i]] # Null THEN q[N[i]] ELSE d
  <2>1. CASE N[i] \in DOMAIN q
    <3>1. i <= h
      BY <2>1, <1>5
    <3>2. p[i] = q[N[i]]
      BY <2>1, <3>1, <1>5
    <3> HIDE DEF p
    <3> QED
      BY <2>1, <3>1, <3>2, <1>7, <1>5 DEF Optional
  <2>2. CASE N[i] \notin DOMAIN q
    <3>1. i <= h => p[i] = Null
      BY <2>2, <1>5
    <3> HIDE DEF p
    <3> QED
      BY <2>2, <3>1, <1>7, <1>5 DEF Optional
  <2> QED
    BY <2>1, <2>2
<1> QED
  BY <1>2, <1>8, <1>9 DEF N

\* Only what the caller supplied is named.
LEMMA NamedFact ==
  ASSUME NEW params, NEW k
  PROVE  /\ k \in DOMAIN Named(params) <=> k \in DOMAIN params /\ params[k] # Absent
         /\ k \in DOMAIN Named(params) => Named(params)[k] = params[k]
BY DEF Named

\* What the server takes a getMetric call for.
AskedMetric(a) ==
  [startTime |-> BoundToNanoseconds(a.window.start), endTime |-> BoundToNanoseconds(a.window.end),
   seriesIDs |-> a.seriesIDs, selectedSeriesIDs |-> Absent, datapointSeriesIDs |-> a.datapointSeriesIDs,
   datapointSeriesLimit |-> IF a.datapointSeriesLimit = Absent THEN 0 ELSE a.datapointSeriesLimit]

\* And a getMetricAggregate call.
AskedAggregate(a) ==
  [startTime |-> ToNanoseconds(a.window.start.n), endTime |-> ToNanoseconds(a.window.end.n),
   seriesIDs |-> IF a.seriesIDs = Null THEN Absent ELSE a.seriesIDs,
   selectedSeriesIDs |-> a.selectedSeriesIDs, datapointSeriesIDs |-> Absent, datapointSeriesLimit |-> 0]

\* A list of series, or none, is told from the sentinels.
LEMMA ListsApart ==
  /\ \A T \in SUBSET Series : T # Null /\ T # Absent
  /\ \A n \in Int : n # Null /\ n # Absent
  /\ Absent # Null
BY SentinelsApart

\* The bounds of a call are whole nanoseconds.
LEMMA BoundFact ==
  ASSUME NEW b \in QueryTimeBound
  PROVE  /\ BoundToNanoseconds(b) \in Int
         /\ BoundToNanoseconds(b) = IF b.unit = "ms" THEN b.n * Ms ELSE b.n
         /\ b.unit = "ms" => ToNanoseconds(b.n) = BoundToNanoseconds(b)
<1>1. Ms \in Nat /\ MaxAt \in Nat
  BY WireAssumption
<1>2. b.n \in Int /\ b.unit \in {"ms", "ns"}
  BY <1>1 DEF QueryTimeBound, Times
<1>3. b.n * Ms \in Int
  BY <1>1, <1>2
<1> QED
  BY <1>2, <1>3 DEF BoundToNanoseconds, ToNanoseconds

\* The parameters of getMetric arrive as they were meant.
LEMMA MetricParams ==
  ASSUME NEW a \in GetMetric
  PROVE  ParseGetMetricParams(NormalizeParams(RequestGetMetric(a))) = AskedMetric(a)
<1> DEFINE P == [streamID |-> 1, startTime |-> BoundToNanoseconds(a.window.start),
                 endTime |-> BoundToNanoseconds(a.window.end), targetBuckets |-> a.targetBuckets,
                 seriesIDs |-> a.seriesIDs, datapointSeriesIDs |-> a.datapointSeriesIDs,
                 datapointSeriesLimit |-> a.datapointSeriesLimit]
           q == Named(P)
           p == NormalizeParams(q)
<1>1. RequestGetMetric(a) = q
  BY DEF RequestGetMetric
<1>2. /\ a.seriesIDs \in (SUBSET Series) \cup {Absent} /\ a.datapointSeriesIDs \in (SUBSET Series) \cup {Absent}
      /\ a.datapointSeriesLimit \in {0, 1, Absent}
      /\ a.window.start \in QueryTimeBound /\ a.window.end \in QueryTimeBound
  <2>1. /\ a.seriesIDs \in (SUBSET Series) \cup {Absent} /\ a.datapointSeriesIDs \in (SUBSET Series) \cup {Absent}
        /\ a.datapointSeriesLimit \in {0, 1, Absent}
        /\ a.window \in Window("ms") \cup Window("ns")
    BY DEF GetMetric, Opt
  <2>2. a.window \in [start: QueryTimeBound, end: QueryTimeBound]
    BY <2>1 DEF Window
  <2> QED
    BY <2>1, <2>2
<1>20. a.seriesIDs # Null /\ a.datapointSeriesIDs # Null /\ a.datapointSeriesLimit # Null
  <2>1. \A x \in (SUBSET Series) \cup {Absent} : x # Null
    BY ListsApart
  <2> QED
    BY <1>2, <2>1, ListsApart
<1>3. /\ DOMAIN P = {"streamID", "startTime", "endTime", "targetBuckets", "seriesIDs",
                     "datapointSeriesIDs", "datapointSeriesLimit"}
      /\ P["startTime"] = BoundToNanoseconds(a.window.start) /\ P["endTime"] = BoundToNanoseconds(a.window.end)
      /\ P["seriesIDs"] = a.seriesIDs /\ P["datapointSeriesIDs"] = a.datapointSeriesIDs
      /\ P["datapointSeriesLimit"] = a.datapointSeriesLimit
  OBVIOUS
<1> HIDE DEF P
<1>4. P["startTime"] # Absent /\ P["endTime"] # Absent
  BY <1>2, <1>3, BoundFact, ListsApart
<1>5. /\ "startTime" \in DOMAIN q /\ "endTime" \in DOMAIN q
      /\ q["startTime"] = P["startTime"] /\ q["endTime"] = P["endTime"]
  BY <1>3, <1>4, NamedFact
<1>6. /\ "seriesIDs" \in DOMAIN q <=> a.seriesIDs # Absent
      /\ "seriesIDs" \in DOMAIN q => q["seriesIDs"] = a.seriesIDs
      /\ "datapointSeriesIDs" \in DOMAIN q <=> a.datapointSeriesIDs # Absent
      /\ "datapointSeriesIDs" \in DOMAIN q => q["datapointSeriesIDs"] = a.datapointSeriesIDs
      /\ "datapointSeriesLimit" \in DOMAIN q <=> a.datapointSeriesLimit # Absent
      /\ "datapointSeriesLimit" \in DOMAIN q => q["datapointSeriesLimit"] = a.datapointSeriesLimit
      /\ "selectedSeriesIDs" \notin DOMAIN q
  BY <1>3, NamedFact
<1> HIDE DEF q
<1>7. /\ p[2] = q["startTime"] /\ p[3] = q["endTime"]
      /\ \A i \in 1 .. 8 : \A d :
           Optional(p, i, d) = IF MethodParamNames[i] \in DOMAIN q /\ q[MethodParamNames[i]] # Null
                               THEN q[MethodParamNames[i]] ELSE d
  <2>1. {"startTime", "endTime"} \subseteq DOMAIN q
    BY <1>5
  <2> QED
    BY <2>1, NormalizeFact
<1>8. /\ MethodParamNames[5] = "seriesIDs" /\ MethodParamNames[6] = "selectedSeriesIDs"
      /\ MethodParamNames[7] = "datapointSeriesIDs" /\ MethodParamNames[8] = "datapointSeriesLimit"
  BY DEF MethodParamNames
<1> HIDE DEF p
<1>9. /\ Optional(p, 5, Absent) = a.seriesIDs /\ Optional(p, 6, Absent) = Absent
      /\ Optional(p, 7, Absent) = a.datapointSeriesIDs
  <2>1. \A i \in 5 .. 7 : i \in 1 .. 8
    OBVIOUS
  <2> QED
    BY <1>20, <1>6, <1>7, <1>8, <2>1
<1>10. Optional(p, 8, 0) = IF a.datapointSeriesLimit = Absent THEN 0 ELSE a.datapointSeriesLimit
  BY <1>2, <1>6, <1>7, <1>8, ListsApart
<1> QED
  BY <1>1, <1>3, <1>5, <1>7, <1>9, <1>10 DEF ParseGetMetricParams, AskedMetric, p

\* So do those of getMetricAggregate, where null is a choice of its own.
LEMMA AggregateParams ==
  ASSUME NEW a \in GetMetricAggregate
  PROVE  ParseGetMetricParams(NormalizeParams(RequestGetMetricAggregate(a))) = AskedAggregate(a)
<1> DEFINE selected == IF a.selectedSeriesIDs = Absent THEN Null ELSE a.selectedSeriesIDs
           P == [streamID |-> 1, startTime |-> ToNanoseconds(a.window.start.n),
                 endTime |-> ToNanoseconds(a.window.end.n), targetBuckets |-> a.targetBuckets,
                 seriesIDs |-> a.seriesIDs, selectedSeriesIDs |-> selected]
           q == Named(P)
           p == NormalizeParams(q)
<1>1. RequestGetMetricAggregate(a) = q
  BY DEF RequestGetMetricAggregate
<1>2. /\ a.seriesIDs \in (SUBSET Series) \cup {Null} /\ a.selectedSeriesIDs \in (SUBSET Series) \cup {Absent}
      /\ a.window.start \in QueryTimeBound /\ a.window.end \in QueryTimeBound
      /\ a.window.start.unit = "ms" /\ a.window.end.unit = "ms"
  <2>1. /\ a.seriesIDs \in (SUBSET Series) \cup {Null} /\ a.selectedSeriesIDs \in (SUBSET Series) \cup {Absent}
        /\ a.window \in Window("ms")
    BY DEF GetMetricAggregate, Opt, Nullable
  <2>2. a.window \in [start: QueryTimeBound, end: QueryTimeBound] /\ a.window.start.unit = "ms"
        /\ a.window.end.unit = "ms"
    BY <2>1 DEF Window
  <2> QED
    BY <2>1, <2>2
<1>3. /\ DOMAIN P = {"streamID", "startTime", "endTime", "targetBuckets", "seriesIDs", "selectedSeriesIDs"}
      /\ P["startTime"] = ToNanoseconds(a.window.start.n) /\ P["endTime"] = ToNanoseconds(a.window.end.n)
      /\ P["seriesIDs"] = a.seriesIDs /\ P["selectedSeriesIDs"] = selected
  OBVIOUS
<1> HIDE DEF P
<1>4. P["startTime"] # Absent /\ P["endTime"] # Absent
  BY <1>2, <1>3, BoundFact, ListsApart
<1>5. /\ "startTime" \in DOMAIN q /\ "endTime" \in DOMAIN q
      /\ q["startTime"] = P["startTime"] /\ q["endTime"] = P["endTime"]
  BY <1>3, <1>4, NamedFact
<1>6. a.seriesIDs # Absent /\ selected # Absent /\ (selected = Null <=> a.selectedSeriesIDs = Absent)
  <2>1. /\ \A x \in (SUBSET Series) \cup {Null} : x # Absent
        /\ \A x \in SUBSET Series : x # Null /\ x # Absent
    BY ListsApart
  <2>2. CASE a.selectedSeriesIDs = Absent
    BY <1>2, <2>1, <2>2
  <2>3. CASE a.selectedSeriesIDs \in SUBSET Series
    BY <1>2, <2>1, <2>3
  <2> QED
    BY <1>2, <2>2, <2>3
<1>7. /\ "seriesIDs" \in DOMAIN q /\ q["seriesIDs"] = a.seriesIDs
      /\ "selectedSeriesIDs" \in DOMAIN q /\ q["selectedSeriesIDs"] = selected
      /\ "datapointSeriesIDs" \notin DOMAIN q /\ "datapointSeriesLimit" \notin DOMAIN q
  BY <1>3, <1>6, NamedFact
<1> HIDE DEF q
<1>8. /\ p[2] = q["startTime"] /\ p[3] = q["endTime"]
      /\ \A i \in 1 .. 8 : \A d :
           Optional(p, i, d) = IF MethodParamNames[i] \in DOMAIN q /\ q[MethodParamNames[i]] # Null
                               THEN q[MethodParamNames[i]] ELSE d
  <2>1. {"startTime", "endTime"} \subseteq DOMAIN q
    BY <1>5
  <2> QED
    BY <2>1, NormalizeFact
<1>9. /\ MethodParamNames[5] = "seriesIDs" /\ MethodParamNames[6] = "selectedSeriesIDs"
      /\ MethodParamNames[7] = "datapointSeriesIDs" /\ MethodParamNames[8] = "datapointSeriesLimit"
  BY DEF MethodParamNames
<1> HIDE DEF p
<1>10. /\ Optional(p, 5, Absent) = IF a.seriesIDs = Null THEN Absent ELSE a.seriesIDs
       /\ Optional(p, 6, Absent) = a.selectedSeriesIDs
       /\ Optional(p, 7, Absent) = Absent /\ Optional(p, 8, 0) = 0
  <2>1. \A i \in 5 .. 8 : i \in 1 .. 8
    OBVIOUS
  <2> QED
    BY <1>6, <1>7, <1>8, <1>9, <2>1
<1> QED
  BY <1>1, <1>3, <1>5, <1>8, <1>10 DEF ParseGetMetricParams, AskedAggregate, p

----------------------------------------------------------------------------
(* Recursion on numbers.                                                   *)

\* What holds at 0 and passes from each number to the next holds up to N.
LEMMA Steps ==
  ASSUME NEW N \in Nat, NEW I, 0 \in I, \A i \in 1 .. N : i - 1 \in I => i \in I
  PROVE  0 .. N \subseteq I
<1> DEFINE B == {i \in 0 .. N : i \notin I}
<1> SUFFICES ASSUME B # {} PROVE FALSE
  OBVIOUS
<1>1. B \subseteq Nat
  OBVIOUS
<1>2. PICK m \in B : \A i \in B : m <= i
  <2> HIDE DEF B
  <2> QED
    BY <1>1, Least
<1>3. m \in 1 .. N
  BY <1>2
<1>4. m - 1 \in I
  BY <1>2, <1>3
<1> QED
  BY <1>2, <1>3, <1>4

\* f starts at c and goes on by g.
Recurses(f, N, c, g) == f[0] = c /\ \A i \in 1 .. N : f[i] = g[<<i, f[i - 1]>>]

\* A function on 0 .. N can be defined by recursion.
LEMMA Recursion ==
  ASSUME NEW N \in Nat, NEW V, NEW c \in V, NEW g \in [(1 .. N) \X V -> V]
  PROVE  \E f \in [0 .. N -> V] : Recurses(f, N, c, g)
<1> DEFINE I == {n \in 0 .. N : \E f \in [0 .. n -> V] : Recurses(f, n, c, g)}
<1>1. 0 \in I
  <2> DEFINE f == [i \in 0 .. 0 |-> c]
  <2>1. f \in [0 .. 0 -> V] /\ Recurses(f, 0, c, g)
    BY DEF Recurses
  <2> QED
    BY <2>1
<1>2. ASSUME NEW n \in 1 .. N, n - 1 \in I PROVE n \in I
  <2>1. PICK f \in [0 .. n - 1 -> V] : Recurses(f, n - 1, c, g)
    BY <1>2
  <2> DEFINE h == [i \in 0 .. n |-> IF i = n THEN g[<<n, f[n - 1]>>] ELSE f[i]]
  <2>2. g[<<n, f[n - 1]>>] \in V
    BY <2>1
  <2>3. h \in [0 .. n -> V]
    BY <2>1, <2>2
  <2>4. h[n] = g[<<n, f[n - 1]>>] /\ \A i \in 0 .. n - 1 : h[i] = f[i]
    OBVIOUS
  <2> HIDE DEF h
  <2>5. h[0] = c /\ \A i \in 1 .. n - 1 : h[i] = g[<<i, h[i - 1]>>]
    BY <2>1, <2>4 DEF Recurses
  <2>6. h[n] = g[<<n, h[n - 1]>>]
    BY <2>4
  <2>7. Recurses(h, n, c, g)
    BY <2>5, <2>6 DEF Recurses
  <2> QED
    BY <2>3, <2>7
<1> HIDE DEF I
<1>3. N \in I
  BY <1>1, <1>2, Steps
<1> QED
  BY <1>3 DEF I

----------------------------------------------------------------------------
(* Query trees: what the server joins is what the page means.              *)

\* One node of the server's tree, and one of the page's.
BuildStep(span, q, i, before) ==
  LET below == q[i].children \cap before.clauses
      Clause(holds) == [clauses |-> before.clauses \cup {i},
                        hold |-> before.hold \cup (IF holds THEN {i} ELSE {})]
  IN  IF q[i].type = "condition" THEN Clause((q[i].value = span.resource) <=> (q[i].fieldOperator = "="))
      ELSE IF below = {} THEN before
      ELSE Clause(IF q[i].logicalOperator = "AND" THEN below \subseteq before.hold
                  ELSE below \cap before.hold # {})

MeansStep(span, t, i, before) ==
  LET saying == t[i].children \ before.silent
  IN  IF t[i].type = "condition"
      THEN [before EXCEPT !.true = IF (t[i].value = span.resource) <=> (t[i].op = "=") THEN @ \cup {i} ELSE @]
      ELSE IF saying = {} THEN [before EXCEPT !.silent = @ \cup {i}]
      ELSE [before EXCEPT !.true = IF \/ t[i].operator = "AND" /\ \A j \in saying : j \in before.true
                                      \/ t[i].operator = "OR" /\ \E j \in saying : j \in before.true
                                   THEN @ \cup {i} ELSE @]

Clauses == [clauses: SUBSET Nat, hold: SUBSET Nat]
Meanings == [silent: SUBSET Nat, true: SUBSET Nat]

\* The server builds its clauses node by node.
LEMMA BuildFact ==
  ASSUME NEW span, NEW q, Len(q) \in Nat
  PROVE  \E f \in [0 .. Len(q) -> Clauses] :
           /\ f[0] = [clauses |-> {}, hold |-> {}]
           /\ \A i \in 1 .. Len(q) : f[i] = BuildStep(span, q, i, f[i - 1])
           /\ BuildConditions(span, q) = f[Len(q)]
<1> DEFINE N == Len(q)
           c == [clauses |-> {}, hold |-> {}]
           k == CHOOSE h : h = [i \in 0 .. N |-> IF i = 0 THEN c ELSE BuildStep(span, q, i, h[i - 1])]
           g == [x \in (1 .. N) \X Clauses |-> BuildStep(span, q, x[1], x[2])]
<1>1. BuildConditions(span, q) = k[N]
  BY DEF BuildConditions, BuildStep
<1>2. c \in Clauses
  BY DEF Clauses
<1>3. \A i \in 1 .. N, v \in Clauses : BuildStep(span, q, i, v) \in Clauses
  <2> SUFFICES ASSUME NEW i \in 1 .. N, NEW v \in Clauses
               PROVE  BuildStep(span, q, i, v) \in Clauses
    OBVIOUS
  <2> DEFINE Clause(T) == [clauses |-> v.clauses \cup {i}, hold |-> v.hold \cup T]
  <2>1. Clause({}) \in Clauses /\ Clause({i}) \in Clauses
    BY DEF Clauses
  <2>2. BuildStep(span, q, i, v) \in {v, Clause({}), Clause({i})}
    BY DEF BuildStep
  <2> HIDE DEF Clause
  <2> QED
    BY <2>1, <2>2
<1>4. g \in [(1 .. N) \X Clauses -> Clauses] /\ \A i \in 1 .. N, v \in Clauses : g[<<i, v>>] = BuildStep(span, q, i, v)
  BY <1>3
<1> HIDE DEF g, c
<1>5. PICK f \in [0 .. N -> Clauses] : Recurses(f, N, c, g)
  BY <1>2, <1>4, Recursion
<1>6. f[0] = c /\ \A i \in 1 .. N : f[i] = BuildStep(span, q, i, f[i - 1])
  <2>1. \A i \in 1 .. N : i - 1 \in 0 .. N
    OBVIOUS
  <2> QED
    BY <1>4, <1>5, <2>1 DEF Recurses
<1>7. f = [i \in 0 .. N |-> IF i = 0 THEN c ELSE BuildStep(span, q, i, f[i - 1])]
  <2>1. \A i \in 0 .. N : i # 0 => i \in 1 .. N
    OBVIOUS
  <2> HIDE DEF N
  <2> QED
    BY <1>5, <1>6, <2>1
<1>8. k = [i \in 0 .. N |-> IF i = 0 THEN c ELSE BuildStep(span, q, i, k[i - 1])]
  BY <1>7
<1> HIDE DEF k
<1>9. k \in [0 .. N -> Clauses] /\ k[0] = c /\ \A i \in 1 .. N : k[i] = BuildStep(span, q, i, k[i - 1])
  <2>1. \A i \in 1 .. N : i \in 0 .. N /\ i # 0 /\ i - 1 \in 0 .. N
    OBVIOUS
  <2>2. k[0] = c /\ \A i \in 1 .. N : k[i] = BuildStep(span, q, i, k[i - 1])
    BY <1>8, <2>1
  <2> DEFINE I == {i \in 0 .. N : k[i] \in Clauses}
  <2>3. 0 .. N \subseteq I
    <3>1. 0 \in I
      BY <1>2, <2>2
    <3>2. \A i \in 1 .. N : i - 1 \in I => i \in I
      BY <1>3, <2>1, <2>2
    <3> HIDE DEF I
    <3> QED
      BY <3>1, <3>2, Steps
  <2>4. DOMAIN k = 0 .. N
    BY <1>8
  <2>5. k = [i \in 0 .. N |-> k[i]]
    BY <1>8
  <2> QED
    BY <2>2, <2>3, <2>4, <2>5
<1> QED
  BY <1>1, <1>9 DEF c

\* The page's tree means what it does node by node.
LEMMA MeaningFact ==
  ASSUME NEW span, NEW t, Len(t) \in Nat
  PROVE  \E f \in [0 .. Len(t) -> Meanings] :
           /\ f[0] = [silent |-> {}, true |-> {}]
           /\ \A i \in 1 .. Len(t) : f[i] = MeansStep(span, t, i, f[i - 1])
           /\ Meaning(span, t) = f[Len(t)]
<1> DEFINE N == Len(t)
           c == [silent |-> {}, true |-> {}]
           k == CHOOSE h : h = [i \in 0 .. N |-> IF i = 0 THEN c ELSE MeansStep(span, t, i, h[i - 1])]
           g == [x \in (1 .. N) \X Meanings |-> MeansStep(span, t, x[1], x[2])]
<1>1. Meaning(span, t) = k[N]
  BY DEF Meaning, MeansStep
<1>2. c \in Meanings
  BY DEF Meanings
<1>3. \A i \in 1 .. N, v \in Meanings : MeansStep(span, t, i, v) \in Meanings
  <2> SUFFICES ASSUME NEW i \in 1 .. N, NEW v \in Meanings
               PROVE  MeansStep(span, t, i, v) \in Meanings
    OBVIOUS
  <2> DEFINE Silent == [v EXCEPT !.silent = @ \cup {i}]
             True == [v EXCEPT !.true = @ \cup {i}]
             False == [v EXCEPT !.true = @]
  <2>1. Silent \in Meanings /\ True \in Meanings /\ False \in Meanings
    BY DEF Meanings
  <2>2. MeansStep(span, t, i, v) \in {Silent, True, False}
    BY DEF MeansStep
  <2> HIDE DEF Silent, True, False
  <2> QED
    BY <2>1, <2>2
<1>4. g \in [(1 .. N) \X Meanings -> Meanings] /\ \A i \in 1 .. N, v \in Meanings : g[<<i, v>>] = MeansStep(span, t, i, v)
  BY <1>3
<1> HIDE DEF g, c
<1>5. PICK f \in [0 .. N -> Meanings] : Recurses(f, N, c, g)
  BY <1>2, <1>4, Recursion
<1>6. f[0] = c /\ \A i \in 1 .. N : f[i] = MeansStep(span, t, i, f[i - 1])
  <2>1. \A i \in 1 .. N : i - 1 \in 0 .. N
    OBVIOUS
  <2> QED
    BY <1>4, <1>5, <2>1 DEF Recurses
<1>7. f = [i \in 0 .. N |-> IF i = 0 THEN c ELSE MeansStep(span, t, i, f[i - 1])]
  <2>1. \A i \in 0 .. N : i # 0 => i \in 1 .. N
    OBVIOUS
  <2> HIDE DEF N
  <2> QED
    BY <1>5, <1>6, <2>1
<1>8. k = [i \in 0 .. N |-> IF i = 0 THEN c ELSE MeansStep(span, t, i, k[i - 1])]
  BY <1>7
<1> HIDE DEF k
<1>9. k \in [0 .. N -> Meanings] /\ k[0] = c /\ \A i \in 1 .. N : k[i] = MeansStep(span, t, i, k[i - 1])
  <2>1. \A i \in 1 .. N : i \in 0 .. N /\ i # 0 /\ i - 1 \in 0 .. N
    OBVIOUS
  <2>2. k[0] = c /\ \A i \in 1 .. N : k[i] = MeansStep(span, t, i, k[i - 1])
    BY <1>8, <2>1
  <2> DEFINE I == {i \in 0 .. N : k[i] \in Meanings}
  <2>3. 0 .. N \subseteq I
    <3>1. 0 \in I
      BY <1>2, <2>2
    <3>2. \A i \in 1 .. N : i - 1 \in I => i \in I
      BY <1>3, <2>1, <2>2
    <3> HIDE DEF I
    <3> QED
      BY <3>1, <3>2, Steps
  <2>4. k = [i \in 0 .. N |-> k[i]]
    BY <1>8
  <2> QED
    BY <2>2, <2>3, <2>4
<1> QED
  BY <1>1, <1>9 DEF c

\* A node and the same node on the wire.
LEMMA ConvertFact ==
  ASSUME NEW t \in QueryTrees
  PROVE  LET q == ConvertQueryTreeForBackend(t) IN
         /\ Len(t) \in Nat \ {0} /\ DOMAIN t = 1 .. Len(t) /\ Len(q) = Len(t)
         /\ q \in Seq(JsonQueryNode)
         /\ \A i \in 1 .. Len(t) :
              \/ /\ t[i].type = "condition" /\ q[i].type = "condition"
                 /\ t[i].op \in {"=", "!="} /\ q[i].fieldOperator = t[i].op /\ q[i].value = t[i].value
              \/ /\ t[i].type = "group" /\ q[i].type = "group" /\ t[i].operator \in {"AND", "OR"}
                 /\ q[i].logicalOperator = t[i].operator /\ q[i].children = t[i].children
                 /\ t[i].children \subseteq 1 .. i - 1
<1> DEFINE q == ConvertQueryTreeForBackend(t)
           N == Len(t)
<1>1. /\ t \in Seq(Condition \cup Group(SUBSET Nat)) /\ t # <<>>
      /\ \A i \in 1 .. N : t[i] \in Condition \cup Group(SUBSET (1 .. i - 1))
  BY QueryTreesAssumption DEF QueryTree
<1>2. N \in Nat \ {0} /\ DOMAIN t = 1 .. N
  BY <1>1
<1>3. q = [i \in 1 .. N |-> IF t[i].type = "condition" THEN ToCondition(t[i])
                            ELSE [type |-> "group", logicalOperator |-> t[i].operator, children |-> t[i].children]]
  BY DEF ConvertQueryTreeForBackend
<1> HIDE DEF q, N
<1>4. ASSUME NEW i \in 1 .. N
      PROVE  /\ q[i] \in JsonQueryNode
             /\ \/ /\ t[i].type = "condition" /\ q[i].type = "condition"
                   /\ t[i].op \in {"=", "!="} /\ q[i].fieldOperator = t[i].op /\ q[i].value = t[i].value
                \/ /\ t[i].type = "group" /\ q[i].type = "group" /\ t[i].operator \in {"AND", "OR"}
                   /\ q[i].logicalOperator = t[i].operator /\ q[i].children = t[i].children
                   /\ t[i].children \subseteq 1 .. i - 1
  <2>1. CASE t[i] \in Condition
    <3>1. /\ t[i].type = "condition" /\ t[i].op \in {"=", "!="} /\ t[i].value \in Resources
      BY <2>1 DEF Condition
    <3>2. q[i] = [type |-> "condition", fieldOperator |-> t[i].op, value |-> t[i].value]
      BY <1>3, <3>1 DEF ToCondition
    <3>3. q[i] \in JsonQueryNode
      BY <3>1, <3>2 DEF JsonQueryNode
    <3> QED
      BY <3>1, <3>2, <3>3
  <2>2. CASE t[i] \in Group(SUBSET (1 .. i - 1))
    <3>1. /\ t[i].type = "group" /\ t[i].operator \in {"AND", "OR"} /\ t[i].children \subseteq 1 .. i - 1
      BY <2>2 DEF Group
    <3>2. q[i] = [type |-> "group", logicalOperator |-> t[i].operator, children |-> t[i].children]
      BY <1>3, <3>1
    <3>3. 1 .. i - 1 \subseteq Nat
      BY <1>2
    <3>4. q[i] \in JsonQueryNode
      BY <3>1, <3>2, <3>3 DEF JsonQueryNode
    <3> QED
      BY <3>1, <3>2, <3>4
  <2> QED
    BY <1>1, <2>1, <2>2
<1>5. q \in Seq(JsonQueryNode) /\ Len(q) = N
  <2> DEFINE f == [i \in 1 .. N |-> q[i]]
  <2>1. f \in Seq(JsonQueryNode) /\ Len(f) = N
    BY <1>2, <1>4
  <2>2. q = f
    BY <1>3
  <2> HIDE DEF f
  <2> QED
    BY <2>1, <2>2
<1> QED
  BY <1>2, <1>4, <1>5 DEF q, N

\* The clauses the server joins hold of a span when the tree means it.
LEMMA TreeFact ==
  ASSUME NEW t \in QueryTrees, NEW span
  PROVE  LET q == ConvertQueryTreeForBackend(t)
             built == BuildConditions(span, q)
         IN  (Len(q) \in built.clauses => Len(q) \in built.hold) <=> Means(span, t)
<1> DEFINE q == ConvertQueryTreeForBackend(t)
           N == Len(t)
<1>1. /\ N \in Nat \ {0} /\ Len(q) = N
      /\ \A i \in 1 .. N :
           \/ /\ t[i].type = "condition" /\ q[i].type = "condition"
              /\ t[i].op \in {"=", "!="} /\ q[i].fieldOperator = t[i].op /\ q[i].value = t[i].value
           \/ /\ t[i].type = "group" /\ q[i].type = "group" /\ t[i].operator \in {"AND", "OR"}
              /\ q[i].logicalOperator = t[i].operator /\ q[i].children = t[i].children
              /\ t[i].children \subseteq 1 .. i - 1
  BY ConvertFact
<1> HIDE DEF q, N
<1>2. PICK b \in [0 .. N -> Clauses] :
        /\ b[0] = [clauses |-> {}, hold |-> {}]
        /\ \A i \in 1 .. N : b[i] = BuildStep(span, q, i, b[i - 1])
        /\ BuildConditions(span, q) = b[N]
  <2>1. Len(q) \in Nat
    BY <1>1
  <2>2. \E f \in [0 .. Len(q) -> Clauses] :
           /\ f[0] = [clauses |-> {}, hold |-> {}]
           /\ \A i \in 1 .. Len(q) : f[i] = BuildStep(span, q, i, f[i - 1])
           /\ BuildConditions(span, q) = f[Len(q)]
    BY <2>1, BuildFact
  <2>3. Len(q) = N
    BY <1>1
  <2> QED
    BY <2>2, <2>3
<1>3. PICK m \in [0 .. N -> Meanings] :
        /\ m[0] = [silent |-> {}, true |-> {}]
        /\ \A i \in 1 .. N : m[i] = MeansStep(span, t, i, m[i - 1])
        /\ Meaning(span, t) = m[N]
  BY <1>1, MeaningFact DEF N
<1> DEFINE Same(i) == /\ b[i].clauses = (1 .. i) \ m[i].silent /\ b[i].hold = m[i].true
                      /\ m[i].silent \subseteq 1 .. i /\ m[i].true \subseteq 1 .. i
           I == {i \in 0 .. N : Same(i)}
<1>4. 0 \in I
  <2>1. 1 .. 0 = {} /\ 0 \in 0 .. N
    BY <1>1
  <2>2. b[0].clauses = {} /\ b[0].hold = {} /\ m[0].silent = {} /\ m[0].true = {}
    BY <1>2, <1>3
  <2>3. Same(0)
    BY <2>1, <2>2
  <2> QED
    BY <2>1, <2>3
<1>5. ASSUME NEW i \in 1 .. N, i - 1 \in I PROVE i \in I
  <2> SUFFICES Same(i)
    BY <1>1
  <2> DEFINE B == b[i - 1]
             M == m[i - 1]
  <2>1. /\ i \in Nat /\ i - 1 \in 0 .. N /\ i \in 0 .. N /\ i \notin 1 .. i - 1
        /\ 1 .. i = (1 .. i - 1) \cup {i}
    BY <1>1
  <2>2. /\ B \in Clauses /\ M \in Meanings /\ B.clauses = (1 .. i - 1) \ M.silent /\ B.hold = M.true
        /\ M.silent \subseteq 1 .. i - 1 /\ M.true \subseteq 1 .. i - 1
    BY <1>5, <1>2, <1>3, <2>1
  <2>3. b[i] = BuildStep(span, q, i, B) /\ m[i] = MeansStep(span, t, i, M)
    BY <1>2, <1>3
  <2>4. /\ M = [silent |-> M.silent, true |-> M.true]
        /\ B = [clauses |-> B.clauses, hold |-> B.hold]
    BY <2>2 DEF Clauses, Meanings
  <2> HIDE DEF B, M
  <2> DEFINE Clause(T) == [clauses |-> B.clauses \cup {i}, hold |-> B.hold \cup T]
             Saying(T) == [silent |-> M.silent, true |-> M.true \cup T]
  <2>5. ASSUME NEW T \in {{}, {i}}, b[i] = Clause(T), m[i] = Saying(T) PROVE Same(i)
    <3>1. b[i].clauses = B.clauses \cup {i} /\ b[i].hold = B.hold \cup T
      BY <2>5
    <3>2. m[i].silent = M.silent /\ m[i].true = M.true \cup T
      BY <2>5
    <3> QED
      BY <2>1, <2>2, <3>1, <3>2
  <2>6. CASE t[i].type = "condition"
    <3> DEFINE holds == (t[i].value = span.resource) <=> (t[i].op = "=")
               T == IF holds THEN {i} ELSE {}
    <3>1. q[i].type = "condition" /\ q[i].fieldOperator = t[i].op /\ q[i].value = t[i].value
      BY <1>1, <2>6
    <3>2. b[i] = Clause(T)
      BY <2>3, <3>1 DEF BuildStep
    <3>3. m[i] = Saying(T)
      <4>1. CASE holds
        BY <2>3, <2>4, <2>6, <4>1 DEF MeansStep
      <4>2. CASE ~holds
        BY <2>3, <2>4, <2>6, <4>2 DEF MeansStep
      <4> QED
        BY <4>1, <4>2
    <3>4. T \in {{}, {i}}
      OBVIOUS
    <3> HIDE DEF T, Same, Clause, Saying
    <3> QED
      BY <2>5, <3>2, <3>3, <3>4
  <2>7. CASE t[i].type # "condition"
    <3> DEFINE S == t[i].children
               below == S \cap B.clauses
    <3>1. /\ q[i].type # "condition" /\ t[i].operator \in {"AND", "OR"}
          /\ q[i].logicalOperator = t[i].operator /\ q[i].children = S /\ S \subseteq 1 .. i - 1
      BY <1>1, <2>7
    <3>2. below = S \ M.silent
      BY <2>2, <3>1
    <3>3. CASE below = {}
      <4>1. b[i] = B
        BY <2>3, <3>1, <3>3 DEF BuildStep
      <4>2. m[i] = [silent |-> M.silent \cup {i}, true |-> M.true]
        BY <2>3, <2>4, <2>7, <3>2, <3>3 DEF MeansStep
      <4>3. m[i].silent = M.silent \cup {i} /\ m[i].true = M.true
        BY <4>2
      <4> QED
        BY <2>1, <2>2, <4>1, <4>3
    <3>4. CASE below # {}
      <4> DEFINE holds == IF t[i].operator = "AND" THEN below \subseteq B.hold ELSE below \cap B.hold # {}
                 T == IF holds THEN {i} ELSE {}
      <4>1. b[i] = Clause(T)
        BY <2>3, <3>1, <3>4 DEF BuildStep
      <4>2. m[i] = [M EXCEPT !.true = IF \/ t[i].operator = "AND" /\ \A j \in below : j \in M.true
                                         \/ t[i].operator = "OR" /\ \E j \in below : j \in M.true
                                      THEN @ \cup {i} ELSE @]
        BY <2>3, <2>7, <3>2, <3>4 DEF MeansStep
      <4>3. holds <=> \/ t[i].operator = "AND" /\ \A j \in below : j \in M.true
                      \/ t[i].operator = "OR" /\ \E j \in below : j \in M.true
        BY <2>2, <3>1
      <4> HIDE DEF below
      <4>4. m[i] = Saying(T)
        <5>1. CASE holds
          <6> HIDE DEF holds
          <6> QED
            BY <2>4, <4>2, <4>3, <5>1
        <5>2. CASE ~holds
          <6> HIDE DEF holds
          <6> QED
            BY <2>4, <4>2, <4>3, <5>2
        <5> QED
          BY <5>1, <5>2
      <4>5. T \in {{}, {i}}
        OBVIOUS
      <4> HIDE DEF T, Same, Clause, Saying
      <4> QED
        BY <2>5, <4>1, <4>4, <4>5
    <3> QED
      BY <3>3, <3>4
  <2> QED
    BY <2>6, <2>7
<1> HIDE DEF I
<1>6. N \in I
  <2>1. N \in Nat /\ N \in 0 .. N
    BY <1>1
  <2>2. 0 .. N \subseteq I
    BY <2>1, <1>4, <1>5, Steps
  <2> QED
    BY <2>1, <2>2
<1>7. /\ b[N].clauses = (1 .. N) \ m[N].silent /\ b[N].hold = m[N].true
  BY <1>6 DEF I
<1>8. (N \in b[N].clauses => N \in b[N].hold) <=> N \in m[N].silent \cup m[N].true
  BY <1>1, <1>7
<1> QED
  BY <1>1, <1>2, <1>3, <1>8 DEF Means, q, N

----------------------------------------------------------------------------
(* Answers.                                                                *)

\* Reading a set of exact times changes nothing.
LEMMA ExactFact ==
  /\ \A S : {ParseBigInt(e) : e \in S} = S
  /\ \A v : ParseNullableBigInt(v) = v
BY DEF ParseBigInt, ParseNullableBigInt

\* A metric's answer needs no decoding: what the wire carries is what is read.
LEMMA MetricDecoded ==
  ASSUME NEW json \in JsonMetricData
  PROVE  MetricDataFromJSON(json) = json
<1>1. /\ json = [timeseries |-> json.timeseries, lastSeenNs |-> json.lastSeenNs]
      /\ json.timeseries \subseteq JsonMetricTimeseries
  BY DEF JsonMetricData
<1>2. ASSUME NEW s \in json.timeseries PROVE TimeseriesFromJSON(s) = s
  <2>1. s = [attributesKey |-> s.attributesKey, datapoints |-> s.datapoints]
    BY <1>1 DEF JsonMetricTimeseries
  <2> QED
    BY <2>1, ExactFact DEF TimeseriesFromJSON
<1>3. {TimeseriesFromJSON(s) : s \in json.timeseries} = json.timeseries
  BY <1>2
<1> QED
  BY <1>1, <1>3, ExactFact DEF MetricDataFromJSON

\* Neither do the pools.
LEMMA PoolsDecoded ==
  ASSUME NEW json \in JsonMetricAggregateEnvelope
  PROVE  [aggregate |-> json.aggregate, scalarAggregate |-> ScalarAggregateFromJSON(json.scalarAggregate)] = json
<1>1. /\ json = [aggregate |-> json.aggregate, scalarAggregate |-> json.scalarAggregate]
      /\ json.scalarAggregate = [selected |-> json.scalarAggregate.selected, all |-> json.scalarAggregate.all]
  BY DEF JsonMetricAggregateEnvelope
<1> QED
  BY <1>1 DEF ScalarAggregateFromJSON

\* The readings of a series are times, and those in a window are some of them.
LEMMA WindowFact ==
  ASSUME NEW db \in StoreType, NEW args, NEW s \in Series
  PROVE  /\ InWindow(db, args, s) \subseteq Times /\ InWindow(db, args, s) \subseteq db.readings[s]
         /\ args.startTime \in Int /\ args.endTime \in Int =>
              InWindow(db, args, s) = db.readings[s] \cap (args.startTime .. args.endTime)
<1>1. db.readings[s] \subseteq ReadingTimes /\ ReadingTimes \subseteq Times /\ Times \subseteq Nat
  BY WireAssumption DEF StoreType, Times
<1>2. InWindow(db, args, s) \subseteq db.readings[s]
  BY DEF InWindow
<1>3. ASSUME args.startTime \in Int, args.endTime \in Int
      PROVE  InWindow(db, args, s) = db.readings[s] \cap (args.startTime .. args.endTime)
  <2>0. \A t \in db.readings[s] : t \in Int
    <3>1. \A t \in db.readings[s] : t \in Nat
      BY <1>1
    <3> QED
      BY <3>1
  <2>1. \A t \in db.readings[s] : t \in args.startTime .. args.endTime <=> args.startTime <= t /\ t <= args.endTime
    BY <2>0, <1>3
  <2> QED
    BY <2>1 DEF InWindow
<1> QED
  BY <1>1, <1>2, <1>3

\* The server's answer to getMetric has its declared type.
LEMMA MetricServed ==
  ASSUME NEW db \in StoreType, NEW args
  PROVE  ServeMetric(db, args) \in JsonMetricData
<1> DEFINE K == Kept(db, args)
           seen == UNION {InWindow(db, args, s) : s \in K}
           data(s) == IF CarriesDatapoints(db, args, s) THEN InWindow(db, args, s) ELSE {}
<1>1. K \subseteq Series /\ \A s \in K : InWindow(db, args, s) # {}
  BY DEF Kept
<1>2. seen \subseteq Times
  BY <1>1, WindowFact
<1>3. K # {} => Max(seen) \in Times
  <2>1. K # {} => seen # {}
    BY <1>1
  <2>2. MaxAt \in Nat
    BY WireAssumption
  <2> HIDE DEF seen
  <2> QED
    BY <1>2, <2>1, <2>2, MaxFact DEF Times
<1>4. \A s \in K : [attributesKey |-> s, datapoints |-> data(s)] \in JsonMetricTimeseries
  <2> SUFFICES ASSUME NEW s \in K
               PROVE  [attributesKey |-> s, datapoints |-> data(s)] \in JsonMetricTimeseries
    OBVIOUS
  <2>1. s \in Series /\ data(s) \subseteq Times
    BY <1>1, WindowFact
  <2> HIDE DEF data
  <2> QED
    BY <2>1 DEF JsonMetricTimeseries
<1> DEFINE last == IF K = {} THEN Null ELSE Max(seen)
           rows == {[attributesKey |-> s, datapoints |-> data(s)] : s \in K}
<1>5. ServeMetric(db, args) = [timeseries |-> rows, lastSeenNs |-> last]
  BY DEF ServeMetric
<1>6. last \in Nullable(Times) /\ rows \subseteq JsonMetricTimeseries
  BY <1>3, <1>4 DEF Nullable
<1> HIDE DEF last, rows
<1> QED
  BY <1>5, <1>6 DEF JsonMetricData

\* And its answer to getMetricAggregate.
LEMMA PoolsServed ==
  ASSUME NEW db, NEW args
  PROVE  ServeAggregate(db, args) \in JsonMetricAggregateEnvelope
<1> DEFINE K == Kept(db, args)
           T == IF args.selectedSeriesIDs = Absent THEN {} ELSE K \cap args.selectedSeriesIDs
<1>1. K \subseteq Series /\ T \subseteq Series
  BY DEF Kept
<1>2. ServeAggregate(db, args) = [aggregate |-> K, scalarAggregate |-> [selected |-> T, all |-> K]]
  BY DEF ServeAggregate
<1> HIDE DEF K, T
<1> QED
  BY <1>1, <1>2 DEF JsonMetricAggregateEnvelope

\* The metric a page asked for, before the names of the variables come in.
AsAsked(db, a, value) ==
  LET at(b) == IF b.unit = "ms" THEN b.n * Ms ELSE b.n
      seen(s) == db.readings[s] \cap (at(a.window.start) .. at(a.window.end))
      keys == {ts.attributesKey : ts \in value.timeseries}
  IN  /\ keys = {s \in Series : seen(s) # {} /\ (a.seriesIDs # Absent => s \in a.seriesIDs)}
      /\ \A ts \in value.timeseries :
           /\ ts.datapoints \in {{}, seen(ts.attributesKey)}
           /\ a.datapointSeriesIDs # Absent => (ts.datapoints # {} <=> ts.attributesKey \in a.datapointSeriesIDs)
           /\ a.datapointSeriesIDs = Absent /\ a.datapointSeriesLimit \in {Absent, 0} => ts.datapoints # {}

\* The server serves the metric that was asked for.
LEMMA MetricAnswer ==
  ASSUME NEW db \in StoreType, NEW a \in GetMetric
  PROVE  AsAsked(db, a, ServeMetric(db, AskedMetric(a)))
<1> DEFINE args == AskedMetric(a)
           at(b) == IF b.unit = "ms" THEN b.n * Ms ELSE b.n
           seen(s) == db.readings[s] \cap (at(a.window.start) .. at(a.window.end))
           data(s) == IF CarriesDatapoints(db, args, s) THEN InWindow(db, args, s) ELSE {}
           rows == ServeMetric(db, args).timeseries
<1>1. a.window.start \in QueryTimeBound /\ a.window.end \in QueryTimeBound
  <2>1. a.window \in Window("ms") \cup Window("ns")
    BY DEF GetMetric
  <2>2. a.window \in [start: QueryTimeBound, end: QueryTimeBound]
    BY <2>1 DEF Window
  <2> QED
    BY <2>2
<1>2. /\ args.startTime = at(a.window.start) /\ args.startTime \in Int
      /\ args.endTime = at(a.window.end) /\ args.endTime \in Int
      /\ args.seriesIDs = a.seriesIDs /\ args.datapointSeriesIDs = a.datapointSeriesIDs
      /\ args.datapointSeriesLimit = IF a.datapointSeriesLimit = Absent THEN 0 ELSE a.datapointSeriesLimit
  BY <1>1, BoundFact DEF AskedMetric
<1> HIDE DEF args
<1>3. \A s \in Series : InWindow(db, args, s) = seen(s)
  BY <1>2, WindowFact
<1>4. rows = {[attributesKey |-> s, datapoints |-> data(s)] : s \in Kept(db, args)}
  BY DEF ServeMetric
<1> HIDE DEF rows, seen, data
<1>5. /\ \A s \in Kept(db, args) : \E ts \in rows : ts.attributesKey = s
      /\ \A ts \in rows : ts.attributesKey \in Kept(db, args) /\ ts.datapoints = data(ts.attributesKey)
  <2>1. ASSUME NEW s \in Kept(db, args) PROVE \E ts \in rows : ts.attributesKey = s
    <3>1. [attributesKey |-> s, datapoints |-> data(s)] \in rows
      BY <1>4
    <3> QED
      BY <3>1
  <2>2. ASSUME NEW ts \in rows
        PROVE  ts.attributesKey \in Kept(db, args) /\ ts.datapoints = data(ts.attributesKey)
    <3>1. PICK s \in Kept(db, args) : ts = [attributesKey |-> s, datapoints |-> data(s)]
      BY <1>4
    <3>2. ts.attributesKey = s /\ ts.datapoints = data(s)
      BY <3>1
    <3> QED
      BY <3>2
  <2> QED
    BY <2>1, <2>2
<1>6. Kept(db, args) = {s \in Series : seen(s) # {} /\ (a.seriesIDs # Absent => s \in a.seriesIDs)}
  BY <1>2, <1>3 DEF Kept
<1>7. {ts.attributesKey : ts \in rows} = Kept(db, args)
  BY <1>5
<1>8. ASSUME NEW ts \in rows
      PROVE  /\ ts.datapoints \in {{}, seen(ts.attributesKey)}
             /\ a.datapointSeriesIDs # Absent => (ts.datapoints # {} <=> ts.attributesKey \in a.datapointSeriesIDs)
             /\ a.datapointSeriesIDs = Absent /\ a.datapointSeriesLimit \in {Absent, 0} => ts.datapoints # {}
  <2> DEFINE s == ts.attributesKey
  <2>1. s \in Series /\ seen(s) # {} /\ ts.datapoints = IF CarriesDatapoints(db, args, s) THEN seen(s) ELSE {}
    BY <1>3, <1>5, <1>6 DEF data
  <2>2. args.datapointSeriesIDs # Absent => (CarriesDatapoints(db, args, s) <=> s \in args.datapointSeriesIDs)
    BY DEF CarriesDatapoints
  <2>3. args.datapointSeriesIDs = Absent /\ args.datapointSeriesLimit = 0 => CarriesDatapoints(db, args, s)
    BY DEF CarriesDatapoints
  <2> QED
    BY <1>2, <2>1, <2>2, <2>3
<1> QED
  BY <1>6, <1>7, <1>8 DEF AsAsked, rows, seen, args

\* The pools of a store, for a page that asked for every series.
LEMMA PoolsAnswer ==
  ASSUME NEW db \in StoreType, NEW a \in GetMetricAggregate, a.seriesIDs = Null
  PROVE  LET seen == {s \in Series : db.readings[s] \cap (a.window.start.n * Ms .. a.window.end.n * Ms) # {}}
             pools == ServeAggregate(db, AskedAggregate(a)).scalarAggregate
         IN  /\ pools.all = seen
             /\ pools.selected = IF a.selectedSeriesIDs = Absent THEN {} ELSE seen \cap a.selectedSeriesIDs
<1> DEFINE args == AskedAggregate(a)
<1>1. /\ a.window.start \in QueryTimeBound /\ a.window.end \in QueryTimeBound
      /\ a.window.start.unit = "ms" /\ a.window.end.unit = "ms"
  <2>1. a.window \in Window("ms")
    BY DEF GetMetricAggregate
  <2>2. a.window \in [start: QueryTimeBound, end: QueryTimeBound] /\ a.window.start.unit = "ms"
        /\ a.window.end.unit = "ms"
    BY <2>1 DEF Window
  <2> QED
    BY <2>2
<1>2. /\ args.startTime = a.window.start.n * Ms /\ args.startTime \in Int
      /\ args.endTime = a.window.end.n * Ms /\ args.endTime \in Int
      /\ args.seriesIDs = Absent /\ args.selectedSeriesIDs = a.selectedSeriesIDs
  BY <1>1, BoundFact DEF AskedAggregate
<1> HIDE DEF args
<1>3. Kept(db, args) = {s \in Series : db.readings[s] \cap (args.startTime .. args.endTime) # {}}
  BY <1>2, WindowFact DEF Kept
<1> QED
  BY <1>2, <1>3 DEF ServeAggregate, args

\* A number of the wire is a number, itself while it stays exact.
LEMMA NumberFact ==
  ASSUME NEW n \in Times
  PROVE  Number(n) \in Nat /\ (n <= Exact => Number(n) = n)
BY WireAssumption DEF Times

\* The baseline of a trace is its earliest start, and none of its ends is later
\* than the end of its card.
LEMMA BaselineFact ==
  ASSUME NEW db \in StoreType, InOrder(db)
  PROVE  LET last == Max({db.spans[x].end : x \in Spans}) IN
         /\ TraceStart(db) \in Times /\ last \in Times /\ TraceStart(db) <= last
         /\ \E x \in Spans : TraceStart(db) = db.spans[x].start
         /\ \E x \in Spans : last = db.spans[x].end
         /\ \A x \in Spans : /\ db.spans[x].start \in Times /\ db.spans[x].end \in Times
                             /\ db.spans[x].resource \in Resources
                             /\ TraceStart(db) <= db.spans[x].start /\ db.spans[x].start <= db.spans[x].end
                             /\ db.spans[x].end <= last
<1> DEFINE starts == {db.spans[x].start : x \in Spans}
           ends == {db.spans[x].end : x \in Spans}
           last == Max(ends)
<1>1. MaxAt \in Nat /\ Times = 0 .. MaxAt /\ 1 \in Spans
  BY WireAssumption DEF Times
<1>2. \A x \in Spans : /\ db.spans[x].start \in Times /\ db.spans[x].end \in Times
                       /\ db.spans[x].resource \in Resources
  BY DEF StoreType, Span
<1>3. /\ starts \subseteq Nat /\ starts # {} /\ starts \subseteq Times
      /\ ends \subseteq 0 .. MaxAt /\ ends # {}
  <2>1. Times \subseteq Nat
    BY <1>1
  <2> QED
    BY <1>1, <1>2, <2>1
<1>4. \A x \in Spans : db.spans[x].start \in starts /\ db.spans[x].end \in ends
  OBVIOUS
<1>5. /\ \A s \in starts : \E x \in Spans : s = db.spans[x].start
      /\ \A e \in ends : \E x \in Spans : e = db.spans[x].end
  OBVIOUS
<1>6. TraceStart(db) = Min(starts)
  BY DEF TraceStart
<1> HIDE DEF starts, ends
<1>7. TraceStart(db) \in starts /\ \A s \in starts : TraceStart(db) <= s
  BY <1>3, <1>6, MinFact
<1>8. last \in ends /\ \A e \in ends : e <= last
  BY <1>1, <1>3, MaxFact
<1> HIDE DEF last
<1>9. \A x \in Spans : db.spans[x].start <= db.spans[x].end
  BY DEF InOrder
<1>10. TraceStart(db) \in Times /\ last \in Times
  BY <1>1, <1>3, <1>7, <1>8
<1>11. TraceStart(db) <= last
  <2>1. /\ TraceStart(db) <= db.spans[1].start /\ db.spans[1].start <= db.spans[1].end
        /\ db.spans[1].end <= last /\ db.spans[1].start \in Times /\ db.spans[1].end \in Times
    BY <1>1, <1>2, <1>4, <1>7, <1>8, <1>9
  <2> QED
    BY <1>1, <1>10, <2>1
<1> QED
  BY <1>2, <1>4, <1>5, <1>7, <1>8, <1>9, <1>10, <1>11 DEF last, ends

\* A span as the page has it again.
RebuiltStart(db, x) == TraceStart(db) + Number(db.spans[x].start - TraceStart(db))
Rebuilt(db, q, x) ==
  [spanData |-> [spanID |-> x, traceID |-> 1, startTime |-> RebuiltStart(db, x),
                 endTime |-> RebuiltStart(db, x) + Number(db.spans[x].end - db.spans[x].start),
                 resource |-> db.spans[x].resource, events |-> {db.spans[x].start}],
   matched |-> Matched(db.spans[x], q), salvaged |-> IF db.shape = "cyclic" THEN TRUE ELSE Absent]
RebuiltTrace(db, q) == [traceID |-> 1, spans |-> {Rebuilt(db, q, x) : x \in Spans}]

\* Decoding a served trace gives the rebuilt one, of the right types.
LEMMA TraceServed ==
  ASSUME NEW db \in StoreType, InOrder(db), NEW q
  PROVE  /\ ServeTrace(db, q) \in JsonTraceData
         /\ TraceDataFromJSON(ServeTrace(db, q)) = RebuiltTrace(db, q)
         /\ RebuiltTrace(db, q) \in TraceData
<1> DEFINE json == ServeTrace(db, q)
           node(n) == LET startTime == TraceStart(db) + Number(n.spanData.start) IN
                      [spanData |-> [spanID |-> n.spanData.spanID, traceID |-> 1, startTime |-> startTime,
                                     endTime |-> startTime + Number(n.spanData.dur),
                                     resource |-> n.spanData.r, events |-> {ParseBigInt(e) : e \in n.spanData.events}],
                       matched |-> n.matched, salvaged |-> n.salvaged]
<1>1. /\ TraceStart(db) \in Times /\ Times \subseteq Nat /\ Times = 0 .. MaxAt /\ MaxAt \in Nat
      /\ \A x \in Spans : /\ db.spans[x].start \in Times /\ db.spans[x].end \in Times
                          /\ db.spans[x].resource \in Resources
                          /\ TraceStart(db) <= db.spans[x].start /\ db.spans[x].start <= db.spans[x].end
  <2>1. MaxAt \in Nat
    BY WireAssumption
  <2>2. Times = 0 .. MaxAt /\ Times \subseteq Nat
    BY <2>1 DEF Times
  <2> QED
    BY <2>1, <2>2, BaselineFact
<1>2. json = [traceStart |-> TraceStart(db), resources |-> Resources, spans |-> {ServeSpan(db, x, q) : x \in Spans}]
  BY DEF ServeTrace
<1>3. TraceDataFromJSON(json) = [traceID |-> 1, spans |-> {node(n) : n \in {ServeSpan(db, x, q) : x \in Spans}}]
  BY <1>2 DEF TraceDataFromJSON, ParseBigInt
<1>4. ASSUME NEW x \in Spans
      PROVE  /\ ServeSpan(db, x, q) \in JsonSpanNode /\ node(ServeSpan(db, x, q)) = Rebuilt(db, q, x)
             /\ Rebuilt(db, q, x) \in SpanNode
  <2> DEFINE s == db.spans[x]
             off == s.start - TraceStart(db)
             dur == s.end - s.start
             data == [spanID |-> x, start |-> off, dur |-> dur, r |-> s.resource, events |-> {s.start}]
             salvaged == IF db.shape = "cyclic" THEN TRUE ELSE Absent
             n == ServeSpan(db, x, q)
  <2>1. n = [spanData |-> data, matched |-> Matched(s, q), salvaged |-> salvaged]
    BY DEF ServeSpan
  <2>2. off \in Times /\ dur \in Times /\ s.start \in Times /\ s.resource \in Resources
    BY <1>1
  <2>3. Matched(s, q) \in BOOLEAN /\ salvaged \in Opt({TRUE})
    BY DEF Matched, Opt
  <2>4. data.spanID = x /\ data.start = off /\ data.dur = dur /\ data.r = s.resource /\ data.events = {s.start}
    OBVIOUS
  <2>5. data \in JsonSpanData
    BY <2>2 DEF JsonSpanData
  <2>6. Number(off) \in Nat /\ Number(dur) \in Nat
    BY <1>1, <2>2, NumberFact
  <2>7. Rebuilt(db, q, x) =
          [spanData |-> [spanID |-> x, traceID |-> 1, startTime |-> TraceStart(db) + Number(off),
                         endTime |-> TraceStart(db) + Number(off) + Number(dur),
                         resource |-> s.resource, events |-> {s.start}],
           matched |-> Matched(s, q), salvaged |-> salvaged]
    BY DEF Rebuilt, RebuiltStart
  <2>8. TraceStart(db) + Number(off) \in Nat /\ TraceStart(db) + Number(off) + Number(dur) \in Nat
    BY <1>1, <2>6
  <2> HIDE DEF off, dur, salvaged, data, n
  <2>9. n.spanData = data /\ n.matched = Matched(s, q) /\ n.salvaged = salvaged
    BY <2>1
  <2>10. node(n) = Rebuilt(db, q, x)
    BY <2>4, <2>7, <2>9, ExactFact
  <2>11. n \in JsonSpanNode
    BY <2>1, <2>3, <2>5 DEF JsonSpanNode
  <2>12. Rebuilt(db, q, x) \in SpanNode
    <3> DEFINE span == [spanID |-> x, traceID |-> 1, startTime |-> TraceStart(db) + Number(off),
                        endTime |-> TraceStart(db) + Number(off) + Number(dur),
                        resource |-> s.resource, events |-> {s.start}]
    <3>1. span \in SpanData
      BY <2>2, <2>8 DEF SpanData
    <3> HIDE DEF span
    <3>2. Rebuilt(db, q, x) = [spanData |-> span, matched |-> Matched(s, q), salvaged |-> salvaged]
      BY <2>7 DEF span
    <3> QED
      BY <2>3, <3>1, <3>2 DEF SpanNode
  <2> QED
    BY <2>10, <2>11, <2>12 DEF n
<1> HIDE DEF node, json
<1>5. {node(n) : n \in {ServeSpan(db, x, q) : x \in Spans}} = {Rebuilt(db, q, x) : x \in Spans}
  BY <1>4
<1>6. {ServeSpan(db, x, q) : x \in Spans} \subseteq JsonSpanNode /\ {Rebuilt(db, q, x) : x \in Spans} \subseteq SpanNode
  BY <1>4
<1>7. json \in JsonTraceData
  BY <1>1, <1>2, <1>6 DEF JsonTraceData
<1>8. RebuiltTrace(db, q) \in TraceData
  BY <1>6 DEF RebuiltTrace, TraceData
<1> QED
  BY <1>3, <1>5, <1>7, <1>8 DEF RebuiltTrace, json

\* Any trace short enough is rebuilt to the nanosecond, and a long one keeps
\* its span ids and resources.
LEMMA RehydratedFact ==
  ASSUME NEW db \in StoreType, InOrder(db), NEW q
  PROVE  LET d(n) == n.spanData
             value == RebuiltTrace(db, q)
             card == TraceSummaryFromJSON(ServeSummary(db))
             long == Max({db.spans[x].end : x \in Spans}) - TraceStart(db) > Exact
         IN  /\ \A x \in Spans : \E n \in value.spans :
                  /\ d(n).spanID = x /\ d(n).resource = db.spans[x].resource
                  /\ ~long => d(n).startTime = db.spans[x].start /\ d(n).endTime = db.spans[x].end
             /\ ~long => /\ card.startTime = Min({d(n).startTime : n \in value.spans})
                         /\ card.durationNs = Max({d(n).endTime : n \in value.spans}) - card.startTime
<1> DEFINE value == RebuiltTrace(db, q)
           card == TraceSummaryFromJSON(ServeSummary(db))
           last == Max({db.spans[x].end : x \in Spans})
           long == last - TraceStart(db) > Exact
<1>1. /\ TraceStart(db) \in Nat /\ last \in Nat /\ Exact \in Nat
      /\ \A x \in Spans : /\ db.spans[x].start \in Nat /\ db.spans[x].end \in Nat
                          /\ TraceStart(db) <= db.spans[x].start /\ db.spans[x].start <= db.spans[x].end
                          /\ db.spans[x].end <= last /\ db.spans[x].end \in 0 .. MaxAt
  <2>1. MaxAt \in Nat /\ Exact \in Nat
    BY WireAssumption
  <2>2. Times \subseteq Nat
    BY <2>1 DEF Times
  <2> QED
    BY <2>1, <2>2, BaselineFact DEF StoreType, Span, Times
<1>2. /\ card.startTime = TraceStart(db) /\ card.durationNs = last - TraceStart(db)
  BY ExactFact DEF TraceSummaryFromJSON, ServeSummary, ParseBigInt
<1>3. value.spans = {Rebuilt(db, q, x) : x \in Spans}
  BY DEF RebuiltTrace
<1> HIDE DEF value, card, last
<1>4. ASSUME NEW x \in Spans
      PROVE  LET n == Rebuilt(db, q, x) IN
             /\ n \in value.spans /\ n.spanData.spanID = x /\ n.spanData.resource = db.spans[x].resource
             /\ ~long => n.spanData.startTime = db.spans[x].start /\ n.spanData.endTime = db.spans[x].end
  <2> DEFINE n == Rebuilt(db, q, x)
             off == db.spans[x].start - TraceStart(db)
             dur == db.spans[x].end - db.spans[x].start
  <2>1. /\ n.spanData.spanID = x /\ n.spanData.resource = db.spans[x].resource
        /\ n.spanData.startTime = TraceStart(db) + Number(off)
        /\ n.spanData.endTime = TraceStart(db) + Number(off) + Number(dur)
    BY DEF Rebuilt, RebuiltStart
  <2>2. off \in Times /\ dur \in Times /\ (~long => off <= Exact /\ dur <= Exact)
    <3>1. MaxAt \in Nat
      BY WireAssumption
    <3> QED
      BY <1>1, <3>1 DEF Times
  <2>3. ~long => Number(off) = off /\ Number(dur) = dur
    <3> HIDE DEF off, dur, long
    <3> QED
      BY <2>2, NumberFact
  <2>4. TraceStart(db) + off = db.spans[x].start /\ TraceStart(db) + off + dur = db.spans[x].end
    BY <1>1
  <2> HIDE DEF off, dur
  <2>5. n \in value.spans
    BY <1>3
  <2> QED
    BY <2>1, <2>3, <2>4, <2>5
<1> HIDE DEF long
<1>5. \A n \in value.spans : \E x \in Spans : n = Rebuilt(db, q, x)
  BY <1>3
<1>6. ASSUME ~long
      PROVE  /\ {n.spanData.startTime : n \in value.spans} = {db.spans[x].start : x \in Spans}
             /\ {n.spanData.endTime : n \in value.spans} = {db.spans[x].end : x \in Spans}
  BY <1>4, <1>5, <1>6
<1>7. ASSUME ~long
      PROVE  /\ card.startTime = Min({n.spanData.startTime : n \in value.spans})
             /\ card.durationNs = Max({n.spanData.endTime : n \in value.spans}) - card.startTime
  BY <1>2, <1>6, <1>7 DEF TraceStart, last
<1>8. \A x \in Spans : \E n \in value.spans :
         /\ n.spanData.spanID = x /\ n.spanData.resource = db.spans[x].resource
         /\ ~long => n.spanData.startTime = db.spans[x].start /\ n.spanData.endTime = db.spans[x].end
  BY <1>4
<1> QED
  BY <1>7, <1>8 DEF value, card, long, last

\* The marks of a rebuilt trace are those the page's query describes.
LEMMA MarksFact ==
  ASSUME NEW db \in StoreType, NEW a \in SearchSpans, NEW n \in RebuiltTrace(db, RequestSearchSpans(a)).spans
  PROVE  n.matched <=> (a.queryTree = Absent \/ Means(db.spans[n.spanData.spanID], a.queryTree))
<1> DEFINE q == RequestSearchSpans(a)
           P == [traceID |-> 1, query |-> IF a.queryTree = Absent THEN Absent ELSE ConvertQueryTreeForBackend(a.queryTree)]
<1>1. PICK x \in Spans : n = Rebuilt(db, q, x)
  BY DEF RebuiltTrace
<1>2. n.spanData.spanID = x /\ n.matched = Matched(db.spans[x], q)
  BY <1>1 DEF Rebuilt
<1>3. q = Named(P) /\ P["query"] = IF a.queryTree = Absent THEN Absent ELSE ConvertQueryTreeForBackend(a.queryTree)
  BY DEF RequestSearchSpans
<1>4. "query" \in DOMAIN P
  OBVIOUS
<1> HIDE DEF P, q
<1>5. /\ "query" \in DOMAIN q <=> P["query"] # Absent
      /\ "query" \in DOMAIN q => q["query"] = P["query"]
  BY <1>3, <1>4, NamedFact
<1>6. CASE a.queryTree = Absent
  BY <1>2, <1>3, <1>5, <1>6 DEF Matched
<1>7. CASE a.queryTree # Absent
  <2>1. a.queryTree \in QueryTrees
    BY <1>7 DEF SearchSpans, Opt
  <2> DEFINE w == ConvertQueryTreeForBackend(a.queryTree)
  <2>2. w \in Seq(JsonQueryNode)
    BY <2>1, ConvertFact
  <2>3. w # Absent
    BY <2>2, SentinelsApart
  <2>4. (Len(w) \in BuildConditions(db.spans[x], w).clauses => Len(w) \in BuildConditions(db.spans[x], w).hold)
          <=> Means(db.spans[x], a.queryTree)
    BY <2>1, TreeFact
  <2> HIDE DEF w
  <2>5. "query" \in DOMAIN q /\ q.query = w
    BY <1>3, <1>5, <1>7, <2>3 DEF w
  <2>6. Matched(db.spans[x], q) <=> Means(db.spans[x], a.queryTree)
    BY <2>4, <2>5 DEF Matched
  <2> QED
    BY <1>2, <1>7, <2>6
<1> QED
  BY <1>6, <1>7

\* What the server finds for a call it takes.
Answer(db, a) ==
  CASE a.method = "getMetric" -> ServeMetric(db, AskedMetric(a))
    [] a.method = "getMetricAggregate" -> ServeAggregate(db, AskedAggregate(a))
    [] a.method = "searchSpans" -> ServeTrace(db, RequestSearchSpans(a))
    [] a.method = "searchTraces" -> IF db.trace THEN {ServeSummary(db)} ELSE {}
    [] a.method = "getLog" -> [timestamp |-> db.spans[1].start, observedTimestamp |-> db.spans[1].end]
    [] a.method = "getStats" -> [lastReceived |-> IF db.trace THEN db.spans[1].end ELSE Null]
    [] OTHER -> JsonAttributeType

\* A call has the method its arguments name.
LEMMA MethodFact ==
  ASSUME NEW a \in Arguments
  PROVE  \/ a \in GetMetric /\ a.method = "getMetric"
         \/ a \in GetMetricAggregate /\ a.method = "getMetricAggregate"
         \/ a \in SearchSpans /\ a.method = "searchSpans"
         \/ a.method \in {"searchTraces", "getLog", "getStats", "getTraceAttributes"}
BY DEF Arguments, GetMetric, GetMetricAggregate, SearchSpans, Other

\* The server refuses a call, does not find what it names, or answers it.
LEMMA HandleFact ==
  ASSUME NEW db, NEW a \in Arguments
  PROVE  \/ Handle(db, a) = RpcError(InvalidParams)
         \/ ~Held(db, a.method) /\ Handle(db, a) = RpcError(NotFoundCode(a.method))
         \/ Held(db, a.method) /\ Handle(db, a) = Result(Answer(db, a))
<1>1. CASE a \in GetMetric /\ a.method = "getMetric"
  <2>1. ParseGetMetricParams(NormalizeParams(RequestGetMetric(a))) = AskedMetric(a)
    BY <1>1, MetricParams
  <2> QED
    BY <1>1, <2>1 DEF Handle, Answer
<1>2. CASE a \in GetMetricAggregate /\ a.method = "getMetricAggregate"
  <2>1. ParseGetMetricParams(NormalizeParams(RequestGetMetricAggregate(a))) = AskedAggregate(a)
    BY <1>2, AggregateParams
  <2> QED
    BY <1>2, <2>1 DEF Handle, Answer
<1>3. CASE a.method \notin {"getMetric", "getMetricAggregate"}
  BY <1>3 DEF Handle, Answer
<1> QED
  BY <1>1, <1>2, <1>3, MethodFact

\* The error codes of a call.
LEMMA CodesFact ==
  /\ \A code : RpcError(code).error = code
  /\ \A r : Result(r).error = Absent /\ Result(r).result = r
  /\ InvalidParams = -32602
  /\ \A method : NotFoundCode(method) \in {-32001, -32002, -32003}
  /\ \A code \in {-32602, -32001, -32002, -32003} : code # Absent
<1>1. \A n \in Int : n # Absent
  BY ListsApart
<1>2. \A code \in {-32602, -32001, -32002, -32003} : code \in Int
  OBVIOUS
<1>3. \A method : NotFoundCode(method) \in {-32001, -32002, -32003}
  BY DEF NotFoundCode
<1> QED
  BY <1>1, <1>2, <1>3 DEF RpcError, Result, InvalidParams

\* An answer has the type its method declares, and decodes to what a view
\* expects, which is never null.
LEMMA AnswerFact ==
  ASSUME NEW db \in StoreType, InOrder(db), NEW a \in Arguments
  PROVE  LET value == Decoded(a.method, Answer(db, a)) IN
         /\ Answer(db, a) \in WireType(a.method) /\ value \in ApiType(a.method) /\ value # Null
         /\ a.method = "getMetric" => value = ServeMetric(db, AskedMetric(a))
         /\ a.method = "getMetricAggregate" => value = ServeAggregate(db, AskedAggregate(a))
         /\ a.method = "searchSpans" => value = RebuiltTrace(db, RequestSearchSpans(a))
<1> DEFINE r == Answer(db, a)
           value == Decoded(a.method, r)
<1> SUFFICES /\ r \in WireType(a.method) /\ value \in ApiType(a.method) /\ value # Null
             /\ a.method = "getMetric" => value = ServeMetric(db, AskedMetric(a))
             /\ a.method = "getMetricAggregate" => value = ServeAggregate(db, AskedAggregate(a))
             /\ a.method = "searchSpans" => value = RebuiltTrace(db, RequestSearchSpans(a))
  OBVIOUS
<1>0. /\ db.spans[1].start \in Times /\ db.spans[1].end \in Times
      /\ TraceStart(db) \in Times
      /\ Max({db.spans[x].end : x \in Spans}) \in Times /\ TraceStart(db) <= Max({db.spans[x].end : x \in Spans})
  BY BaselineFact, WireAssumption
<1>1. CASE a.method = "getMetric"
  <2>1. r = ServeMetric(db, AskedMetric(a)) /\ r \in JsonMetricData
    BY <1>1, MetricServed DEF Answer
  <2>2. value = r
    BY <1>1, <2>1, MetricDecoded DEF Decoded
  <2>3. JsonMetricData = MetricData
    BY DEF JsonMetricData, MetricData, JsonMetricTimeseries, MetricTimeseries
  <2>4. value # Null
    BY <2>1, <2>2, <2>3, SentinelsApart
  <2> HIDE DEF value, r
  <2> QED
    BY <1>1, <2>1, <2>2, <2>3, <2>4 DEF WireType, ApiType, Nullable
<1>2. CASE a.method = "getMetricAggregate"
  <2>1. r = ServeAggregate(db, AskedAggregate(a)) /\ r \in JsonMetricAggregateEnvelope
    BY <1>2, PoolsServed DEF Answer
  <2>2. value = r
    BY <1>2, <2>1, PoolsDecoded DEF Decoded
  <2>3. JsonMetricAggregateEnvelope = MetricAggregateEnvelope
    BY DEF JsonMetricAggregateEnvelope, MetricAggregateEnvelope
  <2>4. value # Null
    BY <2>1, <2>2, <2>3, SentinelsApart
  <2> HIDE DEF value, r
  <2> QED
    BY <1>2, <2>1, <2>2, <2>3, <2>4 DEF WireType, ApiType, Nullable
<1>3. CASE a.method = "searchSpans"
  <2>1. r = ServeTrace(db, RequestSearchSpans(a))
    BY <1>3 DEF Answer
  <2>2. value = RebuiltTrace(db, RequestSearchSpans(a)) /\ r \in JsonTraceData /\ value \in TraceData
    BY <1>3, <2>1, TraceServed DEF Decoded
  <2>3. value # Null
    BY <2>2, SentinelsApart
  <2> HIDE DEF value, r
  <2> QED
    BY <1>3, <2>2, <2>3 DEF WireType, ApiType
<1>4. CASE a.method = "searchTraces"
  <2> DEFINE card == ServeSummary(db)
             last == Max({db.spans[x].end : x \in Spans})
             root == IF db.shape \in {"orphan", "cyclic"} THEN Null ELSE [serviceName |-> IF db.shape = "named" THEN "svc" ELSE Null]
             read == TraceSummaryFromJSON(card)
  <2>1. card = [rootSpan |-> root, startTime |-> TraceStart(db), durationNs |-> last - TraceStart(db)]
    BY DEF ServeSummary
  <2>2. last - TraceStart(db) \in Times
    <3> HIDE DEF last
    <3>1. MaxAt \in Nat
      BY WireAssumption
    <3> QED
      BY <1>0, <3>1 DEF Times, last
  <2>3. root \in Nullable([serviceName: Nullable({"svc"})])
    BY DEF Nullable
  <2>4. card \in JsonTraceSummary
    <3> HIDE DEF root, last, card
    <3> QED
      BY <1>0, <2>1, <2>2, <2>3 DEF JsonTraceSummary
  <2> HIDE DEF card, root, last
  <2>5. read = [rootSpan |-> IF card.rootSpan = Null THEN Absent
                             ELSE [serviceName |-> IF card.rootSpan.serviceName = Null THEN "" ELSE card.rootSpan.serviceName],
                startTime |-> card.startTime, durationNs |-> card.durationNs]
    BY ExactFact DEF TraceSummaryFromJSON, ParseBigInt
  <2>6. read \in TraceSummary
    <3> DEFINE top == IF card.rootSpan = Null THEN Absent
                      ELSE [serviceName |-> IF card.rootSpan.serviceName = Null THEN "" ELSE card.rootSpan.serviceName]
    <3>1. card.rootSpan = Null \/ card.rootSpan.serviceName \in {"svc", Null}
      BY <2>4 DEF JsonTraceSummary, Nullable
    <3>2. top \in Opt([serviceName: {"", "svc"}])
      BY <3>1 DEF Opt
    <3>3. card.startTime \in Times /\ card.durationNs \in Times
      BY <2>4 DEF JsonTraceSummary
    <3> HIDE DEF top, read
    <3>4. read = [rootSpan |-> top, startTime |-> card.startTime, durationNs |-> card.durationNs]
      BY <2>5 DEF top
    <3> QED
      BY <3>2, <3>3, <3>4 DEF TraceSummary
  <2>7. r = IF db.trace THEN {card} ELSE {}
    BY <1>4 DEF Answer, card
  <2>8. value = {TraceSummaryFromJSON(s) : s \in r}
    BY <1>4 DEF Decoded
  <2> HIDE DEF value, r
  <2>9. value = (IF db.trace THEN {read} ELSE {}) /\ r \subseteq JsonTraceSummary
    BY <2>4, <2>7, <2>8
  <2>10. value # Null
    <3>1. Null # {read}
      BY <2>6, SentinelsApart
    <3>2. Null # {}
      BY ListsApart
    <3> QED
      BY <2>9, <3>1, <3>2
  <2> QED
    BY <1>4, <2>6, <2>9, <2>10 DEF WireType, ApiType
<1>5. CASE a.method = "getLog"
  <2>1. r = [timestamp |-> db.spans[1].start, observedTimestamp |-> db.spans[1].end]
    BY <1>5 DEF Answer
  <2>2. value = r
    BY <1>5, <2>1 DEF Decoded, LogDataFromJSON, ParseBigInt
  <2>3. r \in JsonLogData /\ r \in LogData
    BY <1>0, <2>1 DEF JsonLogData, LogData
  <2>4. value # Null
    BY <2>2, <2>3, SentinelsApart
  <2> HIDE DEF value, r
  <2> QED
    BY <1>5, <2>2, <2>3, <2>4 DEF WireType, ApiType
<1>6. CASE a.method = "getStats"
  <2>1. r = [lastReceived |-> IF db.trace THEN db.spans[1].end ELSE Null]
    BY <1>6 DEF Answer
  <2>2. value = r
    BY <1>6, <2>1, ExactFact DEF Decoded, StatsFromJSON
  <2>3. r \in JsonStats /\ r \in Stats
    BY <1>0, <2>1 DEF JsonStats, Stats, Nullable
  <2>4. value # Null
    BY <2>2, <2>3, SentinelsApart
  <2> HIDE DEF value, r
  <2> QED
    BY <1>6, <2>2, <2>3, <2>4 DEF WireType, ApiType
<1>7. CASE a.method = "getTraceAttributes"
  <2>1. r = JsonAttributeType
    BY <1>7 DEF Answer
  <2>2. value = {FieldTypeFromWire(t) : t \in r}
    BY <1>7 DEF Decoded, ConvertAttributesToFieldDefinitions
  <2> HIDE DEF value, r
  <2>3. value \subseteq FieldType
    <3>1. \A t \in JsonAttributeType : FieldTypeFromWire(t) \in FieldType
      BY DEF JsonAttributeType, FieldType, FieldTypeFromWire
    <3> QED
      BY <2>1, <2>2, <3>1
  <2>4. value # Null
    BY <2>3, SentinelsApart
  <2> QED
    BY <1>7, <2>1, <2>3, <2>4 DEF WireType, ApiType
<1> HIDE DEF value, r
<1>8. a.method \in {"getMetric", "getMetricAggregate", "searchSpans", "searchTraces", "getLog", "getStats",
                    "getTraceAttributes"}
  BY MethodFact
<1> QED
  BY <1>1, <1>2, <1>3, <1>4, <1>5, <1>6, <1>7, <1>8

\* What an answer's error says of it.
LEMMA ErrorFact ==
  ASSUME NEW db, NEW a \in Arguments
  PROVE  /\ Handle(db, a).error = Absent => Held(db, a.method) /\ Handle(db, a).result = Answer(db, a)
         /\ Handle(db, a).error = -32003 => ~Held(db, a.method)
         /\ ~Held(db, a.method) => Handle(db, a).error # Absent
<1>1. CASE Handle(db, a) = RpcError(InvalidParams)
  <2>1. Handle(db, a).error = -32602
    BY <1>1, CodesFact
  <2>2. -32602 # -32003
    OBVIOUS
  <2> QED
    BY <2>1, <2>2, CodesFact
<1>2. CASE ~Held(db, a.method) /\ Handle(db, a) = RpcError(NotFoundCode(a.method))
  <2>1. Handle(db, a).error \in {-32001, -32002, -32003}
    BY <1>2, CodesFact
  <2> QED
    BY <1>2, <2>1, CodesFact
<1>3. CASE Held(db, a.method) /\ Handle(db, a) = Result(Answer(db, a))
  BY <1>3, CodesFact
<1> QED
  BY <1>1, <1>2, <1>3, HandleFact

----------------------------------------------------------------------------
(* The life of a call.                                                     *)

MetricMethods == {"getMetric", "getMetricAggregate"}

\* What a call that resolved resolved to.
Outcome ==
  \/ call.value = Null /\ call.args.method \in MetricMethods /\ call.answer.error = -32003
  \/ call.answer.error = Absent /\ call.value = Decoded(call.args.method, call.answer.result)

IsCall == call = [phase |-> call.phase, args |-> call.args, aborted |-> call.aborted, answer |-> call.answer,
                  held |-> call.held, value |-> call.value, error |-> call.error]

\* The store of a call in progress cannot change once it was served, so its
\* answer is still what the store holds; the page either has the decoded
\* answer, or null for a metric the server did not find, or an error.
WireInv ==
  /\ stored \in StoreType /\ InOrder(stored)
  /\ IsCall /\ call.phase \in {"idle", "fetching", "reading", "resolved", "rejected"}
  /\ call.phase # "idle" => call.args \in Arguments
  /\ call.aborted => call.phase \in {"reading", "resolved", "rejected"}
  /\ call.phase \in {"reading", "resolved"} =>
       call.answer = Handle(stored, call.args) /\ call.held = Held(stored, call.args.method)
  /\ call.phase = "resolved" => Outcome
  /\ call.aborted /\ call.phase = "rejected" => IsAbortError(call.error) \/ call.answer.error # Absent

LEMMA WireInvInit == Init => WireInv
<1> SUFFICES ASSUME Init PROVE WireInv
  OBVIOUS
<1>1. call = Idle
  BY DEF Init
<1>2. IsCall /\ call.phase = "idle" /\ ~call.aborted
  BY <1>1 DEF IsCall, Idle
<1>3. MaxAt \in Nat /\ 0 \in Times /\ SpanTimes \subseteq Times /\ Min(Resources) \in Resources
  <2>1. MaxAt \in Nat /\ SpanTimes \subseteq Times /\ Resources \subseteq Nat /\ Resources # {}
    BY WireAssumption DEF Times
  <2>2. Min(Resources) \in Resources
    BY <2>1, MinFact
  <2>3. 0 \in Times
    BY <2>1 DEF Times
  <2> QED
    BY <2>1, <2>2, <2>3
<1>4. stored \in StoreType /\ InOrder(stored)
  <2>1. CASE \E r \in [Series -> SUBSET ReadingTimes] :
               stored = [stream |-> TRUE, readings |-> r, trace |-> FALSE, shape |-> "named", spans |-> [x \in Spans |-> PlainSpan]]
    <3>1. PICK r \in [Series -> SUBSET ReadingTimes] :
            stored = [stream |-> TRUE, readings |-> r, trace |-> FALSE, shape |-> "named", spans |-> [x \in Spans |-> PlainSpan]]
      BY <2>1
    <3>2. PlainSpan \in Span /\ PlainSpan.start = 0 /\ PlainSpan.end = 0
      BY <1>3 DEF PlainSpan, Span
    <3>3. stored.spans = [x \in Spans |-> PlainSpan]
      BY <3>1
    <3> QED
      BY <3>1, <3>2, <3>3 DEF StoreType, InOrder, Shapes
  <2>2. CASE \E f \in [Spans -> {s \in [start: SpanTimes, end: SpanTimes, resource: Resources] : s.start <= s.end}],
                shape \in Shapes :
               stored = [stream |-> FALSE, readings |-> [s \in Series |-> {}], trace |-> TRUE, shape |-> shape, spans |-> f]
    <3>1. PICK f \in [Spans -> {s \in [start: SpanTimes, end: SpanTimes, resource: Resources] : s.start <= s.end}],
               shape \in Shapes :
            stored = [stream |-> FALSE, readings |-> [s \in Series |-> {}], trace |-> TRUE, shape |-> shape, spans |-> f]
      BY <2>2
    <3>2. \A x \in Spans : f[x] \in Span /\ f[x].start <= f[x].end
      BY <1>3 DEF Span
    <3>3. f \in [Spans -> Span]
      BY <3>2
    <3>4. stored.spans = f
      BY <3>1
    <3> QED
      BY <3>1, <3>2, <3>3, <3>4 DEF StoreType, InOrder
  <2> QED
    BY <2>1, <2>2 DEF Init
<1> QED
  BY <1>2, <1>4 DEF WireInv

LEMMA WireInvNext == WireInv /\ [Next]_vars => WireInv'
<1> SUFFICES ASSUME WireInv, [Next]_vars PROVE WireInv'
  OBVIOUS
<1>1. CASE Ask
  <2>1. call.phase = "idle" /\ UNCHANGED stored
    BY <1>1 DEF Ask
  <2>2. PICK a \in Arguments : call' = [Idle EXCEPT !.phase = "fetching", !.args = a]
    BY <1>1 DEF Ask, Arguments
  <2>3. call'.phase = "fetching" /\ call'.args = a /\ call'.aborted = FALSE /\ IsCall'
    BY <2>2 DEF Idle, IsCall
  <2> QED
    BY <2>1, <2>3 DEF WireInv
<1>2. CASE Delete
  <2>1. call.phase = "fetching" /\ UNCHANGED call /\ stored' = [stored EXCEPT !.stream = FALSE, !.trace = FALSE]
    BY <1>2 DEF Delete
  <2>2. stored \in StoreType /\ InOrder(stored)
    BY DEF WireInv
  <2>3. stored' \in StoreType /\ stored'.spans = stored.spans
    BY <2>1, <2>2 DEF StoreType
  <2>4. InOrder(stored')
    BY <2>2, <2>3 DEF InOrder
  <2> QED
    BY <2>1, <2>3, <2>4 DEF WireInv, IsCall
<1>3. CASE Serve
  <2>1. /\ call.phase = "fetching" /\ UNCHANGED stored
        /\ call' = [call EXCEPT !.phase = "reading", !.answer = Handle(stored, call.args), !.held = Held(stored, call.args.method)]
    BY <1>3 DEF Serve
  <2>2. IsCall /\ call.args \in Arguments
    BY <2>1 DEF WireInv
  <2>3. /\ call'.phase = "reading" /\ call'.args = call.args /\ call'.aborted = call.aborted /\ IsCall'
        /\ call'.answer = Handle(stored, call.args) /\ call'.held = Held(stored, call.args.method)
    BY <2>1, <2>2 DEF IsCall
  <2> QED
    BY <2>1, <2>2, <2>3 DEF WireInv
<1>4. CASE NetworkFails
  <2>1. /\ call.phase = "fetching" /\ UNCHANGED stored
        /\ call' = [call EXCEPT !.phase = "rejected", !.error = "network"]
    BY <1>4 DEF NetworkFails, Reject
  <2>2. IsCall /\ call.args \in Arguments /\ ~call.aborted
    BY <2>1 DEF WireInv
  <2>3. /\ call'.phase = "rejected" /\ call'.args = call.args /\ call'.aborted = call.aborted /\ IsCall'
    BY <2>1, <2>2 DEF IsCall
  <2> QED
    BY <2>1, <2>2, <2>3 DEF WireInv
<1>5. CASE Abort
  <2>1. call.phase \in {"fetching", "reading"} /\ UNCHANGED stored /\ IsCall /\ call.args \in Arguments
    BY <1>5 DEF Abort, WireInv
  <2>2. CASE call' = [call EXCEPT !.aborted = TRUE, !.phase = "rejected",
                             !.error = IF call.phase = "fetching" THEN "RequestAbortedError" ELSE "AbortError"]
    <3>1. /\ call'.phase = "rejected" /\ call'.args = call.args /\ IsCall'
          /\ call'.error \in {"RequestAbortedError", "AbortError"}
      BY <2>1, <2>2 DEF IsCall
    <3>2. IsAbortError(call'.error)
      BY <3>1 DEF IsAbortError
    <3> QED
      BY <2>1, <3>1, <3>2 DEF WireInv
  <2>3. CASE call.phase = "reading" /\ call' = [call EXCEPT !.aborted = TRUE]
    <3>1. /\ call'.phase = "reading" /\ call'.args = call.args /\ IsCall'
          /\ call'.answer = call.answer /\ call'.held = call.held
      BY <2>1, <2>3 DEF IsCall
    <3> QED
      BY <2>1, <2>3, <3>1 DEF WireInv
  <2> QED
    BY <1>5, <2>2, <2>3 DEF Abort
<1>6. CASE Read
  <2>1. call.phase = "reading" /\ UNCHANGED stored
    BY <1>6 DEF Read
  <2>2. /\ IsCall /\ call.args \in Arguments
        /\ call.answer = Handle(stored, call.args) /\ call.held = Held(stored, call.args.method)
    BY <2>1 DEF WireInv
  <2>3. CASE /\ call.answer.error # Absent /\ call.args.method \in MetricMethods /\ IsNotFound(call.answer.error)
             /\ call' = [call EXCEPT !.phase = "resolved", !.value = Null]
    <3>1. /\ call'.phase = "resolved" /\ call'.args = call.args /\ call'.aborted = call.aborted /\ IsCall'
          /\ call'.answer = call.answer /\ call'.held = call.held /\ call'.value = Null
      BY <2>2, <2>3 DEF IsCall
    <3>2. Outcome'
      BY <2>3, <3>1 DEF Outcome, IsNotFound
    <3> QED
      BY <2>1, <2>2, <3>1, <3>2 DEF WireInv
  <2>4. CASE call.answer.error # Absent /\ call' = [call EXCEPT !.phase = "rejected", !.error = "JsonRpcError"]
    <3>1. /\ call'.phase = "rejected" /\ call'.args = call.args /\ IsCall' /\ call'.answer = call.answer
      BY <2>2, <2>4 DEF IsCall
    <3> QED
      BY <2>1, <2>2, <2>4, <3>1 DEF WireInv
  <2>5. CASE /\ call.answer.error = Absent
             /\ call' = [call EXCEPT !.phase = "resolved", !.value = Decoded(call.args.method, call.answer.result)]
    <3>1. /\ call'.phase = "resolved" /\ call'.args = call.args /\ call'.aborted = call.aborted /\ IsCall'
          /\ call'.answer = call.answer /\ call'.held = call.held
          /\ call'.value = Decoded(call.args.method, call.answer.result)
      BY <2>2, <2>5 DEF IsCall
    <3>2. Outcome'
      BY <2>5, <3>1 DEF Outcome
    <3> QED
      BY <2>1, <2>2, <3>1, <3>2 DEF WireInv
  <2> QED
    BY <1>6, <2>3, <2>4, <2>5 DEF Read, Reject, MetricMethods
<1>7. CASE UNCHANGED vars
  BY <1>7 DEF WireInv, IsCall, Outcome, vars
<1> QED
  BY <1>1, <1>2, <1>3, <1>4, <1>5, <1>6, <1>7 DEF Next

LEMMA WireInvHolds == Spec => []WireInv
BY WireInvInit, WireInvNext, PTL DEF Spec

\* What a resolved call handed over.
LEMMA ResolvedFact ==
  ASSUME WireInv, call.phase = "resolved"
  PROVE  \/ /\ call.value = Null /\ call.args.method \in MetricMethods
            /\ call.answer.error = -32003 /\ ~call.held
         \/ /\ call.value # Null /\ call.value = Decoded(call.args.method, Answer(stored, call.args))
            /\ call.answer.error = Absent /\ call.held
<1>1. /\ stored \in StoreType /\ InOrder(stored) /\ call.args \in Arguments
      /\ call.answer = Handle(stored, call.args) /\ call.held = Held(stored, call.args.method) /\ Outcome
  BY DEF WireInv
<1>2. CASE call.value = Null /\ call.args.method \in MetricMethods /\ call.answer.error = -32003
  BY <1>1, <1>2, ErrorFact
<1>3. CASE call.answer.error = Absent /\ call.value = Decoded(call.args.method, call.answer.result)
  <2>1. call.held /\ call.answer.result = Answer(stored, call.args)
    BY <1>1, <1>3, ErrorFact
  <2>2. Decoded(call.args.method, Answer(stored, call.args)) # Null
    BY <1>1, AnswerFact
  <2> QED
    BY <1>3, <2>1, <2>2
<1> QED
  BY <1>1, <1>2, <1>3 DEF Outcome

\* A method names the kind of its arguments.
LEMMA KindFact ==
  ASSUME NEW a \in Arguments
  PROVE  /\ a.method = "getMetric" => a \in GetMetric
         /\ a.method = "getMetricAggregate" => a \in GetMetricAggregate
         /\ a.method = "searchSpans" => a \in SearchSpans
BY MethodFact

----------------------------------------------------------------------------
(* The theorems.                                                           *)

\* What was asked is what is answered, and it has the types both ends declare
\* for it, whatever the window, the series named and the store
\* (telemetry-service.ts, named_params.go).
THEOREM WireAskedIsAnswered == Spec => []AskedIsAnswered
<1>1. WireInv => AskedIsAnswered
  <2> SUFFICES ASSUME WireInv PROVE AskedIsAnswered
    OBVIOUS
  <2>1. stored \in StoreType /\ InOrder(stored)
    BY DEF WireInv
  <2>2. TypeOK
    <3>1. ASSUME call.phase = "reading", call.answer.error = Absent
          PROVE  call.answer.result \in WireType(call.args.method)
      <4>1. call.args \in Arguments /\ call.answer = Handle(stored, call.args)
        BY <3>1 DEF WireInv
      <4>2. call.answer.result = Answer(stored, call.args)
        BY <3>1, <4>1, ErrorFact
      <4> QED
        BY <2>1, <4>1, <4>2, AnswerFact
    <3>2. ASSUME call.phase = "resolved" PROVE call.value \in ApiType(call.args.method)
      <4>1. call.args \in Arguments
        BY <3>2 DEF WireInv
      <4>2. CASE call.value = Null /\ call.args.method \in MetricMethods
        BY <4>2 DEF ApiType, Nullable, MetricMethods
      <4>3. CASE call.value = Decoded(call.args.method, Answer(stored, call.args))
        BY <2>1, <4>1, <4>3, AnswerFact
      <4> QED
        BY <3>2, <4>2, <4>3, ResolvedFact
    <3>3. call.phase \in {"idle", "fetching", "reading", "resolved", "rejected"}
      BY DEF WireInv
    <3> QED
      BY <3>1, <3>2, <3>3 DEF TypeOK
  <2>3. MetricAsAsked
    <3> SUFFICES ASSUME Resolved("getMetric"), call.value # Null
                 PROVE  AsAsked(stored, call.args, call.value)
      BY DEF MetricAsAsked, AsAsked
    <3>1. call.phase = "resolved" /\ call.args.method = "getMetric" /\ call.args \in Arguments
      BY DEF Resolved, WireInv
    <3>2. call.args \in GetMetric
      BY <3>1, KindFact
    <3>3. call.value = Decoded(call.args.method, Answer(stored, call.args))
      BY <3>1, ResolvedFact
    <3>4. call.value = ServeMetric(stored, AskedMetric(call.args))
      BY <2>1, <3>1, <3>3, AnswerFact
    <3> QED
      BY <2>1, <3>2, <3>4, MetricAnswer
  <2>4. PoolsAsAsked
    <3> SUFFICES ASSUME Resolved("getMetricAggregate"), call.value # Null, call.args.seriesIDs = Null
                 PROVE  LET seen == {s \in Series : stored.readings[s] \cap (call.args.window.start.n * Ms .. call.args.window.end.n * Ms) # {}} IN
                        /\ call.value.scalarAggregate.all = seen
                        /\ call.value.scalarAggregate.selected = IF call.args.selectedSeriesIDs = Absent THEN {} ELSE seen \cap call.args.selectedSeriesIDs
      BY DEF PoolsAsAsked
    <3>1. call.phase = "resolved" /\ call.args.method = "getMetricAggregate" /\ call.args \in Arguments
      BY DEF Resolved, WireInv
    <3>2. call.args \in GetMetricAggregate
      BY <3>1, KindFact
    <3>3. call.value = Decoded(call.args.method, Answer(stored, call.args))
      BY <3>1, ResolvedFact
    <3>4. call.value = ServeAggregate(stored, AskedAggregate(call.args))
      BY <2>1, <3>1, <3>3, AnswerFact
    <3> QED
      BY <2>1, <3>2, <3>4, PoolsAnswer
  <2> QED
    BY <2>2, <2>3, <2>4 DEF AskedIsAnswered
<1> QED
  BY <1>1, WireInvHolds, PTL

\* A trace on the page is the stored one, to the nanosecond while its numbers
\* are exact, and its marks are what the query tree says however the conditions
\* nest (traceDataFromJSON, convertQueryTreeForBackend).
THEOREM WireTraceAsStored == Spec => []TraceAsStored
<1>1. WireInv => TraceAsStored
  <2> SUFFICES ASSUME WireInv, Resolved("searchSpans")
               PROVE  /\ TraceRehydrated
                      /\ \A n \in call.value.spans :
                           n.matched <=> (call.args.queryTree = Absent \/ Means(stored.spans[n.spanData.spanID], call.args.queryTree))
    BY DEF TraceAsStored, TraceRehydrated, MatchedAsQueried
  <2>1. /\ call.phase = "resolved" /\ call.args.method = "searchSpans" /\ call.args \in Arguments
        /\ stored \in StoreType /\ InOrder(stored)
    BY DEF Resolved, WireInv
  <2>2. call.args \in SearchSpans
    BY <2>1, KindFact
  <2>3. call.value = Decoded(call.args.method, Answer(stored, call.args))
    BY <2>1, ResolvedFact DEF MetricMethods
  <2>4. call.value = RebuiltTrace(stored, RequestSearchSpans(call.args))
    BY <2>1, <2>3, AnswerFact
  <2>5. TraceRehydrated
    <3> DEFINE q == RequestSearchSpans(call.args)
               value == RebuiltTrace(stored, q)
               card == TraceSummaryFromJSON(ServeSummary(stored))
               long == Max({stored.spans[x].end : x \in Spans}) - TraceStart(stored) > Exact
    <3>1. /\ \A x \in Spans : \E n \in value.spans :
               /\ n.spanData.spanID = x /\ n.spanData.resource = stored.spans[x].resource
               /\ ~long => n.spanData.startTime = stored.spans[x].start /\ n.spanData.endTime = stored.spans[x].end
          /\ ~long => /\ card.startTime = Min({n.spanData.startTime : n \in value.spans})
                      /\ card.durationNs = Max({n.spanData.endTime : n \in value.spans}) - card.startTime
      <4> HIDE DEF q
      <4> QED
        BY <2>1, RehydratedFact
    <3> HIDE DEF long, card
    <3>2. value = call.value
      BY <2>4
    <3> HIDE DEF value
    <3> QED
      BY <3>1, <3>2 DEF TraceRehydrated, long, card
  <2>6. \A n \in call.value.spans :
          n.matched <=> (call.args.queryTree = Absent \/ Means(stored.spans[n.spanData.spanID], call.args.queryTree))
    BY <2>1, <2>2, <2>4, MarksFact
  <2> QED
    BY <2>5, <2>6
<1> QED
  BY <1>1, WireInvHolds, PTL

\* null is a metric that was not there and nothing else, and a call the page
\* gave up ends silently or with the answer it had (isNotFound, isAbortError).
THEOREM WireOutcomesToldApart == Spec => []OutcomesToldApart
<1>1. WireInv => OutcomesToldApart
  <2> SUFFICES ASSUME WireInv PROVE MissingIsNull /\ AbandonedIsSilent
    BY DEF OutcomesToldApart
  <2>1. MissingIsNull
    <3>1. Absent # -32003
      BY CodesFact
    <3> QED
      BY <3>1, ResolvedFact DEF MissingIsNull
  <2>2. AbandonedIsSilent
    BY DEF WireInv, AbandonedIsSilent
  <2> QED
    BY <2>1, <2>2
<1> QED
  BY <1>1, WireInvHolds, PTL
=============================================================================
