-------------------------------- MODULE Wire --------------------------------
(***************************************************************************)
(* One call over the wire: services/telemetry-service.ts builds a request  *)
(* with named parameters, the server puts them back in their places        *)
(* (normalizeParams), parses them and asks the store, and the service      *)
(* decodes the answer into what the views read.                            *)
(*                                                                         *)
(* An action is one step another party can slip in between: the page asks, *)
(* the server answers, the body is read, the page gives the call up, the   *)
(* network fails, a delete lands.  Nothing is kept between calls, so one   *)
(* call is all there is.  Times are nanoseconds and Ms of them make a      *)
(* millisecond.  A time travels as a string; offsets and durations travel  *)
(* as JSON numbers, which are exact up to Exact and doubles beyond it.  A  *)
(* series, a resource and a condition are members of small sets; a name,   *)
(* an attribute and a body are left out, and so are the parameters that    *)
(* only say how finely to reduce.                                          *)
(***************************************************************************)
EXTENDS Integers, FiniteSets, Sequences, FiniteSetsExt

CONSTANTS Absent,    \* undefined, or a key that is not there
          Null,      \* null
          Ms,        \* nanoseconds in a millisecond
          Exact,     \* numbers up to here are exact: Number.MAX_SAFE_INTEGER
          Number(_), \* JSON.parse of a number: the nearest double
          Series,    \* series ids
          Spans,     \* span ids; the first, 1, also gives the log its times
          Resources, \* resources, and what a condition compares
          QueryTrees,\* the query trees the page may search with
          MaxAt,     \* bound on a time
          ReadingTimes, SpanTimes \* the times readings and spans are at

ASSUME WireAssumption ==
  /\ {Ms, Exact, MaxAt} \subseteq Nat \ {0} /\ Series \cup Spans \subseteq Nat
  /\ \A n \in 0 .. MaxAt : Number(n) \in Nat /\ (n <= Exact => Number(n) = n)
  /\ IsFiniteSet(Series) /\ 1 \in Spans /\ Resources \subseteq Nat /\ Resources # {}
  /\ ReadingTimes \cup SpanTimes \subseteq 0 .. MaxAt

VARIABLES
  stored, \* the store: the readings of a stream, the spans of a trace
  call    \* the call in progress, from the page to its outcome

vars == <<stored, call>>

Times == 0 .. MaxAt
Opt(S) == S \cup {Absent}
Nullable(S) == S \cup {Null}

----------------------------------------------------------------------------
(* What the page asks for, the wire's types and the views' types *)

\* A window's end: milliseconds, or exact nanoseconds as a bigint.
QueryTimeBound == [unit: {"ms"}, n: 0 .. MaxAt \div Ms] \cup [unit: {"ns"}, n: Times]
Window(unit) == {w \in [start: QueryTimeBound, end: QueryTimeBound] :
                   /\ w.start.unit = unit /\ w.end.unit = unit /\ w.start.n <= w.end.n}

\* A query tree is its nodes, a group after the children it numbers, the root last.
Condition == [type: {"condition"}, op: {"=", "!="}, value: Resources]
Group(children) == [type: {"group"}, operator: {"AND", "OR"}, children: children]
QueryTree(t) == t # <<>> /\ \A i \in 1 .. Len(t) : t[i] \in Condition \cup Group(SUBSET (1 .. i - 1))

JsonQueryNode == [type: {"condition"}, fieldOperator: {"=", "!="}, value: Resources]
  \cup [type: {"group"}, logicalOperator: {"AND", "OR"}, children: SUBSET Nat]

ASSUME QueryTreesAssumption ==
  \A t \in QueryTrees : t \in Seq(Condition \cup Group(SUBSET Nat)) /\ QueryTree(t)

GetMetric == [method: {"getMetric"}, window: Window("ms") \cup Window("ns"), targetBuckets: Opt({0}),
              seriesIDs: Opt(SUBSET Series), datapointSeriesIDs: Opt(SUBSET Series), datapointSeriesLimit: Opt({0, 1})]
GetMetricAggregate == [method: {"getMetricAggregate"}, window: Window("ms"), targetBuckets: {0},
                       seriesIDs: Nullable(SUBSET Series), selectedSeriesIDs: Opt(SUBSET Series)]
SearchSpans == [method: {"searchSpans"}, queryTree: Opt(QueryTrees)]
Other == [method: {"searchTraces", "getLog", "getStats", "getTraceAttributes"}]

\* What the store serves: offsets and durations are numbers, times are strings.
JsonSpanData == [spanID: Spans, start: Times, dur: Times, r: Resources, events: SUBSET Times]
JsonSpanNode == [spanData: JsonSpanData, matched: BOOLEAN, salvaged: Opt({TRUE})]
JsonTraceData == [traceStart: Times, resources: {Resources}, spans: SUBSET JsonSpanNode]
JsonTraceSummary == [rootSpan: Nullable([serviceName: Nullable({"svc"})]), startTime: Times, durationNs: Times]
JsonMetricTimeseries == [attributesKey: Series, datapoints: SUBSET Times]
JsonMetricData == [timeseries: SUBSET JsonMetricTimeseries, lastSeenNs: Nullable(Times)]
JsonMetricAggregateEnvelope == [aggregate: SUBSET Series, scalarAggregate: [selected: SUBSET Series, all: SUBSET Series]]
JsonLogData == [timestamp: Times, observedTimestamp: Times]
JsonStats == [lastReceived: Nullable(Times)]
JsonAttributeType == {"string", "int64", "bool", "boolean[]"}

\* What the views read.
SpanData == [spanID: Spans, traceID: {1}, startTime: Nat, endTime: Nat, resource: Resources, events: SUBSET Times]
SpanNode == [spanData: SpanData, matched: BOOLEAN, salvaged: Opt({TRUE})]
TraceData == [traceID: {1}, spans: SUBSET SpanNode]
TraceSummary == [rootSpan: Opt([serviceName: {"", "svc"}]), startTime: Times, durationNs: Times]
MetricTimeseries == [attributesKey: Series, datapoints: SUBSET Times]
MetricData == [timeseries: SUBSET MetricTimeseries, lastSeenNs: Nullable(Times)]
MetricAggregateEnvelope == [aggregate: SUBSET Series, scalarAggregate: [selected: SUBSET Series, all: SUBSET Series]]
LogData == [timestamp: Times, observedTimestamp: Times]
Stats == [lastReceived: Nullable(Times)]
FieldType == {"string", "int64", "boolean", "boolean[]"}

\* undefined and null are no number, list or object.
ASSUME SentinelsApart ==
  /\ Absent # Null
  /\ \A v \in {Absent, Null} : v \notin Int /\ v \notin Seq(JsonQueryNode) /\ \A T \in SUBSET Series : v # T
  /\ Null \notin MetricData /\ Null \notin MetricAggregateEnvelope /\ Null \notin TraceData
  /\ Null \notin LogData /\ Null \notin Stats
  /\ \A card \in TraceSummary : Null # {card}
  /\ \A T \in SUBSET FieldType : Null # T

----------------------------------------------------------------------------
(* The request *)

ToNanoseconds(milliseconds) == milliseconds * Ms

BoundToNanoseconds(bound) == IF bound.unit = "ns" THEN bound.n ELSE ToNanoseconds(bound.n)

\* named: the keys the caller never supplied are dropped; null and [] stay.
Named(params) == [k \in {x \in DOMAIN params : params[x] # Absent} |-> params[k]]

\* convertQueryTreeForBackend keeps a condition and a group, children included.
ToCondition(n) == [type |-> "condition", fieldOperator |-> n.op, value |-> n.value]
\* Mutant: every group goes out as AND.
ConvertQueryTreeForBackend_And(t) ==
  [i \in 1 .. Len(t) |-> IF t[i].type = "condition" THEN ToCondition(t[i])
                         ELSE [type |-> "group", logicalOperator |-> "AND", children |-> t[i].children]]
ConvertQueryTreeForBackend(t) ==
  [i \in 1 .. Len(t) |-> IF t[i].type = "condition" THEN ToCondition(t[i])
                         ELSE [type |-> "group", logicalOperator |-> t[i].operator, children |-> t[i].children]]

RequestGetMetric(a) == Named([streamID |-> 1, startTime |-> BoundToNanoseconds(a.window.start), endTime |-> BoundToNanoseconds(a.window.end),
  targetBuckets |-> a.targetBuckets, seriesIDs |-> a.seriesIDs, datapointSeriesIDs |-> a.datapointSeriesIDs,
  datapointSeriesLimit |-> a.datapointSeriesLimit])
RequestGetMetricAggregate(a) == Named([streamID |-> 1, startTime |-> ToNanoseconds(a.window.start.n), endTime |-> ToNanoseconds(a.window.end.n),
  targetBuckets |-> a.targetBuckets, seriesIDs |-> a.seriesIDs,
  selectedSeriesIDs |-> IF a.selectedSeriesIDs = Absent THEN Null ELSE a.selectedSeriesIDs])
RequestSearchSpans(a) == Named([traceID |-> 1, query |-> IF a.queryTree = Absent THEN Absent ELSE ConvertQueryTreeForBackend(a.queryTree)])

----------------------------------------------------------------------------
(* The server: named parameters back into their places, then parsed *)

MethodParamNames == <<"streamID", "startTime", "endTime", "targetBuckets", "seriesIDs",
                      "selectedSeriesIDs", "datapointSeriesIDs", "datapointSeriesLimit">>

\* normalizeParams: a gap becomes null, what follows the last one is not sent.
NormalizeParams(q) ==
  LET highest == CHOOSE i \in DOMAIN MethodParamNames :
                   /\ MethodParamNames[i] \in DOMAIN q
                   /\ \A j \in DOMAIN MethodParamNames : MethodParamNames[j] \in DOMAIN q => j <= i
  IN  [i \in 1 .. highest |-> IF MethodParamNames[i] \in DOMAIN q THEN q[MethodParamNames[i]] ELSE Null]

\* An optional parameter: absent and null are the default.
Optional(params, i, default) == IF Len(params) >= i /\ params[i] # Null THEN params[i] ELSE default

\* parseGetMetricParams: targetBuckets alone is parsed without a look for null.
\* Mutant: an empty list of series is left a nil slice, which is every series.
ParseGetMetricParams_NilSlice(params) ==
  LET ids(i) == IF Optional(params, i, {}) = {} THEN Absent ELSE params[i]
  IN [startTime |-> params[2], endTime |-> params[3], seriesIDs |-> ids(5),
      selectedSeriesIDs |-> ids(6), datapointSeriesIDs |-> ids(7), datapointSeriesLimit |-> Optional(params, 8, 0)]
ParseGetMetricParams(params) ==
  [startTime |-> params[2], endTime |-> params[3], seriesIDs |-> Optional(params, 5, Absent),
   selectedSeriesIDs |-> Optional(params, 6, Absent), datapointSeriesIDs |-> Optional(params, 7, Absent),
   datapointSeriesLimit |-> Optional(params, 8, 0)]
ParamsRefused(params) == Len(params) < 3 \/ (Len(params) >= 4 /\ params[4] = Null)

----------------------------------------------------------------------------
(* The answer of a store db *)

InWindow(db, args, s) == {t \in db.readings[s] : args.startTime <= t /\ t <= args.endTime}
Kept(db, args) == {s \in Series : InWindow(db, args, s) # {} /\ (args.seriesIDs = Absent \/ s \in args.seriesIDs)}
\* Latest activity first, ties broken by id.
Ahead(db, args, a, b) == LET A == Max(InWindow(db, args, a)) B == Max(InWindow(db, args, b)) IN A > B \/ (A = B /\ a < b)
Rank(db, args, s) == 1 + Cardinality({a \in Kept(db, args) : a # s /\ Ahead(db, args, a, s)})

\* datapoint_series_allowed: a named list wins, then a limit, then everything.
CarriesDatapoints(db, args, s) ==
  \/ args.datapointSeriesIDs # Absent /\ s \in args.datapointSeriesIDs
  \/ args.datapointSeriesIDs = Absent /\ args.datapointSeriesLimit > 0 /\ Rank(db, args, s) <= args.datapointSeriesLimit
  \/ args.datapointSeriesIDs = Absent /\ args.datapointSeriesLimit = 0

ServeMetric(db, args) ==
  [timeseries |-> {[attributesKey |-> s, datapoints |-> IF CarriesDatapoints(db, args, s) THEN InWindow(db, args, s) ELSE {}] : s \in Kept(db, args)},
   lastSeenNs |-> IF Kept(db, args) = {} THEN Null ELSE Max(UNION {InWindow(db, args, s) : s \in Kept(db, args)})]
\* The pools: the merge folds what was kept, Selected what is named of it.
ServeAggregate(db, args) ==
  [aggregate |-> Kept(db, args),
   scalarAggregate |-> [selected |-> IF args.selectedSeriesIDs = Absent THEN {} ELSE Kept(db, args) \cap args.selectedSeriesIDs, all |-> Kept(db, args)]]

\* BuildConditions: which nodes turn into a clause, and which clauses hold of a
\* span.  A group none of whose children is one is none; the others are joined.
BuildConditions(span, q) ==
  LET built[i \in 0 .. Len(q)] ==
        IF i = 0 THEN [clauses |-> {}, hold |-> {}]
        ELSE LET below == q[i].children \cap built[i - 1].clauses
                 Clause(holds) == [clauses |-> built[i - 1].clauses \cup {i},
                                   hold |-> built[i - 1].hold \cup (IF holds THEN {i} ELSE {})]
             IN  IF q[i].type = "condition" THEN Clause((q[i].value = span.resource) <=> (q[i].fieldOperator = "="))
                 ELSE IF below = {} THEN built[i - 1]
                 ELSE Clause(IF q[i].logicalOperator = "AND" THEN below \subseteq built[i - 1].hold
                             ELSE below \cap built[i - 1].hold # {})
  IN built[Len(q)]
Matched(span, r) ==
  "query" \in DOMAIN r => LET built == BuildConditions(span, r.query) root == Len(r.query) IN
                           root \in built.clauses => root \in built.hold

TraceStart(db) == Min({db.spans[x].start : x \in Spans})
\* span_data_json: an offset from the baseline and a duration.
ServeSpan(db, x, q) ==
  LET span == db.spans[x] IN
  [spanData |-> [spanID |-> x, start |-> span.start - TraceStart(db), dur |-> span.end - span.start, r |-> span.resource, events |-> {span.start}],
   matched |-> Matched(span, q), salvaged |-> IF db.shape = "cyclic" THEN TRUE ELSE Absent]
ServeTrace(db, q) == [traceStart |-> TraceStart(db), resources |-> Resources, spans |-> {ServeSpan(db, x, q) : x \in Spans}]
ServeSummary(db) == [rootSpan |-> IF db.shape \in {"orphan", "cyclic"} THEN Null ELSE [serviceName |-> IF db.shape = "named" THEN "svc" ELSE Null],
                 startTime |-> TraceStart(db), durationNs |-> Max({db.spans[x].end : x \in Spans}) - TraceStart(db)]

Held(db, method) == IF method \in {"getMetric", "getMetricAggregate"} THEN db.stream
                ELSE method \notin {"searchSpans", "getLog"} \/ db.trace
NotFoundCode(method) == CASE method = "searchSpans" -> -32001 [] method = "getLog" -> -32002 [] OTHER -> -32003
InvalidParams == -32602
Result(r) == [error |-> Absent, result |-> r]
RpcError(code) == [error |-> code, result |-> Absent]

\* Handle: what the server sends back for the call.
Handle(db, a) ==
  LET params == NormalizeParams(IF a.method = "getMetric" THEN RequestGetMetric(a) ELSE RequestGetMetricAggregate(a))
  IN  IF a.method \in {"getMetric", "getMetricAggregate"} /\ ParamsRefused(params) THEN RpcError(InvalidParams)
      ELSE IF ~Held(db, a.method) THEN RpcError(NotFoundCode(a.method))
      ELSE Result(CASE a.method = "getMetric" -> ServeMetric(db, ParseGetMetricParams(params))
                    [] a.method = "getMetricAggregate" -> ServeAggregate(db, ParseGetMetricParams(params))
                    [] a.method = "searchSpans" -> ServeTrace(db, RequestSearchSpans(a))
                    [] a.method = "searchTraces" -> IF db.trace THEN {ServeSummary(db)} ELSE {}
                    [] a.method = "getLog" -> [timestamp |-> db.spans[1].start, observedTimestamp |-> db.spans[1].end]
                    [] a.method = "getStats" -> [lastReceived |-> IF db.trace THEN db.spans[1].end ELSE Null]
                    [] OTHER -> JsonAttributeType)
----------------------------------------------------------------------------
(* The decoders *)

ParseBigInt(string) == string
ParseNullableBigInt(v) == IF v = Null THEN Null ELSE ParseBigInt(v)

\* traceDataFromJSON: references resolved, times rebuilt from the baseline.
TraceDataFromJSON(json) ==
  LET traceStart == ParseBigInt(json.traceStart) IN
  [traceID |-> 1, spans |-> {LET startTime == traceStart + Number(n.spanData.start) IN
                             [spanData |-> [spanID |-> n.spanData.spanID, traceID |-> 1, startTime |-> startTime,
                                            endTime |-> startTime + Number(n.spanData.dur),
                                            resource |-> n.spanData.r, events |-> {ParseBigInt(e) : e \in n.spanData.events}],
                              matched |-> n.matched, salvaged |-> n.salvaged] : n \in json.spans}]

\* traceSummaryFromJSON: no root is undefined, no service name is ''.
TraceSummaryFromJSON(json) ==
  [rootSpan |-> IF json.rootSpan = Null THEN Absent
                ELSE [serviceName |-> IF json.rootSpan.serviceName = Null THEN "" ELSE json.rootSpan.serviceName],
   startTime |-> ParseBigInt(json.startTime), durationNs |-> ParseNullableBigInt(json.durationNs)]
TimeseriesFromJSON(json) == [attributesKey |-> json.attributesKey, datapoints |-> {ParseBigInt(t) : t \in json.datapoints}]
MetricDataFromJSON(json) == [timeseries |-> {TimeseriesFromJSON(s) : s \in json.timeseries}, lastSeenNs |-> ParseNullableBigInt(json.lastSeenNs)]
ScalarAggregateFromJSON(json) == [selected |-> json.selected, all |-> json.all]
LogDataFromJSON(json) == [timestamp |-> ParseBigInt(json.timestamp), observedTimestamp |-> ParseBigInt(json.observedTimestamp)]
StatsFromJSON(json) == [lastReceived |-> ParseNullableBigInt(json.lastReceived)]
FieldTypeFromWire(type) == IF type = "bool" THEN "boolean" ELSE type
ConvertAttributesToFieldDefinitions(attributes) == {FieldTypeFromWire(t) : t \in attributes}

Decoded(method, json) ==
  CASE method = "getMetric" -> MetricDataFromJSON(json)
    [] method = "getMetricAggregate" -> [aggregate |-> json.aggregate, scalarAggregate |-> ScalarAggregateFromJSON(json.scalarAggregate)]
    [] method = "searchSpans" -> TraceDataFromJSON(json)
    [] method = "searchTraces" -> {TraceSummaryFromJSON(s) : s \in json}
    [] method = "getLog" -> LogDataFromJSON(json)
    [] method = "getStats" -> StatsFromJSON(json)
    [] OTHER -> ConvertAttributesToFieldDefinitions(json)
----------------------------------------------------------------------------
(* The life of a call *)

\* A trace has a root with or without a service name, or none, or its parent
\* links form a loop and its spans were salvaged.
Shapes == {"named", "unnamed", "orphan", "cyclic"}
PlainSpan == [start |-> 0, end |-> 0, resource |-> Min(Resources)]
Idle == [phase |-> "idle", args |-> Absent, aborted |-> FALSE, answer |-> Absent, held |-> Absent, value |-> Absent, error |-> Absent]

\* A store that holds a stream, or one that holds a trace.
Init ==
  /\ call = Idle
  /\ \/ \E r \in [Series -> SUBSET ReadingTimes] :
          stored = [stream |-> TRUE, readings |-> r, trace |-> FALSE, shape |-> "named", spans |-> [x \in Spans |-> PlainSpan]]
     \/ \E f \in [Spans -> {s \in [start: SpanTimes, end: SpanTimes, resource: Resources] : s.start <= s.end}], shape \in Shapes :
          stored = [stream |-> FALSE, readings |-> [s \in Series |-> {}], trace |-> TRUE, shape |-> shape, spans |-> f]

\* The page calls a method of telemetryAPI.
Ask ==
  /\ call.phase = "idle"
  /\ \E a \in (IF stored.stream THEN GetMetric \cup GetMetricAggregate ELSE SearchSpans \cup Other) :
       call' = [Idle EXCEPT !.phase = "fetching", !.args = a]
  /\ UNCHANGED stored

\* A delete from another tab, or retention, before the call is served.
Delete ==
  /\ call.phase = "fetching" /\ (stored.stream \/ stored.trace)
  /\ stored' = [stored EXCEPT !.stream = FALSE, !.trace = FALSE]
  /\ UNCHANGED call

Serve ==
  /\ call.phase = "fetching"
  /\ call' = [call EXCEPT !.phase = "reading", !.answer = Handle(stored, call.args), !.held = Held(stored, call.args.method)]
  /\ UNCHANGED stored

Reject(error) == call' = [call EXCEPT !.phase = "rejected", !.error = error]

\* fetch fails, or the server answers with another status than 2xx.
NetworkFails ==
  /\ call.phase = "fetching" /\ Reject("network")
  /\ UNCHANGED stored

\* The page gives the call up: before the response fetch rejects and callRPC
\* names it; while the body is read json() rejects, unless it is all there.
Abort ==
  /\ call.phase \in {"fetching", "reading"} /\ call.args.method = "searchSpans" /\ ~call.aborted
  /\ \/ call' = [call EXCEPT !.aborted = TRUE, !.phase = "rejected",
                             !.error = IF call.phase = "fetching" THEN "RequestAbortedError" ELSE "AbortError"]
     \/ call.phase = "reading" /\ call' = [call EXCEPT !.aborted = TRUE]
  /\ UNCHANGED stored

\* Mutant: only the service's own error is taken for an abandoned request.
IsAbortError_OwnOnly(error) == error = "RequestAbortedError"
IsAbortError(error) == error \in {"RequestAbortedError", "AbortError"}

IsNotFound(code) == code = -32003

\* The body is read: an error of the server is thrown, except that a metric
\* that is not there is null; a result is decoded.
Read ==
  /\ call.phase = "reading"
  /\ LET a == call.args answer == call.answer IN
     \/ /\ answer.error # Absent /\ a.method \in {"getMetric", "getMetricAggregate"} /\ IsNotFound(answer.error)
        /\ call' = [call EXCEPT !.phase = "resolved", !.value = Null]
     \/ /\ answer.error # Absent /\ ~(a.method \in {"getMetric", "getMetricAggregate"} /\ IsNotFound(answer.error))
        /\ Reject("JsonRpcError")
     \/ /\ answer.error = Absent
        /\ call' = [call EXCEPT !.phase = "resolved", !.value = Decoded(a.method, answer.result)]
  /\ UNCHANGED stored

Next == Ask \/ Delete \/ Serve \/ NetworkFails \/ Abort \/ Read

Spec == Init /\ [][Next]_vars
----------------------------------------------------------------------------
(* Properties *)

Resolved(method) == call.phase = "resolved" /\ call.args.method = method
WireType(method) ==
  CASE method = "getMetric" -> JsonMetricData [] method = "getMetricAggregate" -> JsonMetricAggregateEnvelope
    [] method = "searchSpans" -> JsonTraceData [] method = "searchTraces" -> SUBSET JsonTraceSummary
    [] method = "getLog" -> JsonLogData [] method = "getStats" -> JsonStats [] OTHER -> SUBSET JsonAttributeType
ApiType(method) ==
  CASE method = "getMetric" -> Nullable(MetricData) [] method = "getMetricAggregate" -> Nullable(MetricAggregateEnvelope)
    [] method = "searchSpans" -> TraceData [] method = "searchTraces" -> SUBSET TraceSummary
    [] method = "getLog" -> LogData [] method = "getStats" -> Stats [] OTHER -> SUBSET FieldType

\* Every answer has the wire type its method declares, and what a view is
\* handed has the api type: a null, a string of digits or the store's spelling
\* of a type never reaches a view that does not expect it (wire-types.ts).
TypeOK ==
  /\ call.phase \in {"idle", "fetching", "reading", "resolved", "rejected"}
  /\ call.phase = "reading" /\ call.answer.error = Absent => call.answer.result \in WireType(call.args.method)
  /\ call.phase = "resolved" => call.value \in ApiType(call.args.method)

\* A metric arrives as it was asked for: every series that reported inside the
\* window, to the nanosecond, or those of them that were named, and datapoints on
\* the series that were to carry them (the comments on seriesIDs and
\* QueryTimeBound in telemetry-service.ts).  null and [] are different requests,
\* as jsonrpc_handler.go:368-370 and metrics.go:826-827 have it and against the
\* comments above both (EmptyMeansAll).
MetricAsAsked ==
  Resolved("getMetric") /\ call.value # Null =>
    LET a == call.args
        at(b) == IF b.unit = "ms" THEN b.n * Ms ELSE b.n
        seen(s) == stored.readings[s] \cap (at(a.window.start) .. at(a.window.end))
        keys == {ts.attributesKey : ts \in call.value.timeseries}
    IN  /\ keys = {s \in Series : seen(s) # {} /\ (a.seriesIDs # Absent => s \in a.seriesIDs)}
        /\ \A ts \in call.value.timeseries :
             /\ ts.datapoints \in {{}, seen(ts.attributesKey)}
             /\ a.datapointSeriesIDs # Absent => (ts.datapoints # {} <=> ts.attributesKey \in a.datapointSeriesIDs)
             /\ a.datapointSeriesIDs = Absent /\ a.datapointSeriesLimit \in {Absent, 0} => ts.datapoints # {}

\* The two pools answer two questions: All folds every series of the stream
\* whatever is checked, Selected exactly the checked ones, and an unchecked
\* legend is an empty Selected (getMetricAggregate's comments).
PoolsAsAsked ==
  Resolved("getMetricAggregate") /\ call.value # Null /\ call.args.seriesIDs = Null =>
    LET seen == {s \in Series : stored.readings[s] \cap (call.args.window.start.n * Ms .. call.args.window.end.n * Ms) # {}} IN
    /\ call.value.scalarAggregate.all = seen
    /\ call.value.scalarAggregate.selected = IF call.args.selectedSeriesIDs = Absent THEN {} ELSE seen \cap call.args.selectedSeriesIDs

\* What was asked is what is answered: parameters survive object, JSON,
\* positional array and Go slice.
AskedIsAnswered == TypeOK /\ MetricAsAsked /\ PoolsAsAsked

\* Decoding undoes every compression of the wire: each span is back with its
\* own resource and its own times, a child that starts before its parent
\* included, as long as the trace is shorter than Exact nanoseconds, and the
\* trace spans what its card in the list says (traceDataFromJSON).
TraceRehydrated ==
  Resolved("searchSpans") /\ stored.trace =>
    LET d(n) == n.spanData
        long == Max({stored.spans[x].end : x \in Spans}) - TraceStart(stored) > Exact IN
    /\ \A x \in Spans : \E n \in call.value.spans :
         /\ d(n).spanID = x /\ d(n).resource = stored.spans[x].resource
         /\ ~long => d(n).startTime = stored.spans[x].start /\ d(n).endTime = stored.spans[x].end
    /\ ~long => LET card == TraceSummaryFromJSON(ServeSummary(stored)) IN
         /\ card.startTime = Min({d(n).startTime : n \in call.value.spans})
         /\ card.durationNs = Max({d(n).endTime : n \in call.value.spans}) - card.startTime

\* The meaning of a query tree on the page: what says something at all, a
\* condition or a group that a condition is in, and what of it is true.
Meaning(span, t) ==
  LET means[i \in 0 .. Len(t)] ==
        IF i = 0 THEN [silent |-> {}, true |-> {}]
        ELSE LET before == means[i - 1]
                 saying == t[i].children \ before.silent
             IN  IF t[i].type = "condition"
                 THEN [before EXCEPT !.true = IF (t[i].value = span.resource) <=> (t[i].op = "=") THEN @ \cup {i} ELSE @]
                 ELSE IF saying = {} THEN [before EXCEPT !.silent = @ \cup {i}]
                 ELSE [before EXCEPT !.true = IF \/ t[i].operator = "AND" /\ \A j \in saying : j \in before.true
                                                 \/ t[i].operator = "OR" /\ \E j \in saying : j \in before.true
                                              THEN @ \cup {i} ELSE @]
  IN means[Len(t)]
Means(span, t) == Len(t) \in Meaning(span, t).silent \cup Meaning(span, t).true

\* The spans a search marks are those its query tree describes, however the
\* conditions nest: the tree the parser built, the one on the wire and the
\* clauses the server joins say the same (convertQueryTreeForBackend).
MatchedAsQueried ==
  Resolved("searchSpans") /\ stored.trace => \A n \in call.value.spans :
    n.matched <=> (call.args.queryTree = Absent \/ Means(stored.spans[n.spanData.spanID], call.args.queryTree))

\* A trace on the page is the stored one, with the marks its search asked for.
TraceAsStored == TraceRehydrated /\ MatchedAsQueried

\* null means the metric was not there when the server looked, and nothing
\* else does; no method hides another failure or invents this one
\* (internal/server/errors.go, "Not-found convention").
MissingIsNull ==
  call.phase = "resolved" => (call.value = Null <=> ~call.held /\ call.answer.error = -32003)

\* A call the page gave up ends without an error for the reader: as an
\* abandoned one, or with the answer it already had (isAbortError).
AbandonedIsSilent == call.aborted /\ call.phase = "rejected" => IsAbortError(call.error) \/ call.answer.error # Absent

\* A missing row, a call given up and a failure are told apart.
OutcomesToldApart == MissingIsNull /\ AbandonedIsSilent

\* Not so in the code (README, Disagreements).
\* "Which series to return. Absent or empty means all of them"
\* (jsonrpc_handler.go:360-361; metrics.go:783-784).
EmptyMeansAll ==
  Resolved("getMetric") /\ call.value # Null /\ call.args.seriesIDs = {} =>
    LET a == call.args IN
    {ts.attributesKey : ts \in call.value.timeseries} =
      {s \in Series : \E t \in stored.readings[s] :
                        BoundToNanoseconds(a.window.start) <= t /\ t <= BoundToNanoseconds(a.window.end)}

\* Not so in the code (README, Disagreements).
\* A parameter that is left out has its default: no call of the service is
\* refused for one (named_params.go, "interior ones become null, which is what
\* the optional-parameter checks already expect").
OmittedIsDefault == ~(call.phase = "reading" /\ call.answer.error = InvalidParams)
=============================================================================
