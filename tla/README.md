# Verification of otel-desktop-viewer

TLA+ modules, TLC configurations and TLAPS proofs for otel-desktop-viewer, a
local OpenTelemetry viewer: an OpenTelemetry Collector with an exporter that
writes traces, logs and metrics into one DuckDB store, a retention loop that
keeps the store under a size cap, a JSON-RPC server over the same store, and a
Svelte frontend. Paths below are relative to the repository; `store/` stands for
`desktopexporter/internal/store/` and `frontend/` for
`desktopexporter/internal/frontend/src/`.

## Inventory

| Component | State | Operations | What makes it correct |
|---|---|---|---|
| Ingest and dictionary (`store/spans`, `logs`, `metrics`, `ingest`) | 13 tables, appender buffers, `FlushedIDs` cache | three `Ingest` functions, `Dictionary.Flush`, appenders, deletes, clears, `SweepOrphans` | attribute ids never dangle, the cache never lies, parents exist, an ingest that reports success is complete |
| Locking (`store/store.go`) | `ingestMu`, `mu`, `db`/`conn` | `WithConn`, `WithDBRead`, `WithDBWrite`, `Close` | exclusion, no use after close, every call returns |
| Retention (`store/retention.go`, `duckdbextension`) | ticker, round counter; the store's size | `EnforceRetention` = sweep, then up to 3 rounds | prunes only what it must, only the oldest, converges |
| Exporter (`desktopexporter/exporter.go`) | none; an ingest deadline | `pushTraces`, `pushLogs`, `pushMetrics` | a timeout or a redelivery leaves a consistent store |
| Extension lifecycle (`duckdbextension/extension.go`) | store, loop goroutine | `Start`, `Shutdown` | the loop is stopped and the store closed once |
| Attribute memo (`store/ingest/attribute_memo.go`) | bounded map by fingerprint | lookup, store, drop-all | never another set's ids |
| Schema version (`store/version.go`) | version table | check, stamp | a file of another schema is refused, a fresh one stamped |
| Search tree (`store/search`, `ingest/idprobe.go`) | none | query tree to SQL, id probe | the query asked is the query answered |
| Queries (`store/queries`) | none | read-only SQL | buckets, pools and merged columns hold every sample once |
| JSON-RPC server (`desktopexporter/internal/server`) | none | named parameters to positions, dispatch, error codes | each method takes the right lock, a default is a default |
| Telemetry service (`frontend/services/telemetry-service.ts`) | the `AbortController` of a call | one method per RPC, decoding | what was asked is answered; absence, abandonment and failure stay apart |
| List pages (`frontend/contexts/signal-list-page`, `components/shared/utils/list-update-seq`) | items, loading, error, sequence, badge | fetch, search, refresh, select | the newest request wins, loading ends, a shared link survives |
| Traces page (`frontend/pages/TracesPage`) | trace shown, query tree, detail request, URL | detail fetch, select span, delete | the waterfall belongs to the selected trace |
| Logs page and detail fetcher (`frontend/pages/LogsPage`, `components/shared/utils/debounced-detail-fetcher`) | as above; debounce timer, token | as above | panel, selection and address agree at rest |
| Metrics page (`frontend/pages/MetricsPage`) | metric, aggregate, raw datapoints, column distribution, one token each | four fetches and the effects that start them | nothing shown answers another question; refetches end |
| Metric view context (`frontend/contexts/metric-view-context`) | visible series, colours, selection, tab, scope; copies in the URL and `localStorage` | seeding, checkboxes, navigation, reconciliation | the copies agree, colours are distinct and stable |
| Time context and router (`frontend/contexts/time-context`, `frontend/route`) | window, preset, history, recents | select, zoom, step, back, forward, reload | URL and state agree |
| Waterfall (`frontend/components/traces/Waterfall`) | collapse per trace, selection, column widths | toggle, keys, search shape, drag, resize | the reader's arrangement survives; tree, bars and ruler are drawn true |
| Search box (`frontend/components/shared/Search`) | text, underline, completions, field list | type, complete, look up, submit | one grammar in three places; options fit where they go |
| Charts (`frontend/components/metrics/Charts`, `metrics/utils`) | tab, scope, selected column, pin | clicks, resize | marks, legend and clicks agree with what is drawn |
| Layout, styling, icons | none that matters | rendering | presentation |

Components interact as follows. The three exporters call `WithConn`, which holds
`ingestMu` and the *read* side of `mu`; RPC queries call `WithDBRead`; deletes,
clears and each section of a retention pass call `WithDBWrite`. DuckDB runs every
statement in autocommit, so a reader, a crash or a failure sees the store between
any two statements of an ingest, and a crash or a failure between any two of a
write-locked operation. The frontend talks to the server over `/rpc`; requests
are answered in any order and outlive the component that sent them. Inside the
frontend, contexts and pages share Svelte state: an assignment wakes effects,
which assign, navigate or fetch in turn, and the address bar is one more copy of
the state that the back button may change at any time.

What is hard here: attribute ids live in `uuid[]` columns, which no foreign key
can check; a cache decides whether a dictionary row is inserted at all; every
multi-statement operation can stop half-way; retention releases its lock between
rounds; each page orders answers by its own means (a sequence several callers
bump, a token, a debounce, an `AbortController`, a cache key); the same choice is
kept in memory, address and storage, with skipped echoes between them; and one
rule is often written twice (parser and validator, chart and legend, drawing and
hit test). `PROJECT.json` lists each hazard with its line and the properties that
cover it.

## Modules

| Module | Models | Notes |
|---|---|---|
| `Store` | tables, dictionary, cache, ingest, deletes, clears, sweeps, restart | one action per SQL statement, appender flush or append |
| `TelemetryView` | what the store promises a reader | abstract: rows appear complete, stay unchanged, disappear |
| `StoreMC` | an instance of `Store` | a traces, a logs and a metrics request sharing a resource and a scope |
| `StoreLocks` | `ingestMu`, the RWMutex, `Close` | one action per lock operation |
| `Retention` | the retention pass over row counts and sizes | one action per write-locked section |
| `TracesPage` | the traces page with list page, editor and URL | one action per event handler or server answer |
| `TimeContext`, `LogsPage` | window, address, history, recents; the logs page over them | `LogsPage` composes the steps of `TimeContext` with a list page and a detail fetcher |
| `MetricsPage` | the metric shown and the three fetchers beside it | one action per event, timer or answer |
| `MetricView` | series, colours, selection and their copies in address and storage | one action per handler with its effects |
| `Timeline`, `Waterfall`, `WaterfallMC` | columns, ruler and bars; tree, collapse, search shape, keys; an instance | `Waterfall` extends `Timeline` |
| `Search`, `SearchMC` | query language, validator, completions, submission; an instance | the grammar the parser is compared with is stated apart from it |
| `Wire`, `WireMC` | one RPC from the service's arguments to the view's data; an instance | both ends and the store's answer |
| `MetricReduction` | buckets, pools and merged columns of a metric, quantiles | operators only |
| `ScalarChart`, `Distribution` | lines and marks of a Gauge or Sum; heatmap, quantile lines and bars of a histogram | operators only |
| `Charts`, `ChartsMC` | the chart pane over these; an instance | one action per click or arrival |
| `StoreProofs`, `TracesPageProofs`, `LogsPageProofs`, `MetricsPageProofs`, `MetricViewProofs`, `WireProofs`, `WaterfallProofs`, `ChartsProofs` | theorems about the module each is named after | `StoreProofs` is about `StoreLocks` and `Retention` too, `WaterfallProofs` about `Timeline`, `ChartsProofs` about the modules under `Charts` |

**Store.** A row is a record of its key, the keys its foreign keys name, and the
attribute ids its list columns hold (`attrs`; `meta` for
`metric_ingests.metadata_ids`). Keys are opaque. Rows whose ids the code draws
with `uuid.New` are stamped with the number of the delivery, so a redelivery
makes new ones, while spans keep their own id. `pc` walks the ingest in the code's
order: metric streams, attributes, resources, scopes, bounds, series, then pass 2
with its periodic `FlushAppenders` and the deferred `CloseAppenders`. Each
statement may succeed, fail, or fail after it took effect. `wtodo` is the list of
statements a write-locked operation still has to run. `Restart` may happen at any
point. A failure to open an appender is `AbortItems` with nothing appended. A
metric stream recreated after a delete keeps its key in the model, where the code
draws a new uuid. DuckDB's constraint checks are external, modelled from what the
code relies on: inserts check foreign and primary keys, deletes refuse to leave a
foreign key dangling, truncates check nothing.

**StoreLocks.** `sync.RWMutex` is external: a writer announces itself, later
readers park, readers inside drain, and Unlock admits all parked readers.
`Store` and `Retention` take the exclusion proved here as their atomicity: no
ingest runs beside a write-locked operation.

**Retention.** Rows are counted per signal and timestamp; every row, dictionary
row, and deleted row not yet reclaimed by a checkpoint weighs one unit.
`PruneCutoff` is DuckDB's `quantile_cont` over a bigint column, which works in doubles:
at nanoseconds since 1970 two of them are `Ulp` = 256 apart. The cast of one row is the
nearest double; an interpolation is a sum of rounded products, which the module lets end
at any double up to two gaps from the exact value.

**TracesPage.** JavaScript runs a task to its end, so a handler and the Svelte
effects it triggers are one step (`Flush`: selection effect, then detail effect).
Each mount of the page is an instance with a number; requests remember theirs.
The answer to a list request is any set of traces. `list.from` and `lost` are
history variables.

**TimeContext and LogsPage.** `ApplyPreset`, `ApplyCustom`, `ApplyRecent`,
`Traverse`, `Reload` and `Tick` are the steps of the window, the entry of the
history it belongs to, `localStorage` and the recents; `SyncUrl` and `Routed` are
the two directions between state and address. An entry is an item and a window. `LogsPage`
adds the list (`searchLogs`, then `getStats` for the badge's baseline: two calls,
either of which may fail), the selection effect, the debounced detail fetch, the
poll behind the badge and deletes. A clock ticks, logs arrive between any two
calls, and a log is named by its timestamp so that "in the window" is comparable.

**MetricsPage.** Four requests hang off one page, each guarded differently: the
detail by a token and a 120 ms timer, the aggregate by a token and an early
return, a series by a cache key, a column by its own token. `Flush` is the Svelte
flush after a handler: which effects run is decided by what they read. The three
side fetchers do not read each other, so a behaviour follows one of them
(`follow`), chosen at the start.

**MetricView.** The state has three copies: the context's own, the address with
its history, and `localStorage` per metric. `SkippedEchoMatches` is about the
snapshot comparison that decides whether an address change is the page's own
echo. A datapoint is named by its series, and `Raw(k)` is one only the raw list
has. The series of different metrics are different numbers, the older ones smaller.

**Timeline and Waterfall.** A trace is a sequence of depths (the server's
preorder), two shapes of it stand for a refetch that brought more spans. The
connector lines, the visible rows and the search shape are computed the way the
component does and compared with the tree they stand for. Columns keep whole
pixels; ruler ticks and bars keep hundredths of a percent.

**Search.** A text is a sequence of words; `Phrases` are the fragments a reader
types. `parse` is the recursive-descent parser, `validateQuery` the walk that
goes on after an error and underlines, and `Meaning` the grammar stated by where
a text splits, which knows of neither (a single condition they share).
Completions are functions of the words before the cursor, the field list and a
dictionary that answers late.

**Wire.** A call passes through an object, JSON, positions and Go values. `null`,
`[]`, a missing key and a missing position are different values all the way;
numbers lose precision beyond `Exact`, as a double does beyond 2^53, unless they
travel as strings, as every time does; offsets and durations do not. `Number`, what
`JSON.parse` makes of a number, is a constant of which no more is assumed than that. A query tree is compared by the rows that satisfy it.

**MetricReduction, ScalarChart, Distribution, Charts.** The first is the part of
`get_metric.sql` a chart depends on: the ladder of bucket widths, a row per
bucket from a series' first sample to its last, increases with restarts, pools of
several series, merged histogram columns and interpolated quantiles. A histogram of
running totals is differenced as the query does it: sample by sample, against the
one read before it, so that the first one read says nothing (`Measured`), with an
eye for restarts in the buckets (`CountsSince`) and another in the count
(`TotalSince`). A column's own query (`ColumnDistribution`) reads no sample before
the column. The next two modules
turn these into what is drawn and what a click picks. `Charts` holds the choices,
and draws anew (`Redraw`) after each: everything Svelte marks `$derived`.

## Runs

A run's property is often the conjunction of a few that concern one question; the
parts are named below, each is a definition of its own in the module, and a
violated conjunction is looked into by checking its parts.

| Run | Result | What it shows |
|---|---|---|
| `store` | pass | `FlushedSound`, `NoDangling`, `ForeignKeysHold` (parents present, no statement fails a foreign key, deletes never blocked), `SweepCollectsAll`, `IngestComplete`, and `ViewImplemented`: `Store` implements `TelemetryView` |
| `store_metadata` | violation | a sweep deletes the metadata attributes of stored metrics (`sweep.go:34`) |
| `locks` | pass | `LocksTypeOK`, `SectionsExclude` (writers exclude all, ingests each other), `NeverUsedClosed`, `EveryCallReturns` |
| `retention` | pass | `PrunesSafely` (only for telemetry, only the oldest tenth), `Converges` |
| `traces` | pass | `PageSettles` (the list is the newest answer, the waterfall the selected trace), `SharedLinkKept`, `LoadingEnds` |
| `logs` | pass | `PageConsistent` (window, preset, address and storage agree in every state), `RestIsConsistent` (list, selection, panel and badge once all is answered), `ComesToRest` |
| `metrics` | pass | `PageSettles` (the metric, its window and its aggregate are those selected), `NothingStaleShown` (series and column data), `ComesToRest` |
| `metric_view` | pass | `ViewConsistent` (selection, colours and copies), `SkippedEchoMatches`, `ColoursStable` |
| `waterfall` | pass | `CollapseKept`, `TreeDrawnWhole` (matches, connectors, counts), `ColumnsFill`, `RulerTellsTime` (ruler and bars), `SelectionMovesOnScreen` |
| `search` | pass | `SuggestionsFit`, `ParsedWhole` (the parser accepts the grammar, to the last token), `UnderlineMeansRefused` |
| `wire` | pass | `AskedIsAnswered`, `TraceAsStored`, `OutcomesToldApart` |
| `charts` | pass | `MarksAgree`, `SamplesAddUp` (but where two buckets on end are left out of the aggregate; a column's panel and `LeftOut`, the first running totals in the column, add up to the column), `ClicksHit` (the panel counts its cells unless a restart shows in the buckets alone) |

### Bounds

- `store`: two deliveries, three requests. Two deliveries are enough for a
  redelivery, for a second request that reuses what a sweep removed or a cache
  remembers, and for a resource whose attribute set changed under the same id.
  `FlushInterval = 1` makes every item cross a flush; the requests hold one row of
  every table and a summary metric. Theorems remove the bounds for every property.
- `locks`: two ingests, two queries, one writer and the shutdown: every pair of
  kinds meets, and two of the kinds that share. Theorems remove the bound for the
  safety properties.
- `retention`: two timestamps, four exports of one row, cap four, two deletes or
  failed passes. The cap can be exceeded by live rows, by orphans, by dead rows
  and by mixtures. Doubles are two apart, one timestamp is rounded down to one and the
  other up, and an interpolated cutoff falls between them.
- `traces`: two traces, one query, four list updates, two mounts, one delete in
  flight. Four updates are enough for mount, leave, mount and a fetch by the page
  that is gone, and for a search overtaken by a refresh.
- `logs`: two logs, two list fetches, history of two entries, four events
  (`MaxEvents` counts what the reader, the clock or an exporter does; answers and
  timers are not counted). Two fetches give every order of answers and failures.
- `metrics`: two metrics, two series with one drawn by default, a fixed and a live
  window, two columns, six events: enough to leave a metric and return to it with
  requests of each visit under way.
- `metric_view`: a sum and a histogram with three series over two colours, one
  series drawn by default, three history entries, seven events: enough to fill the
  cap, prune, go back to an address from before and forward again.
- `waterfall`: two traces in two shapes of depth two, every set of matches, a
  store that keeps one trace (so that eviction happens), two pane widths, four
  events. A drag counts one event for its press, moves and release together.
- `search`: up to three phrases of a list that holds every kind of word, two
  submissions, four events.
- `wire`: a call of each shape over two series, two spans and times up to nine, with
  numbers two apart above four and four apart above eight; a call is the whole behaviour.
- `charts`: nine series chosen for a restart, a gap, two samples in one
  millisecond, an empty bucket, a lone column, running totals read twice in a
  column and once, and a restart that leaves the count as it was; four clicks.

Only `StoreLocks`, `Store` and `Retention` are checked for deadlock: elsewhere,
with no request in flight and the bounds used up, nothing happens.

### Fairness

- `StoreLocks`: a goroutine that can move does; callbacks return (an ingest has a
  deadline). Strong fairness for taking a contended mutex: Go's mutexes hand over
  to a waiter that has starved for a millisecond.
- `Retention`: the ticker fires and a pass runs to its end. Exports, deletes and
  failures are bounded, not fair.
- `TracesPage`: the server answers every list request, with rows or an error.
  `LoadingEnds` excepts the cases in which nobody is left to reset the flag: the
  newest update was a search that failed, was cancelled when the drawer closed and
  destroyed the editor, or was started by a page already gone. In these the
  loading state stays until the next fetch.
- `LogsPage`: every call is answered or fails, and the debounce timer fires
  (`Answer`). `MetricsPage`: the same for each of the four requests and their
  timers. In both, `ComesToRest` says that then the refetches, each set off by an
  answer, come to an end.

The other modules state no fairness: their properties are safety properties.

## Proofs

A part of `StoreProofs` is about `StoreLocks`: it proves `LocksTypeOK`,
`SectionsExclude` and `NeverUsedClosed` for any sets of callers,
from `ProcsAssumption` (the sets are disjoint). None is inductive alone. `LockInv` adds what ties program counters to
the locks: a caller is only at labels of its kind (`Roles`), `readers` are exactly
the callers between RLock and RUnlock (`ReadersAgree`), `parked` exactly the
parked ones (`ParkedAgree`), `announced` and `writing` say who is between Announce
and Unlock and that readers have drained (`WriterAgrees`), and `ingestMu` is held
by exactly the ingest past `LockIngestMu` (`IngestMuAgrees`).

`StoreProofs` proves `TypeOK`, `FlushedSound` and `NoDangling` of `Store` for every
set of requests, every number of deliveries and every flush interval, from
`BatchesAssumption` (requests have their shape, a series carries labels of its own
request, streams have no attributes) and `BoundsAssumption`. `StoreInv` adds:

- `CacheInv`: during a sweep the cache may only exceed the stored keys by
  `removed`, what the sweep has deleted so far;
- `Excluded`: no ingest is under way while a write-locked operation has
  statements left (the exclusion `StoreLocks` establishes);
- `PlanInv`: once a sweep has begun only sweep statements remain, so no statement
  that skips the cache update can follow;
- `DictReady`: past the attributes stage, every attribute of the request is stored;
- `Buffered`: appender buffers only hold rows whose attributes belong to the
  running request.

The core of `NoDangling` is that a sweep removes an attribute only if no stored row
names it, and that rows are only written while `DictReady` holds; the core of
`FlushedSound` is that a key leaves the store only in a sweep, which either reports
it to `forgetIDs` or drops the whole cache.

The module goes on from `StoreInv` and proves the other properties of `Store`: `ForeignKeysHold`, `IngestComplete`, `SweepCollectsAll` and
`ViewImplemented`, the refinement of `TelemetryView`. It needs one more assumption,
`RequestsAssumption`, on the shape of a request: a row names rows of its own
request, in the tables the schema says; a datapoint has an ingest row and a series
of the stream it belongs to; two requests that compute one series id agree on what
it names. The code computes these ids from the request alone or draws them with
`uuid.New`, and a series id is a hash of its stream, resource and labels.
`ReferencesInv`, inductive together with `StoreInv`, has parts

- `Rows`, about what is stored: `ParentsPresent` itself, the tables a row may refer
  to (`Shapes`), that stored series are those of some request (`SeriesKnown`), that
  rows with a fresh uuid are of this delivery or older (`FreshKnown`), and that a
  datapoint belongs to the stream of its series and of its ingest (`SameStream`);
- `Load`, about the running ingest: the rows of the statements that have run are
  stored (`StagesDone`), the appenders hold rows of the request (`FromRequest`),
  and while no error was met everything appended is stored or buffered with its
  parents, in the order in which the appenders are flushed (`Healthy`);
- `Plan`, about the statements a write-locked operation has left: what deletes a row
  comes after what deletes the rows that refer to it (`ChildrenFirst`), series that
  lost their last datapoint go before streams that lost their last ingest
  (`StreamsLast`), and a sweep leaves no orphan in the tables it has been over
  (`SweepsWhole`).

`Load` is why a healthy ingest never writes a child before its parent, and why one
that ends without error is complete; `Plan` is why no delete is refused and none
leaves a child behind. `SameStream` is what `StreamsLast` needs: a stream without
ingests has no datapoints, hence no series once idle series are gone.

The refinement is proved step by step: every action is a step of `TelemetryView`
or leaves the rows a query can see alone.

`TracesPageProofs` proves `PageSettles` of `TracesPage` for any finite set of
traces, any queries and any bounds, from `TracesAssumption`. `PageInv` adds to the
type invariant:

- `Mounted`: a page that is shown has been mounted; without one nothing reports;
- `SelectionListed`: a loaded list that is not empty has the selected row. Its core
  is that the selection effect finds a row at the place of the one that is gone:
  the places of a finite set of n rows are the numbers below n (`AtListed`, by
  the pigeonhole principle), and the remembered place is cut to the list's end;
- `DetailFollows`: a detail request in flight is for the selected row, and with
  none in flight the waterfall shows that row or nothing;
- `NewestReports`: the newest update of the list can still report, has reported,
  has failed or was dropped.

`SharedLinkKept` follows from the same invariant, step by step: while the list is
loading, the effects keep the id (`LoadingKeepsId`).

`LogsPageProofs` proves `PageConsistent` and `RestIsConsistent` of `LogsPage` for any
finite set of logs, windows, history entries, calls in flight and events, from
`TimeContextAssumption` and `LogsPageAssumption`. `PageInv` has the parts

- `TimeInv`: the types of the time context, recent ranges that are distinct and
  ordered by their last use, and `AddressMirrors`, which is also a property;
- `Newest`: a loading list has its fetch in flight, the newest fetch is for the
  selected window, and so is a list that is shown;
- `Listed`: a list that is not loading has the address's item, or is empty and the
  address bare (the pigeonhole argument again), and the panel is for that item;
- `Promised`: the panel shows its item or an error, or a timer or a call is on the
  way to it.

At rest nothing is on the way, and what is left of these parts is
`RestIsConsistent`.

The last part of `StoreProofs` proves `RetentionTypeOK` and `PrunesSafely` of `Retention` for any
timestamps, cap, ingest burst and number of outside deletes, from
`RetentionAssumption`. Its invariant adds `Clean`: when a round measures the store
and no delete came from outside since the pass's checkpoint, there are no dead rows
and no orphans in what it measures, so being over the cap means the telemetry is.
`OldestTenthOnly` rests on the cutoff: whatever was rounded up or down on the way, for
any gap between doubles, it is less than three gaps beyond the later of the two order
statistics it comes from (`CutoffNear`; that a finite set of numbers has an element at
every place is again the pigeonhole argument).

`MetricsPageProofs` proves `PageSettles` and `NothingStaleShown` of `MetricsPage`
for any metrics, series, windows, columns and events, from
`MetricsPageAssumption`. `PageInv` adds what holds while requests and timers are
out: every one of them asks for what is selected (`RequestsFollow`), only listed
series are drawn (`DrawnListed`), with no request out the metric is the selected
one (`MetricFollows`), the aggregate is timed, asked for or shown for what is drawn
and a timer never runs beside a request (`AggregateFollows`), and cache and
distribution follow their key and column (`CacheKeyed`, `ColumnFollows`). Every
event ends in the same flush of effects, so one lemma, `FlushKeeps`, carries most
of the argument.

`MetricViewProofs` proves `SkippedEchoMatches`, `ViewConsistent` and `ColoursStable` of
`MetricView` for any metrics, number of series, cap, default, length of the browser's
history and number of events, from `MetricViewAssumption`. For the first,
`SnapshotInv` is stronger and does not mention the address: the snapshot describes
the view at all times, so an address equal to the snapshot describes it too. For
the others, `MetricInv` says of the view what the effects leave (`Shown`: a legend
of listed series, each once, coloured one by one; a selection on screen), and of
`localStorage` and history what may be read back from them (`SavedFits`: stored
series are distinct series of their metric, listed today or not; `HistoryFits`).
Every handler hands a draft to the effects (`Ready`: distinct series of the metric,
perhaps unlisted, uncoloured or one too many), and one lemma, `SettleFact`, shows
that they make a view that is `Shown` of it and recolour nothing that keeps its
place. Under it lie facts about the operators, each for every input: `SyncFact`
(the palette never runs out while series are coloured one after the other, because
fewer colours are given than series are drawn), `SeedFact`, `KeepingFact`,
`OrderedFact`. Colours and lists are computed by recursive functions; `Recursion`
proves that such a function exists and `Steps` is the induction over its argument,
both from the least counterexample.

`WireProofs` proves `AskedIsAnswered`, `TraceAsStored` and `OutcomesToldApart` of `Wire`
for any series, spans, query trees, limits and bounds, from `WireAssumption`,
`QueryTreesAssumption` (what `parseQuery` may build) and `SentinelsApart` (null, a
missing key and the other marks of the encoding are none of the values they stand
beside). `WireInv` says who holds what at each stage of a call: the arguments went
through the object, JSON and positions as they were meant (`NormalizeFact`,
`MetricParams`), and the answer is one to the present store, since whatever may be
deleted is deleted before the server reads. `TreeFact` says of every query tree that
its clauses are its numbered nodes without the silent ones, by induction over the
tree's sequence of nodes, however it nests; `RehydratedFact` that a trace is rebuilt
from offsets and indices; `AnswerFact` that every shape of answer decodes to what was
stored.

`WaterfallProofs` proves `CollapseKept`, `TreeDrawnWhole`, `SelectionMovesOnScreen` and
`ColumnsFill` for any traces and depths, any eviction limit and page step, any columns
and pane widths, from `WaterfallAssumption` (depths are a preorder) and
`TimelineAssumption`. It has two inductive invariants.

`TreeInv` says that the collapse store holds distinct traces, that each agrees with
what the reader last arranged, and that only rows with children are collapsed. Under
it lie facts about the tree for every preorder: the ancestors of a row are the rows
"over" it, those with no row as shallow between (`AncestorsFact`); the next row on
screen is the next row of all or the first that is no deeper (`NextOnScreen`); the
gutter line in a column reaches from a row to its last child (`SegmentFact`,
`LastChildFact`), so a line that leaves a row on screen enters the next one there and
no other does (`LinesMeet`), whatever is collapsed between; and the walk with a stack
that counts children counts each row under its parent (`CountsFact`).

`ColInv` says that every column has at least its least width and that the columns
together fill the width they were last fitted to, less a pixel for each that was
rounded down. A share of what is left is rounded down, and the sum of the floors
misses the whole by less than one per column (`SharesFact`); a drag takes from one
column what it gives its neighbour (`ResizeFit`); a pane too narrow for the least
widths is the case the property excepts.

`ChartsProofs` proves `MarksAgree`, `SamplesAddUp` and `ClicksHit` of `Charts` for any
metrics, series and samples, any ladder of bucket widths, window, number of buckets,
pane sizes and number of clicks, from `ReductionAssumption`, `SamplesAssumption` (the
query's answer: one entry per series, its samples in order and in the window),
`ClockAssumption`, `ScaleAssumption` and `ChartsAssumption`. Its invariant `ChartsInv`
says that the lines and slices on screen are those of the choices made (`DrawnAnew`),
that a selected column starts where one may (`ColumnKept`), and that the last click hit
what is still shown (`LineHit`, `ColumnHit`). The rest is about what is drawn, by
induction over each fold:

- sums: a fold over a finite set exists and does not depend on its order
  (`SumsExist`, `SumsCommute`), and may be taken group by group (`SumGrouped`,
  `SumSwapped`), so the buckets of a series, the series of a pool and the columns of a
  heatmap each count every sample once;
- running totals: differences add up to the difference of the sums, which a restart
  is hidden from only if the sums did not fall (`SumLess`, `SinceFact`); what a
  column's query measures is what the column merged of each series but for its first
  total there (`PanelMeasures`), so the two and what is left out agree (`PanelAddsUp`);
- buckets: an instant falls in exactly one, whole milliseconds long (`ClockFact`,
  `ResampleFact`); a merged column ends where the next begins (`ColumnEndFact`);
- lines: what a row of the pool answers is what the points say (`RowsAt`, `PointsAt`,
  `LineOfFact`); a counter's line moved to the aggregate's grid keeps its points there
  and says zero elsewhere (`MovedRate`), so the contributions add up to the aggregate
  (`RateFollows`);
- colours: the legend's scale is made from the counts that are drawn (`LegendFact`);
  the edges of its bands grow strictly and leave room under the greatest count
  (`EdgesFact`), so every cell drawn has one band, which its count lies in (`CellsHold`).

Only model-checked:

- liveness (`EveryCallReturns`, `Converges`, `LoadingEnds`, `ComesToRest`), which the
  prover does not handle;
- `Search`, whose parser is RECURSIVE, which no prover sees into;
- `RulerTellsTime`: whether ticks are few, even and told apart depends on the units,
  magnitudes and the cap the code lists, and on products of several of them, which
  the arithmetic of the provers does not reach.

## Disagreements

Where the code does not do what a comment or a document says of it, the module
keeps the sentence as a formula marked "Not so in the code". The first is
checked as the run `store_metadata`; to see another, add the formula to the cfg of
its module, with the constants named here where they differ.

| Formula | The code | The sentence | Constants |
|---|---|---|---|
| `Store.NoDanglingMetadata` | `sweep.go:34` has no arm for `metadata_ids` | `sweep.go:25`, "every attribute id currently referenced by anything" | as `StoreMetadata.cfg` |
| `StoreLocks.NothingReadsMidBatch` | `WithConn` holds the read side (`store.go:251`), which queries share | `spans.go:29-32`: nothing reads mid-batch | `SPECIFICATION LocksSpec` |
| `Retention.NoRoundPrunesForGarbage` | the lock is released between sweep and round (`retention.go:107`): a delete in between makes garbage the round prunes for | `ARCHITECTURE.md:200` | `MaxDeletes = 1` |
| `Retention.NewestSurvives` | `quantile_cont` (`retention.go:224`) rounds the cutoff to a double, past a lone row or rows of one timestamp: the round empties the table | `retention.go:84-85`, "Each round deletes the oldest pruneFraction of every signal" | `MaxBytes = 1, MaxExports = 1, MaxDeletes = 0` |
| `Retention.RoundPrunesShare` | `retention.go:224` is strict: nothing goes when the oldest tenth shares a timestamp | `retention.go:16-20` | `Burst = 6, MaxBytes = 3, MaxExports = 2, MaxDeletes = 0` |
| `Retention.RoundSweepsBareIngests` | the early return at `retention.go:272` keeps the ingests of summary metrics when there are no datapoints | `retention.go:266-271` | `MaxBytes = 2, MaxExports = 3, MaxDeletes = 0` |
| `TracesPage.SpanParamScoped` | a detail answer that arrives after the page was left writes `?span=` on the page shown now (`TracesPage.svelte:244`) | `query-params.ts:13` | |
| `TracesPage.StaleCompletionsIgnored` | a superseded search still replaces the query tree (`TracesPage.svelte:207`) | `list-update-seq.ts:2-4` | |
| `MetricsPage.SeededForShown` | the refetch for missing datapoints (`MetricsPage.svelte:574`) overtakes the fetch that would have seeded the view | `metric-view-context.svelte.ts`, `seedForMetric` | `MaxEvents = 5` |
| `MetricsPage.SeriesFetchEnds` | under a live preset the cache key is made from `Date.now()` (`MetricsPage.svelte:410`): an answer is always for another key, and is fetched again | `MetricsPage.svelte:393`, "Expanding a series fetches that series as it was sent" | `MaxEvents = 5` |
| `MetricView.EmptiedByUserOnly` | `metric-timeseries-visible.ts:249` stores an empty list for a metric nobody touched | `metric-timeseries-visible.ts:73-79` | `MaxEvents = 5` |
| `LogsPage.TravelKeepsItem` | going back to another window, the selection effect (`signal-list-page.svelte.ts:152`) runs before the fetch for it sets `loading` | `signal-list-page.svelte.ts:150` | `Durations = {1}, MaxEvents = 5` |
| `Search.NoSuggestionUnderlined` | a dictionary value under a key that is no identifier of the query language, such as `db/system`, is offered (`value-completions.ts:44-52`) and then underlined | `value-completions.ts:33-34` | |
| `Wire.EmptyMeansAll` | an empty list of series asks for none (`jsonrpc_handler.go:368-370`, `metrics.go:826-827`) | `jsonrpc_handler.go:360-361`, "Absent or empty means all of them"; `metrics.go:783-784` | |
| `Wire.OmittedIsDefault` | `getMetric` without `targetBuckets` is refused (`jsonrpc_handler.go:350`) | `named_params.go`, `named_params_test.go:60-61` | |
| `Charts.MarksHoldTheirShare` | a quantile in the overflow bucket is marked in the bar below it (`HistogramChart.svelte:178`) | `HistogramChart.svelte:175-177` | |
| `Charts.ContributionsLineUp` | a bucket with nothing but first samples is left out of the aggregate; when two follow one another, the zero of a silent series replaces its rate in the bucket before (`aggregation.ts:308`) | `metric-view-context.svelte.ts:893-899`, "you can see *which* series is contributing" | `Metrics = {"joins"}, Type <- JoinType, Samples <- JoinSamples` |
| `Charts.PanelCountsColumn` | `get_metric.sql:1050-1102` sets a running total against the one before it among those the query read: the column's own query drops the first of each series, which the column counts | `MetricsPage.svelte:488-490`, "the same merge it does for the aggregate" | |
| `Charts.OneResetRule` | the count is differenced by its own fall and the buckets by theirs (`get_metric.sql:1078-1090`, `diff_bucket_vectors.sql`): when only a bucket fell, the panel's count is not that of the cells | `get_metric.sql:1063-1066` | |
| `Charts.EveryColumnFetched` | a lone column that starts where the window ends has no end (`heatmap-column-selection.ts:191`) and is never fetched, though the query includes it | `heatmap-column-selection.ts:173-175` | `Metrics = {"edge"}, Type <- EdgeType, Samples <- EdgeSamples, Window <- EdgeWindow` |
| `Waterfall.PaneHoldsColumns` | `column-resize.ts:34-68` counts what a column at its least cannot give and drops it: columns outgrow the pane | `column-resize.ts:34` | |

Smaller things met while modelling, which the modules reproduce: a metric's
aggregate stays on screen until the new one's arrives; the waterfall's keyboard handler reads
`dataset.spanID`, which `data-span-id` does not set; Left on a hidden selection
goes to a hidden parent; `IN` values are joined with commas and split again, a
quoted `'null'` becomes `IS NULL`, and `IN []` or `> NULL` passes the editor and
is refused by the store; a failed search that was superseded still shows its
error; the last heatmap column borrows the width of the gap before it; two
datapoints in one millisecond leave the dot on the earlier and the selection on
the later one; 64-bit metric values lose precision beyond 2^53; a log ingested
between `searchLogs` and `getStats` is in the badge's baseline and not in the list.

## Not modelled

- Opening a file (`version.go`), `Start`'s error paths and the order in which the
  collector stops its parts (`extension.go:124`): once, before or after anything
  runs beside them.
- The attribute memo (`attribute_memo.go:230`): it compares the set behind a
  hash; `Store` abstracts hashes, so nothing is left to check.
- SQL as text, floating-point aggregation, exponential histograms, the M4 election
  of raw points; HTTP and static files; configuration and wiring.
- Histogram samples whose bounds differ, whose merge the store refuses
  (`get_metric.sql:1492-1500`): `Bounds` is one for all. Windows past the ladder
  (`bucket_width_ns.sql:46-47`), longer than all its widths allow: `ReductionAssumption`
  asks for a rung that fits. A histogram whose count is not the sum of its buckets.
- In the frontend: sort orders, `?event=`, error banners and toasts, exemplars,
  overlays of exemplars, axes, tooltips, number and date formats, the time zone,
  the calendar dialog, highlighting, the help dialog, layout, styling, icons, the
  theme. The badge of the traces page, whose baseline `fetchList` assigns before
  its sequence check (`TracesPage.svelte:113`), is modelled only for logs.
- Attribute values and hashing: ids are opaque, collisions do not happen.

What could come next: the badge of all three pages; the datapoint list's window of rendered rows.
