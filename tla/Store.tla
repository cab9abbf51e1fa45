-------------------------------- MODULE Store --------------------------------
(***************************************************************************)
(* The telemetry store behind otel-desktop-viewer: the DuckDB tables, the  *)
(* attribute dictionary they share, the in-process FlushedIDs cache that   *)
(* lets an ingest skip dictionary inserts, and every operation that        *)
(* changes them.                                                           *)
(*                                                                         *)
(* DuckDB runs every statement in autocommit, so one statement is one      *)
(* action and a failure or a crash may fall between any two of them.  An   *)
(* ingest runs under WithConn (read side of Store.mu), so readers see each *)
(* of its intermediate states; a delete, clear or retention round runs     *)
(* under WithDBWrite (write side), so no ingest runs beside it.            *)
(*                                                                         *)
(* Every row is a record: its key, the keys its foreign keys name, and the *)
(* attribute ids its uuid[] columns hold.  DuckDB checks the foreign keys; *)
(* it cannot check a LIST, so nothing but the protocol below protects the  *)
(* attribute ids.                                                          *)
(***************************************************************************)
EXTENDS Naturals, Sequences

CONSTANTS Ids,            \* opaque row identities (content hashes and uuids)
          Batches,        \* the OTLP requests a receiver can hand to the exporter
          MaxIngests,     \* bound on the number of deliveries
          FlushInterval   \* items between two FlushAppenders calls

DictTables == {"attributes", "resources", "scopes", "histogram_bounds"}

OwnerTables == {"spans", "events", "links", "logs", "metric_streams",
                "metric_series", "metric_ingests", "datapoints", "exemplars"}

\* Tables whose rows get a fresh uuid on every ingest; the ids of the others
\* are derived from the telemetry itself.
FreshTables == {"events", "links", "logs", "metric_ingests", "datapoints", "exemplars"}

Key     == [t : DictTables \cup OwnerTables, id : Ids, n : 0 .. MaxIngests]
AttrKey == {k \in Key : k.t = "attributes"}

\* attrs: the attribute_ids column; meta: metric_ingests.metadata_ids.
Row == [key : Key, fk : SUBSET Key, attrs : SUBSET AttrKey, meta : SUBSET AttrKey]

Keys(rows)       == {r.key : r \in rows}
OfTable(rows, t) == {r \in rows : r.key.t = t}

Signals == {"spans", "logs", "metrics"}

\* One OTLP request: the resources, scopes and bounds it carries, the metric
\* streams and series it resolves to, and per span, log record or metric the
\* rows pass 2 appends for it.
BatchType == [sig     : Signals,
              dict    : SUBSET {r \in Row : r.key.t \in DictTables \ {"attributes"}},
              streams : SUBSET {r \in Row : r.key.t = "metric_streams"},
              series  : SUBSET {r \in Row : r.key.t = "metric_series"},
              items   : Seq(SUBSET {r \in Row : r.key.t \in FreshTables \cup {"spans"}})]

ItemRows(b) == UNION {b.items[i] : i \in DOMAIN b.items}

\* Mutant: pass 1 without addExemplarAttributes.
Attributes_NoExemplars(b) ==
  UNION {r.attrs \cup r.meta : r \in b.dict \cup {i \in ItemRows(b) : i.key.t # "exemplars"}}

\* Pass 1: every attribute id AddResource, AddScope, AddAttributes and
\* addMetricAttributes register for the request.
Attributes(b) == UNION {r.attrs \cup r.meta : r \in b.dict \cup ItemRows(b)}

\* The foreign keys of the schema: the tables whose keys a row of t names.
References(t) ==
  CASE t \in {"spans", "logs"}     -> {"resources", "scopes"}
    [] t \in {"events", "links"}   -> {"spans"}
    [] t = "metric_series"         -> {"metric_streams", "resources"}
    [] t = "metric_ingests"        -> {"metric_streams", "resources", "scopes"}
    [] t = "datapoints"            -> {"metric_streams", "metric_series", "metric_ingests",
                                       "histogram_bounds"}
    [] t = "exemplars"             -> {"datapoints"}
    [] OTHER                       -> {}

\* The tables pass 2 of a signal appends to.
ItemTables(sig) == CASE sig = "spans"   -> {"spans", "links", "events"}
                     [] sig = "logs"    -> {"logs"}
                     [] sig = "metrics" -> {"metric_ingests", "datapoints", "exemplars"}

\* metric_streams has no attribute column; a series carries the label set of
\* the datapoints that belong to it.
ASSUME BatchesAssumption ==
  /\ Batches \subseteq BatchType
  /\ \A b \in Batches : /\ \A r \in b.streams : r.attrs = {}
                        /\ \A r \in b.series : r.attrs \subseteq Attributes(b)

AllRows(b)   == b.dict \cup b.streams \cup b.series \cup ItemRows(b)
StreamsOf(r) == {k \in r.fk : k.t = "metric_streams"}

\* The ids of a request name rows of the request, in the tables the schema
\* says; uuids are stamped as rows are appended, and no two are equal.
Closed(b) ==
  /\ \A r \in AllRows(b) : /\ r.key.n = 0 /\ \A k \in r.fk : k.n = 0
                           /\ \A k \in r.fk : k.t \in References(r.key.t)
  /\ \A r \in b.series : r.fk \subseteq Keys(b.dict \cup b.streams)
  /\ \A i \in DOMAIN b.items : \A r \in b.items[i] :
       /\ r.key.t \in ItemTables(b.sig)
       /\ r.fk \subseteq Keys(b.dict \cup b.streams \cup b.series \cup b.items[i])
  /\ \A r, s \in ItemRows(b) : r.key = s.key /\ r.key.t \in FreshTables => r = s

\* histogram_bounds has no attribute column.  A datapoint is appended with the
\* stream of its metric, the ingest row of that metric and a series of that
\* stream; the id of a series is a hash of its stream, resource and labels.
ASSUME RequestsAssumption ==
  /\ \A b \in Batches :
       /\ Closed(b)
       /\ \A r \in b.dict : r.key.t = "histogram_bounds" => r.attrs = {}
       /\ \A d \in ItemRows(b) : d.key.t = "datapoints" =>
            /\ \E k \in d.fk : k.t = "metric_ingests"
            /\ \A p \in b.series \cup ItemRows(b) :
                 p.key \in d.fk => StreamsOf(p) = StreamsOf(d)
  /\ \A b, c \in Batches : \A r \in b.series, s \in c.series : r.key = s.key => r.fk = s.fk

ASSUME BoundsAssumption == MaxIngests \in Nat /\ FlushInterval \in Nat \ {0}

VARIABLES
  db,        \* the committed rows
  flushed,   \* FlushedIDs: dictionary keys believed to be in db
  pc,        \* where the running ingest is, or "idle"
  batch,     \* the request being ingested
  nth,       \* number of deliveries so far; stamps fresh uuids
  pos,       \* items of the batch appended so far
  buf,       \* rows buffered in the appenders
  tabs,      \* appenders still to be flushed or closed, parents first
  failed,    \* the running (or last) ingest has met an error
  wtodo,     \* statements left of the write-locked operation
  removed    \* dictionary keys the running sweep has deleted so far

ingVars == <<pc, batch, nth, pos, buf, tabs, failed>>
wrVars  == <<wtodo, removed>>
vars    == <<db, flushed, pc, batch, nth, pos, buf, tabs, failed, wtodo, removed>>

----------------------------------------------------------------------------
(* DuckDB's constraints, as the code relies on them.                       *)

FKSatisfied(rows) == \A r \in rows : r.fk \subseteq Keys(db)

PKSatisfied(rows) ==
  /\ \A r \in rows : r.key \notin Keys(db)
  /\ \A r, s \in rows : r.key = s.key => r = s

\* insert ... on conflict do nothing
InsertNew(rows) == db \cup {r \in rows : r.key \notin Keys(db)}

----------------------------------------------------------------------------
(* Ingest: WithConn(spans.Ingest | logs.Ingest | metrics.Ingest).          *)

AttributeRow(k) == [key |-> k, fk |-> {}, attrs |-> {}, meta |-> {}]

\* The rows the statement named by a pc value writes for a batch.
StageRows(b, t) ==
  CASE t = "attributes"     -> {AttributeRow(k) : k \in Attributes(b)}
    [] t = "metric_streams" -> b.streams
    [] t = "metric_series"  -> b.series
    [] OTHER                -> OfTable(b.dict, t)

\* metrics.Ingest resolves its streams before the dictionary flush and its
\* series after it; Dictionary.Flush is attributes, resources, scopes, bounds.
\* A metrics request without a metric writes nothing at all.
FirstStage(b) == IF b.sig # "metrics" THEN "attributes"
                 ELSE IF b.items = <<>> THEN "idle" ELSE "metric_streams"
NextStage(sig, t) ==
  CASE t = "metric_streams"   -> "attributes"
    [] t = "attributes"       -> "resources"
    [] t = "resources"        -> "scopes"
    [] t = "scopes"           -> "histogram_bounds"
    [] t = "histogram_bounds" -> IF sig = "metrics" THEN "metric_series" ELSE "append"
    [] t = "metric_series"    -> "append"

Stages == DictTables \cup {"metric_streams", "metric_series"}

\* Mutant: the appenders are walked forwards, dependents first.
FlushOrder_ChildrenFirst(sig) ==
  CASE sig = "spans"   -> <<"events", "links", "spans">>
    [] sig = "logs"    -> <<"logs">>
    [] sig = "metrics" -> <<"exemplars", "datapoints", "metric_ingests">>

\* Mutant: a table left out of `tables`, so its appender is never closed.
FlushOrder_NoLinks(sig) ==
  CASE sig = "spans"   -> <<"spans", "events">>
    [] sig = "logs"    -> <<"logs">>
    [] sig = "metrics" -> <<"metric_ingests", "datapoints", "exemplars">>

\* FlushAppenders and CloseAppenders both walk `tables` backwards.
FlushOrder(sig) ==
  CASE sig = "spans"   -> <<"spans", "links", "events">>
    [] sig = "logs"    -> <<"logs">>
    [] sig = "metrics" -> <<"metric_ingests", "datapoints", "exemplars">>

StampKey(k, n) == IF k.t \in FreshTables THEN [k EXCEPT !.n = n] ELSE k
Stamp(r, n)    == [r EXCEPT !.key = StampKey(r.key, n),
                            !.fk  = {StampKey(k, n) : k \in r.fk}]

\* No request in flight.
NoBatch == [sig |-> "logs", dict |-> {}, streams |-> {}, series |-> {}, items |-> <<>>]

\* pushTraces / pushLogs / pushMetrics: the read side of Store.mu is free only
\* while no write-locked operation runs, and ingestMu admits one ingest.
BeginIngest(b) ==
  /\ wtodo = <<>>
  /\ pc = "idle"
  /\ nth < MaxIngests
  /\ nth' = nth + 1
  /\ batch' = b
  /\ pc' = FirstStage(b)
  /\ failed' = FALSE
  /\ UNCHANGED <<db, flushed, pos, buf, tabs, wrVars>>

EndIngest == /\ pc' = "idle" /\ batch' = NoBatch /\ pos' = 0
             /\ buf' = {} /\ tabs' = <<>>

\* flushRows for a dictionary table: insert what the cache has not seen and
\* mark it only once the insert has succeeded.
FlushRows ==
  /\ pc \in DictTables
  /\ LET unseen == {r \in StageRows(batch, pc) : r.key \notin flushed}
     IN /\ db' = InsertNew(unseen)
        /\ flushed' = flushed \cup Keys(unseen)
  /\ pc' = NextStage(batch.sig, pc)
  /\ UNCHANGED <<batch, nth, pos, buf, tabs, failed, wrVars>>

\* The metric_streams upsert and insertSeries: no cache in front of them.
UpsertIdentity ==
  /\ pc \in {"metric_streams", "metric_series"}
  /\ FKSatisfied(StageRows(batch, pc))
  /\ db' = InsertNew(StageRows(batch, pc))
  /\ pc' = NextStage(batch.sig, pc)
  /\ UNCHANGED <<flushed, batch, nth, pos, buf, tabs, failed, wrVars>>

\* Any of those statements fails, or its error reaches the client after it
\* took effect; the ingest returns before opening appenders.
StageFails ==
  /\ pc \in Stages
  /\ \/ UNCHANGED db
     \/ /\ FKSatisfied(StageRows(batch, pc))
        /\ db' = InsertNew({r \in StageRows(batch, pc) : r.key \notin flushed})
  /\ failed' = TRUE
  /\ EndIngest
  /\ UNCHANGED <<flushed, nth, wrVars>>

\* Pass 2 appends one span, log record or metric with everything it owns.
AppendItem ==
  /\ pc = "append"
  /\ pos < Len(batch.items)
  /\ buf' = buf \cup {Stamp(r, nth) : r \in batch.items[pos + 1]}
  /\ pos' = pos + 1
  /\ IF pos' % FlushInterval = 0
     THEN pc' = "flush" /\ tabs' = FlushOrder(batch.sig)
     ELSE UNCHANGED <<pc, tabs>>
  /\ UNCHANGED <<db, flushed, batch, nth, failed, wrVars>>

\* Pass 2 returns, and the deferred CloseAppenders runs.
StartClose == pc' = "close" /\ tabs' = FlushOrder(batch.sig)

FinishItems ==
  /\ pc = "append"
  /\ pos = Len(batch.items)
  /\ StartClose
  /\ UNCHANGED <<db, flushed, batch, nth, pos, buf, failed, wrVars>>

\* ctx.Err() before an item (the IngestTimeout deadline or a shutdown), or an
\* AppendRow that fails part-way through one.
AbortItems ==
  /\ pc = "append"
  /\ pos < Len(batch.items)
  /\ \E part \in SUBSET batch.items[pos + 1] :
       /\ \A r \in part : r.fk \cap Keys(batch.items[pos + 1]) \subseteq Keys(part)
       /\ buf' = buf \cup {Stamp(r, nth) : r \in part}
  /\ StartClose
  /\ failed' = TRUE
  /\ UNCHANGED <<db, flushed, batch, nth, pos, wrVars>>

\* FlushAppenders, one appender: commits its buffer, or fails as a whole with
\* the buffer kept; the first failure ends the walk.
FlushTable ==
  /\ pc = "flush"
  /\ LET rows == OfTable(buf, Head(tabs)) IN
     \/ /\ FKSatisfied(rows) /\ PKSatisfied(rows)
        /\ db' = db \cup rows
        /\ buf' = buf \ rows
        /\ tabs' = Tail(tabs)
        /\ pc' = IF Tail(tabs) = <<>> THEN "append" ELSE "flush"
        /\ UNCHANGED failed
     \/ /\ StartClose
        /\ failed' = TRUE
        /\ UNCHANGED <<db, buf>>
  /\ UNCHANGED <<flushed, batch, nth, pos, wrVars>>

\* CloseAppenders, one appender: Close flushes what is left; an error is
\* joined and the remaining appenders are closed all the same.
CloseTable ==
  /\ pc = "close"
  /\ LET rows == OfTable(buf, Head(tabs)) IN
     /\ \/ /\ FKSatisfied(rows) /\ PKSatisfied(rows)
           /\ db' = db \cup rows
           /\ UNCHANGED failed
        \/ failed' = TRUE /\ UNCHANGED db
     /\ IF Tail(tabs) = <<>>
        THEN EndIngest
        ELSE buf' = buf \ rows /\ tabs' = Tail(tabs) /\ UNCHANGED <<pc, batch, pos>>
  /\ UNCHANGED <<flushed, nth, wrVars>>

----------------------------------------------------------------------------
(* Write-locked operations.  Each is a list of statements run in order.    *)

Truncate(t)         == [op |-> "truncate",  t |-> t, of |-> {}, child |-> t]
Delete(t, ks)       == [op |-> "delete",    t |-> t, of |-> ks, child |-> t]
Childless(t, child) == [op |-> "childless", t |-> t, of |-> {}, child |-> child]
Sweep(t)            == [op |-> "sweep",     t |-> t, of |-> {}, child |-> t]

OwnerStmt == [op : {"truncate", "delete", "childless"}, t : OwnerTables,
              of : SUBSET Key, child : OwnerTables]
SweepStmt == [op : {"sweep"}, t : DictTables, of : SUBSET Key, child : DictTables]

\* Mutant: the resources arm of the union is missing.
LiveAttributeIDs_NoResources == UNION {r.attrs : r \in {d \in db : d.key.t # "resources"}}

\* liveAttributeIDs: the attribute_ids columns only.
LiveAttributeIDs == UNION {r.attrs : r \in db}

\* The rows of table t a foreign key of a live row, or an attribute_ids
\* column, still names.
LiveIn(t) == IF t = "attributes" THEN LiveAttributeIDs ELSE UNION {r.fk : r \in db}

\* The rows a statement deletes.
Victims(s) ==
  {r \in OfTable(db, s.t) :
     CASE s.op = "truncate"  -> TRUE
       [] s.op = "delete"    -> r.key \in s.of \/ r.fk \cap s.of # {}
       [] s.op = "childless" -> \A c \in OfTable(db, s.child) : r.key \notin c.fk
       [] s.op = "sweep"     -> r.key \notin LiveIn(s.t)}

\* DuckDB refuses a delete that would leave a foreign key dangling; truncate
\* does not check.
FKBlocks(s) ==
  /\ s.op # "truncate"
  /\ \E r \in db \ Victims(s) : r.fk \cap Keys(Victims(s)) # {}

\* Mutant: attributes swept before the resources and scopes that own them.
SweepOrphans_AttributesFirst ==
  <<Sweep("attributes"), Sweep("resources"), Sweep("scopes"), Sweep("histogram_bounds")>>

\* sweepQueries, in order.
SweepOrphans ==
  <<Sweep("resources"), Sweep("scopes"), Sweep("attributes"), Sweep("histogram_bounds")>>

\* Leaves first, for DeleteSpansByIDs, DeleteSpansByTraceIDs and pruneOldestSpans.
SpanDeletes(ks) == <<Delete("links", ks), Delete("events", ks), Delete("spans", ks)>>

DatapointDeletes(ks) == <<Delete("exemplars", ks), Delete("datapoints", ks)>>

\* WithDBWrite(fn): the lock is free of ingests and of other writers.
WithDBWrite(stmts) ==
  /\ pc = "idle"
  /\ wtodo = <<>>
  /\ wtodo' = stmts
  /\ UNCHANGED <<db, flushed, ingVars, removed>>

KeysIn(t) == Keys(OfTable(db, t))

DeleteAll(t) == Delete(t, KeysIn(t))

\* deleteSpanByID and deleteSpansByTraceID (a trace is a set of spans).
DeleteSpans == \E ks \in SUBSET KeysIn("spans") : ks # {} /\ WithDBWrite(SpanDeletes(ks))

DeleteLogs == \E ks \in SUBSET KeysIn("logs") :
                ks # {} /\ WithDBWrite(<<Delete("logs", ks)>>)

\* deleteMetricStream: a child-first cascade; exemplars are reached through
\* the stream's datapoints.
DeleteMetricStream ==
  \E k \in KeysIn("metric_streams") :
    LET points == {r.key : r \in {d \in OfTable(db, "datapoints") : k \in d.fk}}
    IN WithDBWrite(<<Delete("exemplars", points), Delete("datapoints", {k}),
                     Delete("metric_series", {k}), Delete("metric_ingests", {k}),
                     Delete("metric_streams", {k})>>)

ClearTraces ==
  WithDBWrite(<<Truncate("links"), Truncate("events"), Truncate("spans")>> \o SweepOrphans)

ClearLogs == WithDBWrite(<<Truncate("logs")>> \o SweepOrphans)

ClearMetrics ==
  WithDBWrite(<<DeleteAll("exemplars"), DeleteAll("datapoints"), DeleteAll("metric_series"),
                DeleteAll("metric_ingests"), DeleteAll("metric_streams")>> \o SweepOrphans)

\* sweepIfOverCap, on the path where the store is over its cap.
SweepIfOverCap == WithDBWrite(SweepOrphans)

\* Rows older than a strict percentile cutoff: never the newest one.
Older(t) == {ks \in SUBSET KeysIn(t) : ks # {} => ks # KeysIn(t)}

\* enforceRound, on the path where the store is over its cap: the three
\* prunes, then the sweep.  pruneOldestDatapoints returns at once when there
\* is no datapoint.
EnforceRound ==
  \E ss \in Older("spans"), ls \in Older("logs"), ds \in Older("datapoints") :
    WithDBWrite(
         (IF KeysIn("spans") = {} THEN <<>> ELSE SpanDeletes(ss))
      \o (IF KeysIn("logs") = {} THEN <<>> ELSE <<Delete("logs", ls)>>)
      \o (IF KeysIn("datapoints") = {} THEN <<>>
          ELSE DatapointDeletes(ds) \o
               <<Childless("metric_series", "datapoints"),
                 Childless("metric_ingests", "datapoints"),
                 Childless("metric_streams", "metric_ingests")>>)
      \o SweepOrphans)

\* Mutant: the cache is not told what the sweep deleted.
ForgetIDs_Nothing(ids) == flushed

\* forgetIDs: drop exactly the deleted keys from the cache.
ForgetIDs(ids) == flushed \ ids

\* The next statement succeeds.  SweepOrphans gathers the keys its statements
\* return and takes them out of the cache after the last one (forgetIDs).
RunStatement ==
  /\ wtodo # <<>>
  /\ LET s    == Head(wtodo)
         dead == IF s.op = "sweep" THEN Keys(Victims(s)) ELSE {}
         last == Tail(wtodo) = <<>>
     IN /\ ~FKBlocks(s)
        /\ db' = db \ Victims(s)
        /\ wtodo' = Tail(wtodo)
        /\ removed' = IF last THEN {} ELSE removed \cup dead
        /\ flushed' = IF last THEN ForgetIDs(removed \cup dead) ELSE flushed
  /\ UNCHANGED ingVars

\* It fails, before or after taking effect, and the operation returns.  A sweep
\* statement that fails drops the whole cache (Forget).
StatementFails ==
  /\ wtodo # <<>>
  /\ LET s == Head(wtodo)
     IN /\ \/ UNCHANGED db
           \/ ~FKBlocks(s) /\ db' = db \ Victims(s)
        /\ flushed' = IF s.op = "sweep" THEN {} ELSE flushed
  /\ wtodo' = <<>>
  /\ removed' = {}
  /\ UNCHANGED ingVars

----------------------------------------------------------------------------
\* Mutant: the cache is warmed from every table.
LoadFlushedIDs_AllTables == Keys(db)

\* LoadFlushedIDs: the ids of the four dictionary tables.
LoadFlushedIDs == {k \in Keys(db) : k.t \in DictTables}

\* The process stops at any point and NewStore opens the file again: what was
\* committed stays, what was buffered is gone, LoadFlushedIDs warms the cache.
Restart ==
  /\ flushed' = LoadFlushedIDs
  /\ EndIngest
  /\ failed' = (pc # "idle")
  /\ wtodo' = <<>> /\ removed' = {}
  /\ UNCHANGED <<db, nth>>

Init ==
  /\ db = {} /\ flushed = {}
  /\ pc = "idle" /\ batch = NoBatch /\ nth = 0 /\ pos = 0
  /\ buf = {} /\ tabs = <<>> /\ failed = FALSE
  /\ wtodo = <<>> /\ removed = {}

Ingest == \/ \E b \in Batches : BeginIngest(b)
          \/ FlushRows \/ UpsertIdentity \/ StageFails
          \/ AppendItem \/ FinishItems \/ AbortItems
          \/ FlushTable \/ CloseTable

Write == \/ DeleteSpans \/ DeleteLogs \/ DeleteMetricStream
         \/ ClearTraces \/ ClearLogs \/ ClearMetrics
         \/ SweepIfOverCap \/ EnforceRound
         \/ RunStatement \/ StatementFails

Next == Ingest \/ Write \/ Restart

Spec == Init /\ [][Next]_vars

----------------------------------------------------------------------------
(* Properties.                                                             *)

\* Statements a write-locked operation is made of.
Stmt == OwnerStmt \cup SweepStmt

\* Type invariant: rows, cache, ingest and statement state keep their shapes,
\* and the cache never holds anything but dictionary keys.
TypeOK ==
  /\ db \subseteq Row
  /\ flushed \subseteq {k \in Key : k.t \in DictTables}
  /\ pc \in Stages \cup {"idle", "append", "flush", "close"}
  /\ batch \in Batches \cup {NoBatch}
  /\ nth \in 0 .. MaxIngests
  /\ pos \in Nat
  /\ buf \subseteq Row
  /\ tabs \in Seq(OwnerTables)
  /\ failed \in BOOLEAN
  /\ wtodo \in Seq(Stmt)
  /\ removed \subseteq {k \in Key : k.t \in DictTables}

\* FlushedIDs never claims a row that is not there whenever an ingest can
\* consult it (flushed.go: "a stale entry" is the undetectable failure), after
\* any mix of failed inserts, failed sweeps, clears and restarts.
FlushedSound == wtodo = <<>> => flushed \subseteq Keys(db)

\* Every id in an attribute_ids column has its dictionary row, in every state a
\* reader or a crash can observe; no foreign key can check this.
NoDangling == \A r \in db : r.attrs \subseteq Keys(db)

\* The same for metric_ingests.metadata_ids.
NoDanglingMetadata == \A r \in db : r.meta \subseteq Keys(db)

\* Every foreign key has its target, including across the truncates of the
\* clear handlers, which DuckDB does not check.
ParentsPresent == \A r \in db : r.fk \subseteq Keys(db)

\* An ingest that has met no error never writes a row whose foreign key is
\* missing: the dictionary flush, the series insert and the parents-first
\* appender order have put every target there first.
FKNeverFails ==
  /\ pc \in Stages => FKSatisfied(StageRows(batch, pc))
  /\ pc \in {"flush", "close"} /\ ~failed => FKSatisfied(OfTable(buf, Head(tabs)))

\* No delete, clear or retention statement is ever refused by a foreign key,
\* whatever earlier partial ingests and partial deletes have left behind.
DeletesNeverBlocked == wtodo # <<>> => ~FKBlocks(Head(wtodo))

\* The three together: no statement meets a foreign key it would violate, and
\* none that DuckDB does not check leaves one violated.
ForeignKeysHold == ParentsPresent /\ FKNeverFails /\ DeletesNeverBlocked

\* Dictionary rows nothing refers to.
Orphans == {r \in db : r.key.t \in DictTables /\ r.key \notin LiveIn(r.key.t)}

\* One complete SweepOrphans leaves no orphan: the owners among the dictionary
\* tables go before the attributes they own.
SweepCollectsAll ==
  [][RunStatement /\ Head(wtodo).op = "sweep" /\ wtodo' = <<>> => Orphans' = {}]_vars

\* An ingest that reports success has committed every row of its request.
IngestComplete ==
  [][pc = "close" /\ pc' = "idle" /\ ~failed'
       => {Stamp(r, nth) : r \in ItemRows(batch)} \subseteq db']_vars

----------------------------------------------------------------------------
(* What a read renders for a telemetry row: its own attributes and those   *)
(* of the resource and scope it points at.  `sent` is what the rows name,  *)
(* `shown` what the join with the dictionary finds.                        *)

Rendered(r) ==
  LET parts == {r} \cup {d \in db : d.key \in r.fk /\ d.key.t \in DictTables}
  IN [key   |-> r.key,
      sent  |-> {<<d.key, d.attrs>> : d \in parts},
      shown |-> {<<d.key, d.attrs \cap Keys(db)>> : d \in parts}]

View == INSTANCE TelemetryView
          WITH view <- {Rendered(r) : r \in {d \in db : d.key.t \in OwnerTables}}

\* Dictionary upkeep is invisible: caches, sweeps, failures and restarts never
\* change how a row that is still stored is rendered.
ViewImplemented == View!Spec
=============================================================================
