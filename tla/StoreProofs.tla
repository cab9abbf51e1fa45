------------------------------ MODULE StoreProofs ------------------------------
(***************************************************************************)
(* The store is correct for every set of requests, every flush interval    *)
(* and any number of deliveries and callers.  The dictionary protocol: the *)
(* FlushedIDs cache never claims a row that is gone, and no attribute_ids  *)
(* column ever names a missing attribute.  The rows: foreign keys hold, an *)
(* ingest that succeeds is complete, a sweep leaves no orphan, and each    *)
(* step implements TelemetryView.  The locks: what runs beside what.  Last *)
(* the retention pass over the store.                                      *)
(***************************************************************************)
EXTENDS Store, StoreLocks, Retention, FiniteSetTheorems, TLAPS

\* The cache may be ahead of the dictionary only by what the running sweep has
\* deleted and not yet told it.
CacheInv == /\ flushed \ removed \subseteq Keys(db)
            /\ wtodo = <<>> => removed = {}

\* An ingest and a write-locked operation never overlap.
Excluded == pc # "idle" => wtodo = <<>>

\* Owner statements come before sweep statements, and once a sweep statement has
\* deleted something only sweep statements are left.
SweepsLast(w) == \A i, j \in 1 .. Len(w) : i <= j /\ w[i].op = "sweep" => w[j].op = "sweep"
OnlySweeps(w) == \A i \in 1 .. Len(w) : w[i].op = "sweep"
PlanInv == SweepsLast(wtodo) /\ (removed # {} => OnlySweeps(wtodo))

\* From the attributes flush on, every attribute of the request is stored.
Written == {"resources", "scopes", "histogram_bounds", "metric_series",
            "append", "flush", "close"}
DictReady == pc \in Written => Attributes(batch) \subseteq Keys(db)

\* The appenders hold rows of the running request only, and a walk over them
\* has somewhere to go.
Buffered == /\ \A r \in buf : r.attrs \subseteq Attributes(batch)
            /\ pc \notin {"append", "flush", "close"} => buf = {}
            /\ pc \in {"flush", "close"} => tabs # <<>>

\* The inductive invariant.
StoreInv == /\ TypeOK /\ NoDangling
            /\ CacheInv /\ Excluded /\ PlanInv /\ DictReady /\ Buffered

----------------------------------------------------------------------------
(* Facts about the operators.                                              *)

\* Membership in the keys of a set of rows.
LEMMA KeysFact ==
  ASSUME NEW part, NEW k
  PROVE  k \in Keys(part) <=> \E r \in part : r.key = k
BY DEF Keys

\* What a row is made of.
LEMMA RowFact ==
  ASSUME NEW r \in Row
  PROVE  /\ r.key \in Key /\ r.key.t \in DictTables \cup OwnerTables
         /\ r.fk \subseteq Key /\ r.attrs \subseteq AttrKey /\ r.meta \subseteq AttrKey
BY DEF Row, Key

\* The two kinds of table are disjoint.
LEMMA TablesDisjoint == \A t \in OwnerTables : t \notin DictTables
BY DEF OwnerTables, DictTables

\* A request is typed, whether one is running or not.
LEMMA BatchFact ==
  ASSUME NEW b \in Batches \cup {NoBatch}
  PROVE  /\ b \in BatchType
         /\ \A r \in b.streams : r.attrs = {}
         /\ \A r \in b.series : r.attrs \subseteq Attributes(b)
<1>1. CASE b \in Batches
  BY <1>1, BatchesAssumption
<1>2. CASE b = NoBatch
  <2>1. <<>> \in Seq(SUBSET {r \in Row : r.key.t \in FreshTables \cup {"spans"}})
    OBVIOUS
  <2> QED
    BY <1>2, <2>1 DEF NoBatch, BatchType, Signals
<1> QED
  BY <1>1, <1>2

\* The rows of a request are rows.
LEMMA ItemsFact ==
  ASSUME NEW b \in BatchType
  PROVE  /\ \A i \in DOMAIN b.items : b.items[i] \subseteq Row
         /\ ItemRows(b) \subseteq Row
         /\ b.dict \subseteq Row /\ b.streams \subseteq Row /\ b.series \subseteq Row
<1>1. \A i \in DOMAIN b.items : b.items[i] \subseteq Row
  BY DEF BatchType
<1> QED
  BY <1>1 DEF BatchType, ItemRows

\* Pass 1 collects attribute ids, and all those its rows hold.
LEMMA AttributesFact ==
  ASSUME NEW b \in BatchType
  PROVE  /\ Attributes(b) \subseteq AttrKey
         /\ \A r \in b.dict \cup ItemRows(b) : r.attrs \subseteq Attributes(b)
BY ItemsFact, RowFact DEF Attributes

\* The rows of a dictionary or identity statement are rows of that table.
LEMMA StageRowsFact ==
  ASSUME NEW b \in BatchType, NEW t \in Stages
  PROVE  \A r \in StageRows(b, t) : r \in Row /\ r.key.t = t
<1>1. CASE t = "attributes"
  BY <1>1, AttributesFact DEF StageRows, AttributeRow, Row, AttrKey
<1>2. CASE t # "attributes"
  BY <1>2, ItemsFact DEF StageRows, OfTable, Stages, BatchType, DictTables
<1> QED
  BY <1>1, <1>2

\* A fresh uuid changes the identity of a row and nothing else.
LEMMA StampFact ==
  ASSUME NEW r \in Row, NEW n \in 0 .. MaxIngests
  PROVE  Stamp(r, n) \in Row /\ Stamp(r, n).attrs = r.attrs
<1>1. \A k \in Key : StampKey(k, n) \in Key
  BY DEF Key, StampKey
<1> QED
  BY <1>1, RowFact DEF Stamp, Row

\* Insert on conflict do nothing keeps what is there and leaves every key present.
LEMMA InsertFact ==
  ASSUME NEW part
  PROVE  /\ Keys(InsertNew(part)) = Keys(db) \cup Keys(part)
         /\ db \subseteq InsertNew(part)
         /\ InsertNew(part) \subseteq db \cup part
BY KeysFact DEF InsertNew

\* Rows whose attributes are stored may be added to rows whose attributes are.
LEMMA AddRows ==
  ASSUME NoDangling, db \subseteq db',
         \A r \in db' \ db : r.attrs \subseteq Keys(db')
  PROVE  NoDangling'
BY KeysFact DEF NoDangling, Keys

----------------------------------------------------------------------------
(* Ingest steps.                                                           *)

\* Opening a request touches neither the tables nor the cache.
LEMMA BeginKeeps ==
  ASSUME StoreInv, NEW b \in Batches, BeginIngest(b)
  PROVE  StoreInv'
<1>1. TypeOK'
  <2>1. nth' \in 0 .. MaxIngests
    BY BoundsAssumption DEF BeginIngest, StoreInv, TypeOK
  <2>2. pc' \in Stages \cup {"idle", "append", "flush", "close"}
    BY DEF BeginIngest, FirstStage, Stages, DictTables
  <2>3. failed' \in BOOLEAN /\ batch' \in Batches \cup {NoBatch}
    BY DEF BeginIngest
  <2> QED
    BY <2>1, <2>2, <2>3 DEF BeginIngest, StoreInv, TypeOK, wrVars
<1>2. NoDangling' /\ CacheInv' /\ Excluded' /\ PlanInv'
  BY DEF BeginIngest, StoreInv, NoDangling, CacheInv, Excluded, PlanInv, wrVars
<1>3. DictReady' /\ Buffered'
  BY DEF BeginIngest, StoreInv, DictReady, Buffered, FirstStage, Written
<1> QED
  BY <1>1, <1>2, <1>3 DEF StoreInv

\* What a dictionary or identity statement adds has its attributes stored.
LEMMA StageAttrs ==
  ASSUME StoreInv, pc \in Stages
  PROVE  \A r \in StageRows(batch, pc) :
           \/ r.attrs = {}
           \/ r.attrs \subseteq Keys(db)
<1> DEFINE t == pc
<1>1. batch \in BatchType /\ batch \in Batches \cup {NoBatch}
  BY BatchFact DEF StoreInv, TypeOK
<1>2. CASE t = "attributes"
  BY <1>2 DEF StageRows, AttributeRow
<1>3. CASE t = "metric_streams"
  BY <1>1, <1>3, BatchFact DEF StageRows
<1>4. CASE t = "metric_series"
  BY <1>1, <1>4, BatchFact DEF StageRows, StoreInv, DictReady, Written
<1>5. CASE t \in {"resources", "scopes", "histogram_bounds"}
  <2>1. StageRows(batch, t) \subseteq batch.dict
    BY <1>5 DEF StageRows, OfTable
  <2>2. Attributes(batch) \subseteq Keys(db)
    BY <1>5 DEF StoreInv, DictReady, Written
  <2> QED
    BY <1>1, <2>1, <2>2, AttributesFact
<1> QED
  BY <1>2, <1>3, <1>4, <1>5 DEF Stages, DictTables

\* The stage after a dictionary or identity statement.
LEMMA NextStageFact ==
  ASSUME NEW sig, NEW t \in Stages
  PROVE  /\ NextStage(sig, t) \in Stages \cup {"append"}
         /\ NextStage(sig, t) \in Written => t = "attributes" \/ t \in Written
BY DEF NextStage, Stages, DictTables, Written

\* flushRows marks only what it has inserted, and what it does not insert the
\* cache rightly claims.
LEMMA FlushRowsKeeps ==
  ASSUME StoreInv, FlushRows
  PROVE  StoreInv'
<1> DEFINE all    == StageRows(batch, pc)
           unseen == {r \in all : r.key \notin flushed}
<1>1. /\ pc \in DictTables /\ pc \in Stages
      /\ db' = InsertNew(unseen) /\ flushed' = flushed \cup Keys(unseen)
      /\ pc' = NextStage(batch.sig, pc)
      /\ UNCHANGED <<batch, nth, pos, buf, tabs, failed, wtodo, removed>>
  BY DEF FlushRows, wrVars, Stages
<1>2. batch \in BatchType
  BY BatchFact DEF StoreInv, TypeOK
<1>3. \A r \in all : r \in Row /\ r.key.t = pc
  BY <1>1, <1>2, StageRowsFact
<1>4. wtodo = <<>> /\ removed = {}
  BY <1>1 DEF StoreInv, Excluded, CacheInv, DictTables
<1>5. Keys(db') = Keys(db) \cup Keys(unseen) /\ db \subseteq db' /\ db' \subseteq db \cup unseen
  BY <1>1, InsertFact
<1>6. TypeOK'
  <2>1. db' \subseteq Row
    BY <1>3, <1>5 DEF StoreInv, TypeOK
  <2>2. Keys(unseen) \subseteq {k \in Key : k.t \in DictTables}
    BY <1>1, <1>3, KeysFact, RowFact
  <2>3. pc' \in Stages \cup {"append"}
    BY <1>1, NextStageFact
  <2> QED
    BY <1>1, <2>1, <2>2, <2>3 DEF StoreInv, TypeOK
<1>7. NoDangling'
  BY <1>1, <1>5, StageAttrs, AddRows DEF StoreInv
<1>8. CacheInv' /\ Excluded' /\ PlanInv'
  BY <1>1, <1>4, <1>5 DEF StoreInv, CacheInv, Excluded, PlanInv
<1>9. DictReady'
  <2>1. CASE pc = "attributes"
    <3>1. Attributes(batch) = Keys(all)
      <4>1. all = {AttributeRow(k) : k \in Attributes(batch)}
        BY <2>1 DEF StageRows
      <4>2. \A k : AttributeRow(k).key = k
        BY DEF AttributeRow
      <4> QED
        BY <4>1, <4>2 DEF Keys
    <3>2. Keys(all) \subseteq flushed \cup Keys(unseen)
      BY KeysFact
    <3> QED
      BY <1>1, <1>4, <1>5, <3>1, <3>2 DEF StoreInv, CacheInv, DictReady
  <2>2. CASE pc # "attributes"
    BY <1>1, <1>5, <2>2, NextStageFact DEF StoreInv, DictReady
  <2> QED
    BY <2>1, <2>2
<1>10. Buffered'
  <2>1. pc' \notin {"flush", "close"} /\ buf = {}
    BY <1>1, NextStageFact DEF StoreInv, Buffered, Stages, DictTables
  <2> QED
    BY <1>1, <2>1 DEF Buffered
<1> QED
  BY <1>6, <1>7, <1>8, <1>9, <1>10 DEF StoreInv

\* Streams and series are upserted with their attributes, if any, stored.
LEMMA UpsertKeeps ==
  ASSUME StoreInv, UpsertIdentity
  PROVE  StoreInv'
<1> DEFINE all == StageRows(batch, pc)
<1>1. /\ pc \in {"metric_streams", "metric_series"} /\ pc \in Stages
      /\ db' = InsertNew(all) /\ flushed' = flushed
      /\ pc' = NextStage(batch.sig, pc)
      /\ UNCHANGED <<batch, nth, pos, buf, tabs, failed, wtodo, removed>>
  BY DEF UpsertIdentity, wrVars, Stages
<1>2. batch \in BatchType
  BY BatchFact DEF StoreInv, TypeOK
<1>3. Keys(db) \subseteq Keys(db') /\ db \subseteq db' /\ db' \subseteq db \cup all
  BY <1>1, InsertFact
<1>4. TypeOK'
  <2>1. db' \subseteq Row
    BY <1>1, <1>2, <1>3, StageRowsFact DEF StoreInv, TypeOK
  <2>2. pc' \in Stages \cup {"append"}
    BY <1>1, NextStageFact
  <2> QED
    BY <1>1, <2>1, <2>2 DEF StoreInv, TypeOK
<1>5. NoDangling'
  BY <1>1, <1>3, StageAttrs, AddRows DEF StoreInv
<1>6. CacheInv' /\ Excluded' /\ PlanInv'
  BY <1>1, <1>3 DEF StoreInv, CacheInv, Excluded, PlanInv
<1>7. DictReady'
  BY <1>1, <1>3, NextStageFact DEF StoreInv, DictReady
<1>8. Buffered'
  <2>1. pc' \notin {"flush", "close"} /\ buf = {}
    BY <1>1, NextStageFact DEF StoreInv, Buffered, Stages, DictTables
  <2> QED
    BY <1>1, <2>1 DEF Buffered
<1> QED
  BY <1>4, <1>5, <1>6, <1>7, <1>8 DEF StoreInv

\* Ending an ingest is safe wherever the tables and the cache are.
LEMMA EndKeeps ==
  ASSUME StoreInv, EndIngest, db' \subseteq Row, NoDangling',
         flushed' = flushed, Keys(db) \subseteq Keys(db'),
         nth' = nth, failed' \in BOOLEAN, UNCHANGED wrVars
  PROVE  StoreInv'
<1>1. TypeOK'
  <2>1. <<>> \in Seq(OwnerTables)
    OBVIOUS
  <2> QED
    BY <2>1 DEF EndIngest, StoreInv, TypeOK, wrVars
<1>2. CacheInv' /\ Excluded' /\ PlanInv'
  BY DEF EndIngest, StoreInv, CacheInv, Excluded, PlanInv, wrVars
<1>3. DictReady' /\ Buffered'
  BY DEF EndIngest, DictReady, Buffered, Written
<1> QED
  BY <1>1, <1>2, <1>3 DEF StoreInv

\* A failing statement of the dictionary flush leaves the cache as it was.
LEMMA StageFailsKeeps ==
  ASSUME StoreInv, StageFails
  PROVE  StoreInv'
<1> DEFINE some == {r \in StageRows(batch, pc) : r.key \notin flushed}
<1>1. /\ pc \in Stages /\ flushed' = flushed /\ nth' = nth /\ EndIngest /\ UNCHANGED wrVars
      /\ db' = db \/ db' = InsertNew(some)
  BY DEF StageFails
<1>2. batch \in BatchType
  BY BatchFact DEF StoreInv, TypeOK
<1>3. Keys(db) \subseteq Keys(db') /\ db \subseteq db' /\ db' \subseteq db \cup some
  BY <1>1, InsertFact
<1>4. db' \subseteq Row
  BY <1>1, <1>2, <1>3, StageRowsFact DEF StoreInv, TypeOK
<1>5. NoDangling'
  BY <1>1, <1>3, StageAttrs, AddRows DEF StoreInv
<1>6. failed' \in BOOLEAN
  BY DEF StageFails
<1> QED
  BY <1>1, <1>3, <1>4, <1>5, <1>6, EndKeeps

\* The walk over the appenders starts with a table.
LEMMA FlushOrderFact ==
  ASSUME NEW sig \in Signals
  PROVE  FlushOrder(sig) \in Seq(OwnerTables) /\ FlushOrder(sig) # <<>>
<1>1. /\ <<"spans", "links", "events">> \in Seq(OwnerTables)
      /\ <<"logs">> \in Seq(OwnerTables)
      /\ <<"metric_ingests", "datapoints", "exemplars">> \in Seq(OwnerTables)
  BY DEF OwnerTables
<1>2. CASE sig = "spans"
  BY <1>1, <1>2 DEF FlushOrder
<1>3. CASE sig = "logs"
  BY <1>1, <1>3 DEF FlushOrder
<1>4. CASE sig = "metrics"
  BY <1>1, <1>4 DEF FlushOrder
<1> QED
  BY <1>2, <1>3, <1>4 DEF Signals

\* The running request has a signal.
LEMMA SigFact == StoreInv => batch \in BatchType /\ batch.sig \in Signals
BY BatchFact DEF StoreInv, TypeOK, BatchType

\* Part or all of an item goes into the appenders.
LEMMA AppendKeeps ==
  ASSUME StoreInv, AppendItem \/ AbortItems
  PROVE  StoreInv'
<1>1. /\ pc = "append" /\ pos \in Nat /\ pos < Len(batch.items)
      /\ UNCHANGED <<db, flushed, batch, nth, wtodo, removed>>
      /\ pos' = pos + 1 \/ pos' = pos
      /\ \E part \in SUBSET batch.items[pos + 1] :
           buf' = buf \cup {Stamp(r, nth) : r \in part}
      /\ \/ pc' = pc /\ tabs' = tabs
         \/ pc' \in {"flush", "close"} /\ tabs' = FlushOrder(batch.sig)
      /\ failed' \in BOOLEAN
  BY DEF AppendItem, AbortItems, StartClose, wrVars, StoreInv, TypeOK
<1>2. PICK part \in SUBSET batch.items[pos + 1] :
        buf' = buf \cup {Stamp(r, nth) : r \in part}
  BY <1>1
<1>3. part \subseteq ItemRows(batch) /\ part \subseteq Row
  <2>1. pos + 1 \in DOMAIN batch.items
    BY <1>1, SigFact DEF BatchType
  <2> QED
    BY <1>2, <2>1, SigFact, ItemsFact DEF ItemRows
<1>4. \A r \in part : Stamp(r, nth) \in Row /\ Stamp(r, nth).attrs \subseteq Attributes(batch)
  BY <1>3, StampFact, SigFact, AttributesFact DEF StoreInv, TypeOK
<1>5. buf' \subseteq Row /\ \A r \in buf' : r.attrs \subseteq Attributes(batch)
  BY <1>2, <1>4 DEF StoreInv, TypeOK, Buffered
<1>6. tabs' \in Seq(OwnerTables) /\ (pc' \in {"flush", "close"} => tabs' # <<>>)
  BY <1>1, SigFact, FlushOrderFact DEF StoreInv, TypeOK
<1>7. TypeOK'
  BY <1>1, <1>5, <1>6 DEF StoreInv, TypeOK
<1>8. NoDangling' /\ CacheInv' /\ Excluded' /\ PlanInv'
  BY <1>1 DEF StoreInv, NoDangling, CacheInv, Excluded, PlanInv
<1>9. DictReady' /\ Buffered'
  BY <1>1, <1>5, <1>6 DEF StoreInv, DictReady, Buffered, Written
<1> QED
  BY <1>7, <1>8, <1>9 DEF StoreInv

\* CloseAppenders starts.
LEMMA FinishKeeps ==
  ASSUME StoreInv, FinishItems
  PROVE  StoreInv'
<1>1. /\ pc = "append" /\ pc' = "close" /\ tabs' = FlushOrder(batch.sig)
      /\ UNCHANGED <<db, flushed, batch, nth, pos, buf, failed, wtodo, removed>>
  BY DEF FinishItems, StartClose, wrVars
<1>2. tabs' \in Seq(OwnerTables) /\ tabs' # <<>>
  BY <1>1, SigFact, FlushOrderFact
<1>3. TypeOK'
  BY <1>1, <1>2 DEF StoreInv, TypeOK
<1>4. NoDangling' /\ CacheInv' /\ Excluded' /\ PlanInv'
  BY <1>1 DEF StoreInv, NoDangling, CacheInv, Excluded, PlanInv
<1>5. DictReady' /\ Buffered'
  BY <1>1, <1>2 DEF StoreInv, DictReady, Buffered, Written
<1> QED
  BY <1>3, <1>4, <1>5 DEF StoreInv

\* Committing buffered rows, in whatever order and however many appenders fail,
\* never stores a row before its attributes.
LEMMA CommitKeeps ==
  ASSUME StoreInv, pc \in {"append", "flush", "close"},
         NEW part \in SUBSET buf, db' = db \cup part
  PROVE  /\ db' \subseteq Row /\ NoDangling' /\ Keys(db) \subseteq Keys(db')
         /\ Attributes(batch) \subseteq Keys(db')
<1>1. Attributes(batch) \subseteq Keys(db)
  BY DEF StoreInv, DictReady, Written
<1>2. Keys(db) \subseteq Keys(db')
  BY DEF Keys
<1>3. NoDangling'
  BY <1>1, <1>2, AddRows DEF StoreInv, Buffered
<1> QED
  BY <1>1, <1>2, <1>3 DEF StoreInv, TypeOK

\* One appender of FlushAppenders.
LEMMA FlushTableKeeps ==
  ASSUME StoreInv, FlushTable
  PROVE  StoreInv'
<1> DEFINE part == OfTable(buf, Head(tabs))
<1>1. /\ pc = "flush" /\ tabs # <<>> /\ tabs \in Seq(OwnerTables)
      /\ UNCHANGED <<flushed, batch, nth, pos, wtodo, removed>>
  BY DEF FlushTable, wrVars, StoreInv, Buffered, TypeOK
<1>2. part \subseteq buf
  BY DEF OfTable
<1>3. \/ /\ db' = db \cup part /\ buf' = buf \ part /\ tabs' = Tail(tabs)
         /\ pc' = IF Tail(tabs) = <<>> THEN "append" ELSE "flush"
         /\ failed' = failed
      \/ /\ db' = db /\ buf' = buf /\ tabs' = FlushOrder(batch.sig)
         /\ pc' = "close" /\ failed' = TRUE
  BY DEF FlushTable, StartClose
<1>4. /\ db' \subseteq Row /\ NoDangling' /\ Keys(db) \subseteq Keys(db')
      /\ Attributes(batch) \subseteq Keys(db')
  <2>1. CASE db' = db \cup part
    BY <1>1, <1>2, <2>1, CommitKeeps
  <2>2. CASE db' = db
    BY <2>2, <1>1 DEF StoreInv, TypeOK, NoDangling, DictReady, Written
  <2> QED
    BY <1>3, <2>1, <2>2
<1>5. tabs' \in Seq(OwnerTables) /\ (pc' \in {"flush", "close"} => tabs' # <<>>)
  <2>1. Tail(tabs) \in Seq(OwnerTables)
    BY <1>1
  <2>2. FlushOrder(batch.sig) \in Seq(OwnerTables) /\ FlushOrder(batch.sig) # <<>>
    BY SigFact, FlushOrderFact
  <2> QED
    BY <1>3, <2>1, <2>2
<1>6. pc' \in {"append", "flush", "close"} /\ buf' \subseteq buf /\ failed' \in BOOLEAN
  BY <1>3 DEF StoreInv, TypeOK
<1>7. TypeOK'
  BY <1>1, <1>4, <1>5, <1>6 DEF StoreInv, TypeOK
<1>8. CacheInv' /\ Excluded' /\ PlanInv'
  BY <1>1, <1>4, <1>6 DEF StoreInv, CacheInv, Excluded, PlanInv
<1>9. DictReady' /\ Buffered'
  BY <1>1, <1>4, <1>5, <1>6 DEF StoreInv, DictReady, Buffered
<1> QED
  BY <1>4, <1>7, <1>8, <1>9 DEF StoreInv

\* One appender of CloseAppenders.
LEMMA CloseTableKeeps ==
  ASSUME StoreInv, CloseTable
  PROVE  StoreInv'
<1> DEFINE part == OfTable(buf, Head(tabs))
<1>1. /\ pc = "close" /\ tabs # <<>> /\ tabs \in Seq(OwnerTables)
      /\ UNCHANGED <<flushed, nth, wtodo, removed>>
      /\ failed' \in BOOLEAN
      /\ db' = db \cup part \/ db' = db
  BY DEF CloseTable, wrVars, StoreInv, Buffered, TypeOK
<1>2. part \subseteq buf
  BY DEF OfTable
<1>3. /\ db' \subseteq Row /\ NoDangling' /\ Keys(db) \subseteq Keys(db')
      /\ Attributes(batch) \subseteq Keys(db')
  <2>1. CASE db' = db \cup part
    BY <1>1, <1>2, <2>1, CommitKeeps
  <2>2. CASE db' = db
    BY <2>2, <1>1 DEF StoreInv, TypeOK, NoDangling, DictReady, Written
  <2> QED
    BY <1>1, <2>1, <2>2
<1>4. CASE Tail(tabs) = <<>>
  <2>1. EndIngest
    BY <1>4 DEF CloseTable
  <2> QED
    BY <1>1, <1>3, <2>1, EndKeeps DEF wrVars
<1>5. CASE Tail(tabs) # <<>>
  <2>1. buf' = buf \ part /\ tabs' = Tail(tabs) /\ UNCHANGED <<pc, batch, pos>>
    BY <1>5 DEF CloseTable
  <2>2. tabs' \in Seq(OwnerTables) /\ tabs' # <<>>
    BY <1>1, <1>5, <2>1
  <2>3. TypeOK'
    BY <1>1, <1>3, <2>1, <2>2 DEF StoreInv, TypeOK
  <2>4. CacheInv' /\ Excluded' /\ PlanInv'
    BY <1>1, <1>3, <2>1 DEF StoreInv, CacheInv, Excluded, PlanInv
  <2>5. DictReady' /\ Buffered'
    BY <1>1, <1>3, <2>1, <2>2 DEF StoreInv, DictReady, Buffered
  <2> QED
    BY <1>3, <2>3, <2>4, <2>5 DEF StoreInv
<1> QED
  BY <1>4, <1>5

----------------------------------------------------------------------------
(* Write-locked operations.                                                *)

\* The statements are typed.
LEMMA StmtFact ==
  /\ \A t \in OwnerTables : Truncate(t) \in OwnerStmt
  /\ \A t \in OwnerTables : \A ks \in SUBSET Key : Delete(t, ks) \in OwnerStmt
  /\ \A t, c \in OwnerTables : Childless(t, c) \in OwnerStmt
  /\ \A t \in DictTables : Sweep(t) \in SweepStmt
BY DEF Truncate, Delete, Childless, Sweep, OwnerStmt, SweepStmt

\* A statement is an owner statement or a sweep, and its op tells which.
LEMMA StmtKind ==
  ASSUME NEW s \in Stmt
  PROVE  IF s.op = "sweep" THEN s.t \in DictTables ELSE s.t \in OwnerTables
BY DEF Stmt, OwnerStmt, SweepStmt

\* Owner statements followed by sweep statements make a plan.
LEMMA PlanFact ==
  ASSUME NEW o \in Seq(OwnerStmt), NEW s \in Seq(SweepStmt)
  PROVE  o \o s \in Seq(Stmt) /\ SweepsLast(o \o s)
<1>1. o \in Seq(Stmt) /\ s \in Seq(Stmt)
  BY DEF Stmt
<1>2. \A i \in 1 .. Len(o) : o[i].op # "sweep"
  <2>1. \A i \in 1 .. Len(o) : o[i] \in OwnerStmt
    OBVIOUS
  <2>2. \A x \in OwnerStmt : x.op # "sweep"
    BY DEF OwnerStmt
  <2> QED
    BY <2>1, <2>2
<1>3. \A i \in 1 .. Len(s) : s[i].op = "sweep"
  <2>1. \A i \in 1 .. Len(s) : s[i] \in SweepStmt
    OBVIOUS
  <2>2. \A x \in SweepStmt : x.op = "sweep"
    BY DEF SweepStmt
  <2> QED
    BY <2>1, <2>2
<1> QED
  BY <1>1, <1>2, <1>3 DEF SweepsLast

\* SweepOrphans is a list of sweeps.
LEMMA SweepPlan == SweepOrphans \in Seq(SweepStmt)
BY StmtFact DEF SweepOrphans, DictTables

\* The keys of a table are keys.
LEMMA KeysInFact == TypeOK => \A t : KeysIn(t) \subseteq Key
BY RowFact DEF TypeOK, KeysIn, Keys, OfTable

\* Starting a write-locked operation with a plan keeps the invariant.
LEMMA PlanKeeps ==
  ASSUME StoreInv, NEW o \in Seq(OwnerStmt), NEW s \in Seq(SweepStmt), WithDBWrite(o \o s)
  PROVE  StoreInv'
<1>1. wtodo' \in Seq(Stmt) /\ SweepsLast(wtodo')
  BY PlanFact DEF WithDBWrite
<1>2. removed = {} /\ removed' = {}
  BY DEF WithDBWrite, StoreInv, CacheInv
<1>3. TypeOK'
  BY <1>1 DEF WithDBWrite, StoreInv, TypeOK, ingVars
<1>4. NoDangling' /\ CacheInv' /\ Excluded' /\ PlanInv'
  BY <1>1, <1>2 DEF WithDBWrite, StoreInv, NoDangling, CacheInv, Excluded, PlanInv, ingVars
<1>5. DictReady' /\ Buffered'
  BY DEF WithDBWrite, StoreInv, DictReady, Buffered, ingVars, Written
<1> QED
  BY <1>3, <1>4, <1>5 DEF StoreInv

\* The same for an operation that does not sweep.
LEMMA OwnerPlanKeeps ==
  ASSUME StoreInv, NEW o \in Seq(OwnerStmt), WithDBWrite(o)
  PROVE  StoreInv'
<1>1. o \o <<>> = o /\ <<>> \in Seq(SweepStmt)
  OBVIOUS
<1> QED
  BY <1>1, PlanKeeps

\* The delete-by-id and delete-stream handlers.
LEMMA DeleteKeeps ==
  ASSUME StoreInv,
         DeleteSpans \/ DeleteLogs \/ DeleteMetricStream
  PROVE  StoreInv'
<1>1. \A t \in OwnerTables : \A ks \in SUBSET Key : Delete(t, ks) \in OwnerStmt
  BY StmtFact
<1>2. \A t : KeysIn(t) \subseteq Key
  BY KeysInFact DEF StoreInv
<1>3. CASE DeleteSpans
  <2>1. PICK ks \in SUBSET KeysIn("spans") : WithDBWrite(SpanDeletes(ks))
    BY <1>3 DEF DeleteSpans
  <2>2. SpanDeletes(ks) \in Seq(OwnerStmt)
    BY <1>1, <1>2, <2>1 DEF SpanDeletes, OwnerTables
  <2> QED
    BY <2>1, <2>2, OwnerPlanKeeps
<1>4. CASE DeleteLogs
  <2>1. PICK ks \in SUBSET KeysIn("logs") : WithDBWrite(<<Delete("logs", ks)>>)
    BY <1>4 DEF DeleteLogs
  <2>2. <<Delete("logs", ks)>> \in Seq(OwnerStmt)
    BY <1>1, <1>2, <2>1 DEF OwnerTables
  <2> QED
    BY <2>1, <2>2, OwnerPlanKeeps
<1>5. CASE DeleteMetricStream
  <2> DEFINE points(k) == {r.key : r \in {d \in OfTable(db, "datapoints") : k \in d.fk}}
             plan(k) == <<Delete("exemplars", points(k)), Delete("datapoints", {k}),
                          Delete("metric_series", {k}), Delete("metric_ingests", {k}),
                          Delete("metric_streams", {k})>>
  <2>1. PICK k \in KeysIn("metric_streams") : WithDBWrite(plan(k))
    BY <1>5 DEF DeleteMetricStream
  <2>2. points(k) \subseteq Key /\ {k} \subseteq Key
    BY <1>2, RowFact DEF OfTable, StoreInv, TypeOK
  <2>3. plan(k) \in Seq(OwnerStmt)
    <3> HIDE DEF points
    <3> QED
      BY <1>1, <2>2 DEF OwnerTables
  <2> QED
    BY <2>1, <2>3, OwnerPlanKeeps
<1> QED
  BY <1>3, <1>4, <1>5

\* The clear handlers and a lone sweep.
LEMMA ClearKeeps ==
  ASSUME StoreInv,
         ClearTraces \/ ClearLogs \/ ClearMetrics \/ SweepIfOverCap
  PROVE  StoreInv'
<1>1. CASE ClearTraces
  <2>1. <<Truncate("links"), Truncate("events"), Truncate("spans")>> \in Seq(OwnerStmt)
    BY StmtFact DEF OwnerTables
  <2> QED
    BY <1>1, <2>1, SweepPlan, PlanKeeps DEF ClearTraces
<1>2. CASE ClearLogs
  <2>1. <<Truncate("logs")>> \in Seq(OwnerStmt)
    BY StmtFact DEF OwnerTables
  <2> QED
    BY <1>2, <2>1, SweepPlan, PlanKeeps DEF ClearLogs
<1>3. CASE ClearMetrics
  <2> DEFINE plan == <<DeleteAll("exemplars"), DeleteAll("datapoints"),
                       DeleteAll("metric_series"), DeleteAll("metric_ingests"),
                       DeleteAll("metric_streams")>>
  <2>1. \A t \in OwnerTables : DeleteAll(t) \in OwnerStmt
    BY StmtFact, KeysInFact DEF DeleteAll, StoreInv
  <2>2. plan \in Seq(OwnerStmt)
    BY <2>1 DEF OwnerTables
  <2> QED
    BY <1>3, <2>2, SweepPlan, PlanKeeps DEF ClearMetrics
<1>4. CASE SweepIfOverCap
  <2>1. <<>> \in Seq(OwnerStmt) /\ <<>> \o SweepOrphans = SweepOrphans
    BY SweepPlan
  <2> QED
    BY <1>4, <2>1, SweepPlan, PlanKeeps DEF SweepIfOverCap
<1> QED
  BY <1>1, <1>2, <1>3, <1>4

\* A retention round.
LEMMA RoundKeeps ==
  ASSUME StoreInv, EnforceRound
  PROVE  StoreInv'
<1> DEFINE spans(ss) == IF KeysIn("spans") = {} THEN <<>> ELSE SpanDeletes(ss)
           logs(ls)  == IF KeysIn("logs") = {} THEN <<>> ELSE <<Delete("logs", ls)>>
           idle      == <<Childless("metric_series", "datapoints"),
                          Childless("metric_ingests", "datapoints"),
                          Childless("metric_streams", "metric_ingests")>>
           points(ds) == IF KeysIn("datapoints") = {} THEN <<>>
                         ELSE DatapointDeletes(ds) \o idle
<1>1. PICK ss \in Older("spans"), ls \in Older("logs"), ds \in Older("datapoints") :
        WithDBWrite(spans(ss) \o logs(ls) \o points(ds) \o SweepOrphans)
  BY DEF EnforceRound
<1>2. ss \in SUBSET Key /\ ls \in SUBSET Key /\ ds \in SUBSET Key
  BY <1>1, KeysInFact DEF Older, StoreInv
<1>3. spans(ss) \in Seq(OwnerStmt)
  BY <1>2, StmtFact DEF SpanDeletes, OwnerTables
<1>4. logs(ls) \in Seq(OwnerStmt)
  BY <1>2, StmtFact DEF OwnerTables
<1>5. points(ds) \in Seq(OwnerStmt)
  <2>1. DatapointDeletes(ds) \in Seq(OwnerStmt) /\ idle \in Seq(OwnerStmt)
    BY <1>2, StmtFact DEF DatapointDeletes, OwnerTables
  <2> HIDE DEF idle
  <2> QED
    BY <2>1
<1> HIDE DEF spans, logs, points
<1>6. spans(ss) \o logs(ls) \o points(ds) \in Seq(OwnerStmt)
  BY <1>3, <1>4, <1>5
<1> QED
  BY <1>1, <1>6, SweepPlan, PlanKeeps

\* A statement deletes no attribute a row still holds, and no dictionary row
\* unless it is a sweep.
LEMMA VictimsFact ==
  ASSUME StoreInv, wtodo # <<>>
  PROVE  LET s == Head(wtodo)
         IN /\ s \in Stmt
            /\ Victims(s) \subseteq db
            /\ \A r \in db, d \in Victims(s) : d.key \notin r.attrs
            /\ \A d \in Victims(s) : d.key.t \in DictTables <=> s.op = "sweep"
<1> DEFINE s == Head(wtodo)
<1>1. s \in Stmt
  BY DEF StoreInv, TypeOK
<1>2. Victims(s) \subseteq db /\ \A d \in Victims(s) : d.key.t = s.t
  BY DEF Victims, OfTable
<1>3. \A d \in Victims(s) : d.key.t \in DictTables <=> s.op = "sweep"
  BY <1>1, <1>2, StmtKind, TablesDisjoint
<1>4. \A r \in db, d \in Victims(s) : d.key \notin r.attrs
  <2> SUFFICES ASSUME NEW r \in db, NEW d \in Victims(s), d.key \in r.attrs
               PROVE  FALSE
    OBVIOUS
  <2>1. d.key.t = "attributes"
    BY RowFact DEF StoreInv, TypeOK, AttrKey
  <2>2. s.op = "sweep" /\ s.t = "attributes"
    BY <1>2, <1>3, <2>1 DEF DictTables
  <2>3. d.key \notin LiveIn("attributes")
    BY <2>2 DEF Victims
  <2> QED
    BY <2>3 DEF LiveIn, LiveAttributeIDs
<1> QED
  BY <1>1, <1>2, <1>3, <1>4

\* Deleting victims keeps every attribute a stored row holds.
LEMMA DeletionKeeps ==
  ASSUME StoreInv, wtodo # <<>>, db' = db \/ db' = db \ Victims(Head(wtodo))
  PROVE  db' \subseteq Row /\ NoDangling'
<1>1. db' \subseteq db
  OBVIOUS
<1>2. NoDangling'
  <2> SUFFICES ASSUME NEW r \in db', NEW k \in r.attrs
               PROVE  k \in Keys(db')
    BY DEF NoDangling
  <2>1. PICK d \in db : d.key = k
    BY <1>1, KeysFact DEF StoreInv, NoDangling
  <2>2. d \in db'
    BY <1>1, <2>1, VictimsFact
  <2> QED
    BY <2>1, <2>2 DEF Keys
<1> QED
  BY <1>1, <1>2 DEF StoreInv, TypeOK

\* What is left of a plan is a plan.
LEMMA TailFact ==
  ASSUME NEW w \in Seq(Stmt), w # <<>>, SweepsLast(w)
  PROVE  /\ Tail(w) \in Seq(Stmt) /\ SweepsLast(Tail(w))
         /\ Head(w).op = "sweep" => OnlySweeps(w)
         /\ OnlySweeps(w) => Head(w).op = "sweep" /\ OnlySweeps(Tail(w))
<1>1. Len(w) \in Nat \ {0} /\ Head(w) = w[1]
  OBVIOUS
<1>2. /\ Tail(w) \in Seq(Stmt) /\ Len(Tail(w)) = Len(w) - 1
      /\ \A i \in 1 .. Len(Tail(w)) : Tail(w)[i] = w[i + 1]
  OBVIOUS
<1>3. SweepsLast(Tail(w))
  BY <1>1, <1>2 DEF SweepsLast
<1>4. Head(w).op = "sweep" => OnlySweeps(w)
  BY <1>1 DEF SweepsLast, OnlySweeps
<1>5. OnlySweeps(w) => Head(w).op = "sweep" /\ OnlySweeps(Tail(w))
  BY <1>1, <1>2 DEF OnlySweeps
<1> QED
  BY <1>2, <1>3, <1>4, <1>5

\* The cache is told about every dictionary row a completed sweep deleted, and
\* about all of them when the sweep stops half-way.
LEMMA StatementKeeps ==
  ASSUME StoreInv, RunStatement \/ StatementFails
  PROVE  StoreInv'
<1> DEFINE s    == Head(wtodo)
           going == IF s.op = "sweep" THEN Keys(Victims(s)) ELSE {}
<1>1. wtodo # <<>> /\ UNCHANGED ingVars /\ pc = "idle"
  BY DEF RunStatement, StatementFails, StoreInv, Excluded
<1>2. db' = db \/ db' = db \ Victims(s)
  BY DEF RunStatement, StatementFails
<1>3. db' \subseteq Row /\ NoDangling'
  BY <1>1, <1>2, DeletionKeeps
<1>4. wtodo \in Seq(Stmt) /\ s \in Stmt
  BY <1>1, VictimsFact DEF StoreInv, TypeOK
<1>5. going \subseteq {k \in Key : k.t \in DictTables}
  BY <1>1, VictimsFact, KeysFact, RowFact DEF StoreInv, TypeOK
<1>6. flushed \ (removed \cup going) \subseteq Keys(db')
  <2> SUFFICES ASSUME NEW k \in flushed, k \notin removed, k \notin going
               PROVE  k \in Keys(db')
    OBVIOUS
  <2>1. PICK d \in db : d.key = k
    BY KeysFact DEF StoreInv, CacheInv
  <2>2. k.t \in DictTables
    BY DEF StoreInv, TypeOK
  <2>3. d \notin Victims(s)
    BY <1>1, <2>1, <2>2, VictimsFact, KeysFact
  <2> QED
    BY <1>2, <2>1, <2>3, KeysFact
<1>7. CASE RunStatement
  <2>1. /\ wtodo' = Tail(wtodo)
        /\ removed' = IF Tail(wtodo) = <<>> THEN {} ELSE removed \cup going
        /\ flushed' = IF Tail(wtodo) = <<>> THEN flushed \ (removed \cup going) ELSE flushed
    BY <1>7 DEF RunStatement, ForgetIDs
  <2>2. Tail(wtodo) \in Seq(Stmt)
    BY <1>1, <1>4
  <2>3. TypeOK'
    BY <1>1, <1>3, <1>5, <2>1, <2>2 DEF StoreInv, TypeOK, ingVars
  <2>4. CacheInv'
    BY <1>6, <2>1 DEF CacheInv
  <2>5. PlanInv'
    BY <1>1, <1>4, <2>1, TailFact DEF StoreInv, PlanInv
  <2>6. Excluded' /\ DictReady' /\ Buffered'
    BY <1>1 DEF StoreInv, Excluded, DictReady, Buffered, Written, ingVars
  <2> QED
    BY <1>3, <2>3, <2>4, <2>5, <2>6 DEF StoreInv
<1>8. CASE StatementFails
  <2>1. /\ wtodo' = <<>> /\ removed' = {}
        /\ flushed' = IF s.op = "sweep" THEN {} ELSE flushed
    BY <1>8 DEF StatementFails
  <2>2. TypeOK'
    <3>1. <<>> \in Seq(Stmt)
      OBVIOUS
    <3> QED
      BY <1>1, <1>3, <2>1, <3>1 DEF StoreInv, TypeOK, ingVars
  <2>3. s.op # "sweep" => removed = {} /\ going = {}
    BY <1>1, <1>4, TailFact DEF StoreInv, PlanInv
  <2>4. CacheInv'
    BY <1>6, <2>1, <2>3 DEF CacheInv
  <2>5. PlanInv'
    BY <2>1 DEF PlanInv, SweepsLast
  <2>6. Excluded' /\ DictReady' /\ Buffered'
    BY <1>1, <2>1 DEF StoreInv, Excluded, DictReady, Buffered, Written, ingVars
  <2> QED
    BY <1>3, <2>2, <2>4, <2>5, <2>6 DEF StoreInv
<1> QED
  BY <1>7, <1>8

----------------------------------------------------------------------------
(* The invariant.                                                          *)

\* A restart at any point, mid-ingest or mid-sweep, comes back consistent:
\* LoadFlushedIDs rebuilds the cache from what was committed.
LEMMA RestartKeeps ==
  ASSUME StoreInv, Restart
  PROVE  StoreInv'
<1>1. /\ db' = db /\ nth' = nth /\ wtodo' = <<>> /\ removed' = {}
      /\ flushed' = {k \in Keys(db) : k.t \in DictTables}
      /\ pc' = "idle" /\ batch' = NoBatch /\ pos' = 0 /\ buf' = {} /\ tabs' = <<>>
  BY DEF Restart, EndIngest, LoadFlushedIDs
<1>2. failed' \in BOOLEAN
  BY Zenon DEF Restart
<1>3. flushed' \subseteq {k \in Key : k.t \in DictTables}
  BY <1>1, KeysFact, RowFact DEF StoreInv, TypeOK
<1>4. TypeOK'
  <2>1. <<>> \in Seq(OwnerTables) /\ <<>> \in Seq(Stmt)
    OBVIOUS
  <2> QED
    BY <1>1, <1>2, <1>3, <2>1 DEF StoreInv, TypeOK
<1>5. NoDangling' /\ CacheInv' /\ Excluded' /\ PlanInv' /\ DictReady' /\ Buffered'
  BY <1>1 DEF StoreInv, NoDangling, CacheInv, Excluded, PlanInv, SweepsLast, OnlySweeps,
              DictReady, Buffered, Written
<1> QED
  BY <1>4, <1>5 DEF StoreInv

\* An empty store satisfies the invariant.
LEMMA StoreInit == Init => StoreInv
<1> SUFFICES ASSUME Init PROVE StoreInv
  OBVIOUS
<1>1. TypeOK
  <2>1. <<>> \in Seq(OwnerTables) /\ <<>> \in Seq(Stmt)
    OBVIOUS
  <2>2. nth \in 0 .. MaxIngests /\ pos \in Nat
    BY BoundsAssumption DEF Init
  <2>3. failed \in BOOLEAN
    BY DEF Init
  <2> QED
    BY <2>1, <2>2, <2>3 DEF Init, TypeOK
<1>2. NoDangling /\ CacheInv /\ Excluded /\ PlanInv /\ DictReady /\ Buffered
  BY DEF Init, NoDangling, CacheInv, Excluded, PlanInv, SweepsLast, OnlySweeps, DictReady,
         Buffered, Written
<1> QED
  BY <1>1, <1>2 DEF StoreInv

\* StoreInv is an invariant of the store.
THEOREM StoreInvariant == Spec => []StoreInv
<1>1. ASSUME StoreInv, [Next]_vars PROVE StoreInv'
  <2>1. CASE UNCHANGED vars
    <3>1. UNCHANGED <<db, flushed, pc, batch, nth, pos, buf, tabs, failed, wtodo, removed>>
      BY <2>1 DEF vars
    <3> QED
      BY <1>1, <3>1 DEF StoreInv, TypeOK, NoDangling, CacheInv, Excluded, PlanInv,
                        DictReady, Buffered
  <2>2. CASE Ingest
    BY <1>1, <2>2, BeginKeeps, FlushRowsKeeps, UpsertKeeps, StageFailsKeeps, AppendKeeps,
       FinishKeeps, FlushTableKeeps, CloseTableKeeps DEF Ingest
  <2>3. CASE Write
    BY <1>1, <2>3, DeleteKeeps, ClearKeeps, RoundKeeps, StatementKeeps DEF Write
  <2>4. CASE Restart
    BY <1>1, <2>4, RestartKeeps
  <2> QED
    BY <1>1, <2>1, <2>2, <2>3, <2>4 DEF Next
<1> QED
  BY <1>1, StoreInit, PTL DEF Spec

\* Type correctness of the store.
THEOREM StoreTypeOK == Spec => []TypeOK
BY StoreInvariant, PTL DEF StoreInv

\* Whenever an ingest can consult FlushedIDs, everything it claims is stored,
\* whatever inserts, sweeps, clears and restarts came before.
THEOREM CacheNeverStale == Spec => []FlushedSound
<1>1. StoreInv => FlushedSound
  BY DEF StoreInv, CacheInv, FlushedSound
<1> QED
  BY <1>1, StoreInvariant, PTL

\* No attribute_ids column ever names a missing dictionary row, for any
\* requests, any flush interval and any number of deliveries.
THEOREM AttributesNeverDangle == Spec => []NoDangling
BY StoreInvariant, PTL DEF StoreInv

----------------------------------------------------------------------------
(* Foreign keys, whole ingests and the view.                               *)

\* A row refers to rows of the tables the schema says.
Shaped(r) == \A k \in r.fk : k.t \in References(r.key.t)
Shapes == \A r \in db : Shaped(r)

\* A dictionary row without attributes of its own holds none.
Bare == \A r \in db : r.key.t \in {"attributes", "histogram_bounds"} => r.attrs = {}

\* The statements that have run when the ingest of a signal is at p.
Before(sig, p) ==
  LET d == (IF sig = "metrics" THEN {"metric_streams"} ELSE {}) IN
  CASE p \in {"idle", "metric_streams"} -> {}
    [] p = "attributes"       -> d
    [] p = "resources"        -> d \cup {"attributes"}
    [] p = "scopes"           -> d \cup {"attributes", "resources"}
    [] p = "histogram_bounds" -> d \cup {"attributes", "resources", "scopes"}
    [] p = "metric_series"    -> d \cup DictTables
    [] OTHER                  -> d \cup DictTables \cup
                                 (IF sig = "metrics" THEN {"metric_series"} ELSE {})

\* What they wrote is stored.
StagesDone == \A t \in Before(batch.sig, pc) : Keys(StageRows(batch, t)) \subseteq Keys(db)

\* Identity statements run for metrics only, and no item is appended before them.
SignalStages == /\ pc \in {"metric_streams", "metric_series"} => batch.sig = "metrics"
                /\ pc \in Stages \cup {"idle"} => pos = 0

\* The appenders hold stamped rows of the request.
FromRequest == \A r \in buf : \E e \in ItemRows(batch) : r = Stamp(e, nth)

\* The appended items.
Appended == UNION {batch.items[i] : i \in 1 .. pos}

\* The walks over the appenders that have not ended.
Walks(sig) ==
  CASE sig = "spans"   -> {<<"spans", "links", "events">>, <<"links", "events">>, <<"events">>}
    [] sig = "logs"    -> {<<"logs">>}
    [] sig = "metrics" -> {<<"metric_ingests", "datapoints", "exemplars">>,
                           <<"datapoints", "exemplars">>, <<"exemplars">>}

\* While the ingest is healthy, what it has appended is stored or buffered, the
\* parents of what is buffered are too, and a walk has left nothing behind.
Healthy ==
  ~failed /\ pc \in {"append", "flush", "close"} =>
    /\ pos <= Len(batch.items)
    /\ pc = "close" => pos = Len(batch.items)
    /\ {Stamp(r, nth) : r \in Appended} \subseteq db \cup buf
    /\ \A r \in buf : r.fk \subseteq Keys(db) \cup Keys(buf)
    /\ pc # "append" => /\ tabs \in Walks(batch.sig)
                        /\ \A r \in buf : \E i \in 1 .. Len(tabs) : r.key.t = tabs[i]

\* Every stored series is some request's.
SeriesKnown == \A r \in OfTable(db, "metric_series") : \E b \in Batches : r \in b.series

\* Rows with a fresh uuid are at most as new as the running request, and those
\* of its own stamp are its rows.
FreshKnown ==
  \A r \in db : r.key.t \in FreshTables =>
    /\ r.key.n <= nth
    /\ pc # "idle" /\ r.key.n = nth => \E e \in ItemRows(batch) : r = Stamp(e, nth)

\* A datapoint has an ingest row, and its stream is that of its parents.
SameStream ==
  \A d \in OfTable(db, "datapoints") :
    /\ \E k \in d.fk : k.t = "metric_ingests"
    /\ \A p \in OfTable(db, "metric_series") \cup OfTable(db, "metric_ingests") :
         p.key \in d.fk => StreamsOf(p) = StreamsOf(d)

\* A delete or truncate of a plan comes after those of the rows that refer to
\* what it removes.
Hits(s, r) ==
  /\ r.key.t = s.t
  /\ \/ s.op = "truncate"
     \/ s.op = "delete" /\ (r.key \in s.of \/ r.fk \cap s.of # {})

ChildrenFirst(w) ==
  \A j \in 1 .. Len(w) : \A p, r \in db :
    Hits(w[j], p) /\ p.key \in r.fk => \E i \in 1 .. j - 1 : Hits(w[i], r)

\* Series and ingests that have lost their last datapoint go before the streams
\* that have lost their last ingest.
SeriesUsed ==
  \A r \in OfTable(db, "metric_series") : \E d \in OfTable(db, "datapoints") : r.key \in d.fk

IdleSeries == Childless("metric_series", "datapoints")

IdleStmts == {IdleSeries, Childless("metric_ingests", "datapoints"),
              Childless("metric_streams", "metric_ingests")}

StreamsLast(w) ==
  \A j \in 1 .. Len(w) : w[j].op = "childless" =>
    /\ w[j] \in IdleStmts
    /\ w[j].t = "metric_streams" =>
         \/ SeriesUsed /\ \A l \in 1 .. j : w[l].t # "datapoints"
         \/ \E i \in 1 .. j - 1 : w[i] = IdleSeries /\ \A l \in i .. j : w[l].t # "datapoints"

\* No row of these dictionary tables is an orphan.
Swept(ts) == \A r \in db : r.key.t \in ts => r.key \in LiveIn(r.key.t)

\* A plan ends in a whole sweep or in none, and what a sweep under way has been
\* over stays free of orphans.
SweepsWhole ==
  \/ wtodo \in Seq(OwnerStmt)
  \/ \E o \in Seq(OwnerStmt) : wtodo = o \o SweepOrphans
  \/ /\ wtodo = <<Sweep("scopes"), Sweep("attributes"), Sweep("histogram_bounds")>>
     /\ Swept({"resources"})
  \/ /\ wtodo = <<Sweep("attributes"), Sweep("histogram_bounds")>>
     /\ Swept({"resources", "scopes"})
  \/ /\ wtodo = <<Sweep("histogram_bounds")>>
     /\ Swept({"resources", "scopes", "attributes"})

Rows  == Shapes /\ Bare /\ ParentsPresent /\ SeriesKnown /\ FreshKnown /\ SameStream
Load  == StagesDone /\ SignalStages /\ FromRequest /\ Healthy
Plan  == ChildrenFirst(wtodo) /\ StreamsLast(wtodo) /\ SweepsWhole

\* The inductive invariant, beside StoreInv.
ReferencesInv == Rows /\ Load /\ Plan

----------------------------------------------------------------------------
(* Requests and stamps.                                                    *)

\* What holds of every request holds of none.
LEMMA RequestFact ==
  ASSUME NEW b \in Batches \cup {NoBatch}
  PROVE  /\ Closed(b)
         /\ \A r \in b.dict : r.key.t = "histogram_bounds" => r.attrs = {}
         /\ ItemRows(b) # {} => b \in Batches
<1>1. CASE b \in Batches
  BY <1>1, RequestsAssumption
<1>2. CASE b = NoBatch
  <2>1. /\ b.dict = {} /\ b.streams = {} /\ b.series = {} /\ b.items = <<>>
        /\ DOMAIN b.items = {}
    BY <1>2 DEF NoBatch
  <2>2. ItemRows(b) = {}
    BY <2>1 DEF ItemRows
  <2> QED
    BY <2>1, <2>2 DEF Closed, AllRows
<1> QED
  BY <1>1, <1>2

\* The tables of the rows of a request.
LEMMA RequestTables ==
  ASSUME NEW b \in BatchType
  PROVE  /\ \A r \in b.dict : r.key.t \in DictTables \ {"attributes"}
         /\ \A r \in b.streams : r.key.t = "metric_streams"
         /\ \A r \in b.series : r.key.t = "metric_series"
         /\ \A r \in ItemRows(b) : r.key.t \in FreshTables \cup {"spans"}
BY DEF BatchType, ItemRows

\* A stamp keeps the table of a key and changes no key of a table without
\* fresh uuids; stamped keys of a request are told apart.
LEMMA StampKeyFact ==
  ASSUME NEW k \in Key, NEW n
  PROVE  /\ StampKey(k, n).t = k.t
         /\ k.t \notin FreshTables => StampKey(k, n) = k
         /\ k.t \in FreshTables => StampKey(k, n).n = n
         /\ \A l \in Key : l.n = k.n /\ StampKey(l, n) = StampKey(k, n) => l = k
BY DEF Key, StampKey

\* A stamped row has the stamped keys, and refers to the same streams.
LEMMA StampRowFact ==
  ASSUME NEW r \in Row, NEW n \in Nat, Shaped(r)
  PROVE  /\ Stamp(r, n).key = StampKey(r.key, n)
         /\ Stamp(r, n).fk = {StampKey(k, n) : k \in r.fk}
         /\ Stamp(r, n).attrs = r.attrs
         /\ Shaped(Stamp(r, n))
         /\ StreamsOf(Stamp(r, n)) = StreamsOf(r)
<1>1. /\ Stamp(r, n).key = StampKey(r.key, n)
      /\ Stamp(r, n).fk = {StampKey(k, n) : k \in r.fk}
      /\ Stamp(r, n).attrs = r.attrs
  BY DEF Stamp, Row
<1>2. r.key \in Key /\ r.fk \subseteq Key
  BY RowFact
<1>3. Shaped(Stamp(r, n))
  BY <1>1, <1>2, StampKeyFact DEF Shaped
<1>4. StreamsOf(Stamp(r, n)) = StreamsOf(r)
  BY <1>1, <1>2, StampKeyFact DEF StreamsOf, FreshTables
<1> QED
  BY <1>1, <1>3, <1>4

\* The running request and its rows.
LEMMA RunningFact ==
  ASSUME StoreInv
  PROVE  /\ batch \in BatchType /\ batch \in Batches \cup {NoBatch} /\ Closed(batch)
         /\ nth \in Nat /\ nth \in 0 .. MaxIngests
         /\ \A e \in ItemRows(batch) :
              e \in Row /\ Shaped(e) /\ e.key.n = 0 /\ \A k \in e.fk : k.n = 0
<1>1. batch \in BatchType /\ batch \in Batches \cup {NoBatch}
  BY BatchFact DEF StoreInv, TypeOK
<1>2. Closed(batch) /\ nth \in Nat /\ nth \in 0 .. MaxIngests
  BY <1>1, RequestFact, BoundsAssumption DEF StoreInv, TypeOK
<1>3. ItemRows(batch) \subseteq Row
  BY <1>1, ItemsFact
<1> QED
  BY <1>1, <1>2, <1>3 DEF Closed, AllRows, Shaped

\* The appenders hold rows of the right shape under the stamp of the ingest.
LEMMA BufferFact ==
  ASSUME StoreInv, FromRequest, NEW r \in buf
  PROVE  /\ r \in Row /\ Shaped(r) /\ r.key.t \in ItemTables(batch.sig)
         /\ r.key.t \in FreshTables \cup {"spans"}
         /\ r.key.t \in FreshTables => r.key.n = nth
<1>1. PICK e \in ItemRows(batch) : r = Stamp(e, nth)
  BY DEF FromRequest
<1>2. e \in Row /\ Shaped(e) /\ e.key \in Key
  BY RunningFact, RowFact
<1>3. r.key = StampKey(e.key, nth) /\ Shaped(r) /\ r \in Row
  BY <1>1, <1>2, RunningFact, StampRowFact, StampFact
<1>4. r.key.t = e.key.t /\ (e.key.t \in FreshTables => r.key.n = nth)
  BY <1>2, <1>3, StampKeyFact
<1>5. e.key.t \in FreshTables \cup {"spans"} /\ e.key.t \in ItemTables(batch.sig)
  <2>1. PICK i \in DOMAIN batch.items : e \in batch.items[i]
    BY DEF ItemRows
  <2>2. e.key.t \in ItemTables(batch.sig)
    BY <2>1, RunningFact DEF Closed
  <2> QED
    BY <2>2, RunningFact, RequestTables
<1> QED
  BY <1>3, <1>4, <1>5

----------------------------------------------------------------------------
(* Rows come and go.                                                       *)

\* A datapoint of the running request belongs to the stream of the stored
\* parents it names.
LEMMA NewDatapoint ==
  ASSUME StoreInv, Rows, pc # "idle",
         NEW e \in ItemRows(batch), e.key.t = "datapoints"
  PROVE  LET d == Stamp(e, nth)
         IN /\ \E k \in d.fk : k.t = "metric_ingests"
            /\ \A p \in OfTable(db, "metric_series") \cup OfTable(db, "metric_ingests") :
                 p.key \in d.fk => StreamsOf(p) = StreamsOf(d)
<1> DEFINE d == Stamp(e, nth)
<1>1. e \in Row /\ Shaped(e) /\ e.fk \subseteq Key /\ batch \in Batches /\ batch \in BatchType
  BY RunningFact, RequestFact, RowFact
<1>2. d.fk = {StampKey(k, nth) : k \in e.fk} /\ StreamsOf(d) = StreamsOf(e)
  BY <1>1, RunningFact, StampRowFact
<1>3. /\ \E k \in e.fk : k.t = "metric_ingests"
      /\ \A p \in batch.series \cup ItemRows(batch) : p.key \in e.fk => StreamsOf(p) = StreamsOf(e)
  BY <1>1, RequestsAssumption
<1>4. \E k \in d.fk : k.t = "metric_ingests"
  BY <1>1, <1>2, <1>3, StampKeyFact
<1>5. ASSUME NEW p \in OfTable(db, "metric_series"), p.key \in d.fk
      PROVE  StreamsOf(p) = StreamsOf(d)
  <2>1. PICK b \in Batches : p \in b.series
    BY DEF Rows, SeriesKnown
  <2>2. PICK k \in e.fk : p.key = StampKey(k, nth)
    BY <1>2, <1>5
  <2>3. p.key = k /\ k.t = "metric_series"
    BY <1>1, <2>2, StampKeyFact DEF OfTable, FreshTables
  <2>4. PICK i \in DOMAIN batch.items : e \in batch.items[i]
    BY DEF ItemRows
  <2>5. k \in Keys(batch.dict \cup batch.streams \cup batch.series \cup batch.items[i])
    BY <2>4, RunningFact DEF Closed
  <2>6. batch.items[i] \subseteq ItemRows(batch)
    BY DEF ItemRows
  <2>7. PICK s \in batch.dict \cup batch.streams \cup batch.series \cup ItemRows(batch) : s.key = k
    BY <2>5, <2>6 DEF Keys
  <2>8. s \in batch.series
    BY <1>1, <2>3, <2>7, RequestTables DEF FreshTables, DictTables
  <2>9. s.fk = p.fk
    BY <1>1, <2>1, <2>3, <2>7, <2>8, RequestsAssumption
  <2> QED
    BY <1>2, <1>3, <2>7, <2>8, <2>9 DEF StreamsOf
<1>6. ASSUME NEW p \in OfTable(db, "metric_ingests"), p.key \in d.fk
      PROVE  StreamsOf(p) = StreamsOf(d)
  <2>1. PICK k \in e.fk : p.key = StampKey(k, nth)
    BY <1>2, <1>6
  <2>2. k \in Key /\ k.n = 0 /\ p.key.t \in FreshTables
    BY <1>1, RunningFact DEF OfTable, FreshTables
  <2>3. k.t \in FreshTables /\ p.key.n = nth
    BY <2>1, <2>2, StampKeyFact
  <2>4. PICK q \in ItemRows(batch) : p = Stamp(q, nth)
    BY <2>2, <2>3 DEF Rows, FreshKnown, OfTable
  <2>5. q \in Row /\ Shaped(q) /\ q.key \in Key /\ q.key.n = 0
    BY RunningFact, RowFact
  <2>6. p.key = StampKey(q.key, nth) /\ StreamsOf(p) = StreamsOf(q)
    BY <2>4, <2>5, RunningFact, StampRowFact
  <2>7. q.key = k
    <3>1. StampKey(q.key, nth) = StampKey(k, nth) /\ q.key.n = k.n
      BY <2>1, <2>2, <2>5, <2>6
    <3> QED
      BY <2>2, <2>5, <3>1, StampKeyFact
  <2> QED
    BY <1>2, <1>3, <2>6, <2>7
<1> QED
  BY <1>4, <1>5, <1>6

\* New rows whose parents are stored, by an ingest or a statement of it.
LEMMA GrowKeeps ==
  ASSUME StoreInv, Rows, pc # "idle", UNCHANGED <<nth, batch>> \/ (pc' = "idle" /\ nth' = nth),
         NEW new \in SUBSET Row, db' = db \cup new,
         \A r \in new :
           /\ r.key \notin Keys(db) /\ r.fk \subseteq Keys(db) /\ Shaped(r)
           /\ r.key.t \in {"attributes", "histogram_bounds"} => r.attrs = {}
           /\ r.key.t = "metric_series" => \E b \in Batches : r \in b.series
           /\ r.key.t \in FreshTables => r.key.n = nth /\ \E e \in ItemRows(batch) : r = Stamp(e, nth)
  PROVE  Rows'
<1>1. Keys(db) \subseteq Keys(db')
  BY DEF Keys
<1>2. Shapes' /\ Bare'
  BY DEF Rows, Shapes, Bare
<1>3. ParentsPresent'
  BY <1>1 DEF Rows, ParentsPresent
<1>4. SeriesKnown'
  BY DEF Rows, SeriesKnown, OfTable
<1>5. FreshKnown'
  <2> SUFFICES ASSUME NEW r \in db', r.key.t \in FreshTables
               PROVE  /\ r.key.n <= nth'
                      /\ pc' # "idle" /\ r.key.n = nth' => \E e \in ItemRows(batch') : r = Stamp(e, nth')
    BY DEF FreshKnown
  <2>1. nth' = nth /\ nth \in Nat
    BY RunningFact
  <2>2. CASE r \in db
    BY <2>1, <2>2 DEF Rows, FreshKnown
  <2>3. CASE r \in new
    BY <2>1, <2>3
  <2> QED
    BY <2>2, <2>3
<1>6. SameStream'
  <2> SUFFICES ASSUME NEW d \in OfTable(db', "datapoints")
               PROVE  /\ \E k \in d.fk : k.t = "metric_ingests"
                      /\ \A p \in OfTable(db', "metric_series") \cup OfTable(db', "metric_ingests") :
                           p.key \in d.fk => StreamsOf(p) = StreamsOf(d)
    BY DEF SameStream
  <2>1. d.fk \subseteq Keys(db)
    BY DEF OfTable, Rows, ParentsPresent
  <2>2. \A p \in db' : p.key \in d.fk => p \in db
    BY <2>1
  <2>3. CASE d \in db
    BY <2>2, <2>3 DEF OfTable, Rows, SameStream
  <2>4. CASE d \in new
    <3>1. d.key.t = "datapoints" /\ d.key.t \in FreshTables
      BY DEF OfTable, FreshTables
    <3>2. PICK e \in ItemRows(batch) : d = Stamp(e, nth)
      BY <2>4, <3>1
    <3>3. e.key.t = "datapoints"
      BY <3>1, <3>2, RunningFact, RowFact, StampRowFact, StampKeyFact
    <3> QED
      BY <2>2, <3>2, <3>3, NewDatapoint DEF OfTable
  <2> QED
    BY <2>3, <2>4 DEF OfTable
<1> QED
  BY <1>2, <1>3, <1>4, <1>5, <1>6 DEF Rows

\* Fewer rows, or the same, with their parents.
LEMMA ShrinkKeeps ==
  ASSUME StoreInv, Rows, db' \subseteq db, ParentsPresent',
         \/ nth' = nth /\ (pc' = "idle" \/ (pc # "idle" /\ batch' = batch))
         \/ nth' = nth + 1
  PROVE  Rows'
<1>1. Shapes' /\ Bare' /\ SeriesKnown' /\ SameStream'
  BY DEF Rows, Shapes, Bare, SeriesKnown, SameStream, OfTable
<1>2. FreshKnown'
  <2> SUFFICES ASSUME NEW r \in db', r.key.t \in FreshTables
               PROVE  /\ r.key.n <= nth'
                      /\ pc' # "idle" /\ r.key.n = nth' => \E e \in ItemRows(batch') : r = Stamp(e, nth')
    BY DEF FreshKnown
  <2>1. nth \in Nat /\ r.key.n \in Nat
    BY RunningFact, RowFact, BoundsAssumption DEF StoreInv, TypeOK, Key
  <2>2. r.key.n <= nth /\ (pc # "idle" /\ r.key.n = nth => \E e \in ItemRows(batch) : r = Stamp(e, nth))
    BY DEF Rows, FreshKnown
  <2>3. CASE nth' = nth + 1
    BY <2>1, <2>2, <2>3
  <2>4. CASE nth' = nth /\ (pc' = "idle" \/ (pc # "idle" /\ batch' = batch))
    BY <2>2, <2>4
  <2> QED
    BY <2>3, <2>4
<1> QED
  BY <1>1, <1>2 DEF Rows

----------------------------------------------------------------------------
(* Ingest steps.                                                           *)

\* Without statements left there is nothing to refuse or to leave behind.
LEMMA NoPlan == wtodo' = <<>> => Plan'
<1> SUFFICES ASSUME wtodo' = <<>> PROVE Plan'
  OBVIOUS
<1>1. wtodo' \in Seq(OwnerStmt) /\ Len(wtodo') = 0
  OBVIOUS
<1> QED
  BY <1>1 DEF Plan, ChildrenFirst, StreamsLast, SweepsWhole

\* Without an ingest nothing is buffered.
LEMMA NoLoad == pc' = "idle" /\ buf' = {} /\ pos' = 0 => Load'
BY DEF Load, StagesDone, Before, SignalStages, FromRequest, Healthy

\* A request begins.
LEMMA BeginRefs ==
  ASSUME StoreInv, ReferencesInv, NEW b \in Batches, BeginIngest(b)
  PROVE  ReferencesInv'
<1>1. /\ wtodo' = <<>> /\ pc = "idle" /\ nth' = nth + 1 /\ pc' = FirstStage(b) /\ batch' = b
      /\ UNCHANGED <<db, pos, buf>>
  BY DEF BeginIngest, wrVars
<1>2. ParentsPresent'
  BY <1>1 DEF ReferencesInv, Rows, ParentsPresent
<1>3. Rows'
  BY <1>1, <1>2, ShrinkKeeps DEF ReferencesInv
<1>4. buf = {} /\ pos = 0
  BY <1>1 DEF StoreInv, Buffered, ReferencesInv, Load, SignalStages
<1>5. Load'
  BY <1>1, <1>4 DEF Load, StagesDone, Before, SignalStages, FromRequest, Healthy, FirstStage
<1> QED
  BY <1>1, <1>3, <1>5, NoPlan DEF ReferencesInv

\* Rows of the current statement may be inserted once their parents are stored.
LEMMA StageGrows ==
  ASSUME StoreInv, Rows, pc \in Stages,
         NEW some \in SUBSET StageRows(batch, pc), \A r \in some : r.fk \subseteq Keys(db),
         db' = InsertNew(some), UNCHANGED <<nth, batch>> \/ (pc' = "idle" /\ nth' = nth)
  PROVE  Rows'
<1> DEFINE new == {r \in some : r.key \notin Keys(db)}
<1>1. db' = db \cup new /\ pc # "idle"
  BY DEF InsertNew, Stages, DictTables
<1>2. batch \in BatchType /\ Closed(batch)
  BY RunningFact
<1>3. \A r \in new : r \in Row /\ r.key.t = pc
  BY <1>2, StageRowsFact
<1>4. ASSUME NEW r \in new
      PROVE  /\ Shaped(r) /\ r.key.t \notin FreshTables
             /\ r.key.t \in {"attributes", "histogram_bounds"} => r.attrs = {}
             /\ r.key.t = "metric_series" => \E b \in Batches : r \in b.series
  <2>1. CASE pc = "attributes"
    BY <1>3, <2>1 DEF StageRows, AttributeRow, Shaped, FreshTables
  <2>2. CASE pc = "metric_streams"
    BY <1>2, <1>3, <2>2 DEF StageRows, Closed, AllRows, Shaped, FreshTables
  <2>3. CASE pc = "metric_series"
    <3>1. r \in batch.series
      BY <2>3 DEF StageRows
    <3>2. batch \in Batches
      BY <3>1, RunningFact DEF NoBatch
    <3> QED
      BY <1>2, <1>3, <2>3, <3>1, <3>2 DEF Closed, AllRows, Shaped, FreshTables
  <2>4. CASE pc \in {"resources", "scopes", "histogram_bounds"}
    <3>1. r \in batch.dict
      BY <2>4 DEF StageRows, OfTable
    <3>2. r.key.t = "histogram_bounds" => r.attrs = {}
      BY <3>1, RunningFact, RequestFact
    <3> QED
      BY <1>2, <1>3, <2>4, <3>1, <3>2 DEF Closed, AllRows, Shaped, FreshTables
  <2> QED
    BY <2>1, <2>2, <2>3, <2>4 DEF Stages, DictTables
<1>5. new \in SUBSET Row
  BY <1>3
<1> HIDE DEF new
<1>6. \A r \in new : r.key \notin Keys(db) /\ r.fk \subseteq Keys(db)
  BY DEF new
<1> QED
  BY <1>1, <1>4, <1>5, <1>6, GrowKeeps

\* The statements that have run, after one more.
LEMMA BeforeFact ==
  ASSUME NEW sig \in Signals, NEW t \in Stages,
         t \in {"metric_streams", "metric_series"} => sig = "metrics"
  PROVE  /\ Before(sig, NextStage(sig, t)) = Before(sig, t) \cup {t}
         /\ NextStage(sig, t) \in {"metric_streams", "metric_series"} => sig = "metrics"
BY DEF Signals, Stages, DictTables, Before, NextStage

\* A statement whose keys are stored afterwards completes its stage.
LEMMA StageLoads ==
  ASSUME StoreInv, Load, pc \in Stages,
         Keys(db) \subseteq Keys(db'), Keys(StageRows(batch, pc)) \subseteq Keys(db'),
         pc' = NextStage(batch.sig, pc), UNCHANGED <<batch, pos, buf>>
  PROVE  Load'
<1>1. batch.sig \in Signals
  BY SigFact
<1>2. /\ Before(batch.sig, pc') = Before(batch.sig, pc) \cup {pc}
      /\ pc' \in {"metric_streams", "metric_series"} => batch.sig = "metrics"
  BY <1>1, BeforeFact DEF Load, SignalStages
<1>3. StagesDone'
  BY <1>2 DEF Load, StagesDone
<1>4. buf = {} /\ pos = 0
  BY DEF StoreInv, Buffered, Load, SignalStages, Stages, DictTables
<1>5. pc' \in Stages \cup {"append"}
  BY NextStageFact
<1>6. batch.items \in Seq(SUBSET {r \in Row : r.key.t \in FreshTables \cup {"spans"}})
  BY SigFact DEF BatchType
<1>7. pos' <= Len(batch'.items) /\ Appended' = {}
  BY <1>4, <1>6 DEF Appended
<1> QED
  BY <1>2, <1>3, <1>4, <1>5, <1>7
  DEF Load, SignalStages, FromRequest, Healthy, Stages, DictTables

\* flushRows: what the cache lets it skip is stored.
LEMMA FlushRowsRefs ==
  ASSUME StoreInv, ReferencesInv, FlushRows
  PROVE  ReferencesInv'
<1> DEFINE unseen == {r \in StageRows(batch, pc) : r.key \notin flushed}
<1>1. /\ pc \in DictTables /\ pc \in Stages /\ db' = InsertNew(unseen)
      /\ pc' = NextStage(batch.sig, pc)
      /\ UNCHANGED <<batch, nth, pos, buf, wtodo>>
  BY DEF FlushRows, wrVars, Stages
<1>2. wtodo = <<>> /\ flushed \subseteq Keys(db)
  BY <1>1 DEF StoreInv, Excluded, CacheInv, DictTables
<1>3. \A r \in StageRows(batch, pc) : r.fk = {}
  <2>1. CASE pc = "attributes"
    BY <2>1 DEF StageRows, AttributeRow
  <2>2. CASE pc # "attributes"
    BY <1>1, <2>2, RunningFact
    DEF StageRows, OfTable, Closed, AllRows, References, DictTables
  <2> QED
    BY <2>1, <2>2
<1>4. Rows'
  BY <1>1, <1>3, StageGrows DEF ReferencesInv
<1>5. Keys(db') = Keys(db) \cup Keys(unseen)
  BY <1>1, InsertFact
<1>6. Keys(StageRows(batch, pc)) \subseteq Keys(db')
  BY <1>2, <1>5, KeysFact
<1> QED
  BY <1>1, <1>2, <1>4, <1>5, <1>6, StageLoads, NoPlan DEF ReferencesInv

\* Streams and series find their parents.
LEMMA UpsertRefs ==
  ASSUME StoreInv, ReferencesInv, UpsertIdentity
  PROVE  ReferencesInv'
<1>1. /\ pc \in {"metric_streams", "metric_series"} /\ pc \in Stages
      /\ \A r \in StageRows(batch, pc) : r.fk \subseteq Keys(db)
      /\ db' = InsertNew(StageRows(batch, pc)) /\ pc' = NextStage(batch.sig, pc)
      /\ UNCHANGED <<batch, nth, pos, buf, wtodo>>
  BY DEF UpsertIdentity, FKSatisfied, wrVars, Stages
<1>2. wtodo = <<>>
  BY <1>1 DEF StoreInv, Excluded
<1>3. Rows'
  BY <1>1, StageGrows DEF ReferencesInv
<1>4. Keys(db') = Keys(db) \cup Keys(StageRows(batch, pc))
  BY <1>1, InsertFact
<1> QED
  BY <1>1, <1>2, <1>3, <1>4, StageLoads, NoPlan DEF ReferencesInv

\* A statement that fails leaves rows with their parents.
LEMMA StageFailsRefs ==
  ASSUME StoreInv, ReferencesInv, StageFails
  PROVE  ReferencesInv'
<1> DEFINE some == {r \in StageRows(batch, pc) : r.key \notin flushed}
<1>1. /\ pc \in Stages /\ pc' = "idle" /\ buf' = {} /\ pos' = 0
      /\ UNCHANGED <<nth, wtodo>>
      /\ \/ db' = db
         \/ /\ \A r \in StageRows(batch, pc) : r.fk \subseteq Keys(db)
            /\ db' = InsertNew(some)
  BY DEF StageFails, EndIngest, FKSatisfied, wrVars
<1>2. wtodo = <<>>
  BY <1>1 DEF StoreInv, Excluded, Stages, DictTables
<1>3. CASE db' = db
  <2>1. ParentsPresent'
    BY <1>3 DEF ReferencesInv, Rows, ParentsPresent
  <2> QED
    <3>1. Rows'
      <4>1. db' \subseteq db /\ nth' = nth /\ pc' = "idle" /\ Rows
        BY <1>1, <1>3 DEF ReferencesInv
      <4> HIDE <1>1, <1>3
      <4> QED
        BY <2>1, <4>1, ShrinkKeeps
    <3> QED
      BY <1>1, <1>2, <3>1, NoPlan, NoLoad DEF ReferencesInv
<1>4. CASE db' = InsertNew(some) /\ \A r \in some : r.fk \subseteq Keys(db)
  BY <1>1, <1>4, StageGrows, <1>2, NoPlan, NoLoad DEF ReferencesInv
<1> QED
  BY <1>1, <1>3, <1>4

\* The walks, signal by signal.
LEMMA WalksFact ==
  /\ Walks("spans") = {<<"spans", "links", "events">>, <<"links", "events">>, <<"events">>}
  /\ Walks("logs") = {<<"logs">>}
  /\ Walks("metrics") = {<<"metric_ingests", "datapoints", "exemplars">>,
                         <<"datapoints", "exemplars">>, <<"exemplars">>}
BY DEF Walks

\* The ways on from a walk, and what it walks over.
LEMMA WalkFact ==
  ASSUME NEW sig \in Signals, NEW w \in Walks(sig)
  PROVE  /\ w \in Seq(OwnerTables) /\ w # <<>>
         /\ Tail(w) = <<>> \/ Tail(w) \in Walks(sig)
         /\ \A i \in 1 .. Len(w) : w[i] \notin References(w[1])
<1> DEFINE P(v, n) == /\ v \in Seq(OwnerTables) /\ v # <<>> /\ Tail(v) = n
                     /\ \A i \in 1 .. Len(v) : v[i] \notin References(v[1])
<1>1. /\ P(<<"spans", "links", "events">>, <<"links", "events">>)
      /\ P(<<"links", "events">>, <<"events">>)
  BY DEF OwnerTables, References
<1>2. P(<<"events">>, <<>>) /\ P(<<"logs">>, <<>>) /\ P(<<"exemplars">>, <<>>)
  BY DEF OwnerTables, References
<1>3. /\ P(<<"metric_ingests", "datapoints", "exemplars">>, <<"datapoints", "exemplars">>)
      /\ P(<<"datapoints", "exemplars">>, <<"exemplars">>)
  BY DEF OwnerTables, References
<1>4. \E n \in Walks(sig) \cup {<<>>} : P(w, n)
  <2> HIDE DEF P
  <2>1. CASE sig = "spans"
    BY <1>1, <1>2, <2>1, WalksFact
  <2>2. CASE sig = "logs"
    BY <1>2, <2>2, WalksFact
  <2>3. CASE sig = "metrics"
    BY <1>2, <1>3, <2>3, WalksFact
  <2> QED
    BY <2>1, <2>2, <2>3 DEF Signals
<1> QED
  BY <1>4

\* The rest of a walk.
LEMMA WalkTail ==
  ASSUME NEW w \in Seq(OwnerTables), w # <<>>
  PROVE  /\ Len(w) \in Nat \ {0} /\ Head(w) = w[1] /\ Len(Tail(w)) = Len(w) - 1
         /\ \A i \in 2 .. Len(w) : i - 1 \in 1 .. Len(Tail(w)) /\ Tail(w)[i - 1] = w[i]
OBVIOUS

\* A walk starts over all tables of the signal.
LEMMA WalkStart ==
  ASSUME NEW sig \in Signals
  PROVE  /\ FlushOrder(sig) \in Walks(sig)
         /\ \A t \in ItemTables(sig) : \E i \in 1 .. Len(FlushOrder(sig)) : t = FlushOrder(sig)[i]
<1>1. CASE sig = "spans"
  BY <1>1, WalksFact DEF FlushOrder, ItemTables
<1>2. CASE sig = "logs"
  BY <1>2, WalksFact DEF FlushOrder, ItemTables
<1>3. CASE sig = "metrics"
  BY <1>3, WalksFact DEF FlushOrder, ItemTables
<1> QED
  BY <1>1, <1>2, <1>3 DEF Signals

\* Past the stages, the rows an item refers to are stored or in the item.
LEMMA ItemParents ==
  ASSUME StoreInv, ReferencesInv, pc \in {"append", "flush", "close"},
         NEW i \in DOMAIN batch.items, NEW e \in batch.items[i]
  PROVE  Stamp(e, nth).fk \subseteq Keys(db) \cup Keys({Stamp(r, nth) : r \in batch.items[i]})
<1>1. /\ batch \in BatchType /\ Closed(batch) /\ batch.sig \in Signals
      /\ batch.items[i] \subseteq ItemRows(batch)
  BY RunningFact, SigFact DEF ItemRows
<1>2. \A r \in batch.items[i] : r \in Row /\ Shaped(r) /\ r.key \in Key
  BY <1>1, RunningFact, RowFact
<1>3. e.fk \subseteq Key /\ Stamp(e, nth).fk = {StampKey(k, nth) : k \in e.fk}
  BY <1>2, RunningFact, RowFact, StampRowFact
<1>4. /\ e.fk \subseteq Keys(batch.dict \cup batch.streams \cup batch.series \cup batch.items[i])
      /\ e.key.t \in ItemTables(batch.sig)
  BY <1>1 DEF Closed
<1>5. ASSUME NEW k \in e.fk
      PROVE  StampKey(k, nth) \in Keys(db) \cup Keys({Stamp(r, nth) : r \in batch.items[i]})
  <2>1. PICK q \in batch.dict \cup batch.streams \cup batch.series \cup batch.items[i] : q.key = k
    BY <1>4 DEF Keys
  <2>2. k.t \in References(e.key.t) /\ k \in Key
    BY <1>2, <1>3 DEF Shaped
  <2>3. CASE q \in batch.items[i]
    <3>1. Stamp(q, nth).key = StampKey(k, nth)
      BY <1>2, <2>1, <2>3, RunningFact, StampRowFact
    <3> QED
      BY <2>3, <3>1 DEF Keys
  <2>4. CASE q \in batch.dict
    <3>1. q.key.t \in DictTables \ {"attributes"}
      BY <1>1, <2>4, RequestTables
    <3>2. q \in StageRows(batch, q.key.t) /\ q.key.t \in Before(batch.sig, pc)
      BY <2>4, <3>1 DEF StageRows, OfTable, Before, DictTables
    <3>3. k \in Keys(db)
      BY <2>1, <3>2 DEF ReferencesInv, Load, StagesDone, Keys
    <3>4. StampKey(k, nth) = k
      BY <2>1, <2>2, <3>1, StampKeyFact DEF DictTables, FreshTables
    <3> QED
      BY <3>3, <3>4
  <2>5. CASE q \in batch.streams \cup batch.series
    <3>1. k.t \in {"metric_streams", "metric_series"}
      BY <1>1, <2>1, <2>5, RequestTables
    <3>2. batch.sig = "metrics"
      BY <1>1, <1>4, <2>2, <3>1 DEF References, ItemTables, Signals
    <3>3. q \in StageRows(batch, k.t) /\ k.t \in Before(batch.sig, pc)
      BY <1>1, <2>1, <2>5, <3>1, <3>2, RequestTables DEF StageRows, Before
    <3>4. k \in Keys(db)
      BY <2>1, <3>3 DEF ReferencesInv, Load, StagesDone, Keys
    <3>5. StampKey(k, nth) = k
      BY <2>2, <3>1, StampKeyFact DEF FreshTables
    <3> QED
      BY <3>4, <3>5
  <2> QED
    BY <2>1, <2>3, <2>4, <2>5
<1> QED
  BY <1>3, <1>5

\* Past the stages, neither the tables nor the request change while the
\* appenders are filled.
LEMMA LoadedKeeps ==
  ASSUME StoreInv, ReferencesInv, pc \in {"append", "flush", "close"},
         pc' \in {"append", "flush", "close"},
         UNCHANGED <<nth, batch, wtodo>>, Keys(db) \subseteq Keys(db')
  PROVE  StagesDone' /\ SignalStages' /\ Plan'
<1>1. wtodo' = <<>>
  BY DEF StoreInv, Excluded
<1>2. Before(batch.sig, pc') = Before(batch.sig, pc)
  BY DEF Before
<1>3. StagesDone'
  BY <1>2 DEF ReferencesInv, Load, StagesDone
<1>4. SignalStages'
  BY DEF SignalStages, Stages, DictTables
<1> QED
  BY <1>1, <1>3, <1>4, NoPlan

\* An item, or part of one, goes into the appenders.
LEMMA AppendRefs ==
  ASSUME StoreInv, ReferencesInv, AppendItem \/ AbortItems
  PROVE  ReferencesInv'
<1>1. /\ pc = "append" /\ pos \in Nat /\ pos < Len(batch.items)
      /\ pc' \in {"append", "flush", "close"}
      /\ UNCHANGED <<db, batch, nth, wtodo>>
  BY DEF AppendItem, AbortItems, StartClose, wrVars, StoreInv, TypeOK
<1>2. PICK part \in SUBSET batch.items[pos + 1] : buf' = buf \cup {Stamp(r, nth) : r \in part}
  BY DEF AppendItem, AbortItems
<1>3. pos + 1 \in DOMAIN batch.items /\ batch.items[pos + 1] \subseteq ItemRows(batch)
  BY <1>1, SigFact DEF BatchType, ItemRows
<1>4. StagesDone' /\ SignalStages' /\ Plan'
  BY <1>1, LoadedKeeps
<1>5. Rows'
  <2>1. ParentsPresent'
    BY <1>1 DEF ReferencesInv, Rows, ParentsPresent
  <2> QED
    BY <1>1, <2>1, ShrinkKeeps DEF ReferencesInv
<1>6. FromRequest'
  BY <1>1, <1>2, <1>3 DEF ReferencesInv, Load, FromRequest
<1>7. CASE AbortItems
  BY <1>4, <1>5, <1>6, <1>7 DEF AbortItems, Healthy, ReferencesInv, Load
<1>8. CASE AppendItem
  <2> DEFINE item == {Stamp(r, nth) : r \in batch.items[pos + 1]}
  <2>1. /\ buf' = buf \cup item /\ pos' = pos + 1 /\ failed' = failed
        /\ pc' # "append" => pc' = "flush" /\ tabs' = FlushOrder(batch.sig)
    BY <1>1, <1>8 DEF AppendItem
  <2>2. SUFFICES ASSUME ~failed PROVE Healthy'
    BY <1>4, <1>5, <1>6, <2>1 DEF Healthy, ReferencesInv, Load
  <2>3. /\ {Stamp(r, nth) : r \in Appended} \subseteq db \cup buf
        /\ \A r \in buf : r.fk \subseteq Keys(db) \cup Keys(buf)
    BY <1>1, <2>2 DEF ReferencesInv, Load, Healthy
  <2>4. Appended' = Appended \cup batch.items[pos + 1]
    <3>1. 1 .. pos' = (1 .. pos) \cup {pos + 1}
      BY <1>1, <2>1
    <3> QED
      BY <1>1, <3>1 DEF Appended
  <2>5. {Stamp(r, nth') : r \in Appended'} \subseteq db' \cup buf'
    BY <1>1, <2>1, <2>3, <2>4
  <2>6. \A r \in item : r.fk \subseteq Keys(db) \cup Keys(item)
    BY <1>1, <1>3, ItemParents
  <2>7. \A r \in buf' : r.fk \subseteq Keys(db') \cup Keys(buf')
    <3>1. Keys(buf) \subseteq Keys(buf') /\ Keys(item) \subseteq Keys(buf')
      BY <2>1 DEF Keys
    <3> HIDE DEF item
    <3> QED
      BY <1>1, <2>1, <2>3, <2>6, <3>1
  <2>8. pc' # "append" => /\ tabs' \in Walks(batch.sig)
                          /\ \A r \in buf' : \E i \in 1 .. Len(tabs') : r.key.t = tabs'[i]
    <3>1. batch.sig \in Signals
      BY SigFact
    <3>2. \A r \in buf' : r.key.t \in ItemTables(batch.sig)
      <4> SUFFICES ASSUME NEW r \in buf' PROVE r.key.t \in ItemTables(batch.sig)
        OBVIOUS
      <4>1. PICK e \in ItemRows(batch) : r = Stamp(e, nth)
        BY <1>1, <1>6 DEF FromRequest
      <4>2. PICK i \in DOMAIN batch.items : e \in batch.items[i]
        BY DEF ItemRows
      <4>3. r.key.t = e.key.t
        BY <4>1, RunningFact, RowFact, StampRowFact, StampKeyFact
      <4> QED
        BY <4>2, <4>3, RunningFact DEF Closed
    <3> QED
      BY <2>1, <3>1, <3>2, WalkStart
  <2>9. pos' <= Len(batch'.items)
    BY <1>1, <2>1, SigFact DEF BatchType
  <2>10. pc' # "close"
    BY <1>1, <2>1
  <2> HIDE DEF item
  <2> QED
    BY <1>1, <2>5, <2>7, <2>8, <2>9, <2>10 DEF Healthy
<1> QED
  BY <1>7, <1>8

\* Every item has been appended when the appenders are closed.
LEMMA FinishRefs ==
  ASSUME StoreInv, ReferencesInv, FinishItems
  PROVE  ReferencesInv'
<1>1. /\ pc = "append" /\ pos = Len(batch.items) /\ pc' = "close" /\ tabs' = FlushOrder(batch.sig)
      /\ UNCHANGED <<db, batch, nth, pos, buf, failed, wtodo>>
  BY DEF FinishItems, StartClose, wrVars
<1>2. StagesDone' /\ SignalStages' /\ Plan'
  BY <1>1, LoadedKeeps
<1>3. Rows'
  <2>1. ParentsPresent'
    BY <1>1 DEF ReferencesInv, Rows, ParentsPresent
  <2> QED
    BY <1>1, <2>1, ShrinkKeeps DEF ReferencesInv
<1>4. FromRequest'
  BY <1>1 DEF ReferencesInv, Load, FromRequest
<1>5. /\ tabs' \in Walks(batch.sig)
      /\ \A r \in buf : \E i \in 1 .. Len(tabs') : r.key.t = tabs'[i]
  <2>1. batch.sig \in Signals /\ FromRequest
    BY SigFact DEF ReferencesInv, Load
  <2>2. \A r \in buf : r.key.t \in ItemTables(batch.sig)
    BY <2>1, BufferFact
  <2> QED
    BY <1>1, <2>1, <2>2, WalkStart
<1>6. Appended' = Appended
  BY <1>1 DEF Appended
<1>7. Healthy'
  BY <1>1, <1>5, <1>6 DEF ReferencesInv, Load, Healthy
<1> QED
  BY <1>2, <1>3, <1>4, <1>7 DEF ReferencesInv, Load

\* Rows an appender commits: their parents are stored and their keys new.
LEMMA CommitGrows ==
  ASSUME StoreInv, ReferencesInv, pc \in {"flush", "close"},
         NEW t, FKSatisfied(OfTable(buf, t)), PKSatisfied(OfTable(buf, t)),
         db' = db \cup OfTable(buf, t), UNCHANGED <<nth, batch>> \/ (pc' = "idle" /\ nth' = nth)
  PROVE  Rows'
<1> DEFINE new == OfTable(buf, t)
<1>1. FromRequest /\ Rows
  BY DEF ReferencesInv, Load
<1>2. ASSUME NEW r \in new
      PROVE  /\ r \in Row /\ Shaped(r)
             /\ r.key.t \notin {"attributes", "histogram_bounds", "metric_series"}
             /\ r.key.t \in FreshTables => r.key.n = nth /\ \E e \in ItemRows(batch) : r = Stamp(e, nth)
  <2>1. r \in buf
    BY DEF OfTable
  <2>2. \E e \in ItemRows(batch) : r = Stamp(e, nth)
    BY <1>1, <2>1 DEF FromRequest
  <2> QED
    BY <1>1, <2>1, <2>2, BufferFact DEF FreshTables
<1>3. \A r \in new : r.key \notin Keys(db) /\ r.fk \subseteq Keys(db)
  BY DEF FKSatisfied, PKSatisfied
<1>4. new \in SUBSET Row
  BY <1>2
<1> HIDE DEF new
<1> QED
  BY <1>1, <1>2, <1>3, <1>4, GrowKeeps DEF new

\* A healthy walk meets the parents of its table in the store, and what it
\* commits leaves the rest of the walk.
LEMMA HealthyWalk ==
  ASSUME StoreInv, ReferencesInv, pc \in {"flush", "close"}, ~failed
  PROVE  LET part == OfTable(buf, Head(tabs))
         IN /\ FKSatisfied(part)
            /\ \A r \in buf \ part : \E i \in 1 .. Len(Tail(tabs)) : r.key.t = Tail(tabs)[i]
            /\ Tail(tabs) = <<>> => buf \subseteq part
            /\ tabs # <<>> /\ (Tail(tabs) = <<>> \/ Tail(tabs) \in Walks(batch.sig))
<1> DEFINE part == OfTable(buf, Head(tabs))
<1>1. /\ tabs \in Walks(batch.sig) /\ batch.sig \in Signals /\ FromRequest
      /\ \A r \in buf : \E i \in 1 .. Len(tabs) : r.key.t = tabs[i]
      /\ \A r \in buf : r.fk \subseteq Keys(db) \cup Keys(buf)
  BY SigFact DEF ReferencesInv, Load, Healthy
<1>2. /\ tabs \in Seq(OwnerTables) /\ tabs # <<>>
      /\ Tail(tabs) = <<>> \/ Tail(tabs) \in Walks(batch.sig)
      /\ \A i \in 1 .. Len(tabs) : tabs[i] \notin References(tabs[1])
  BY <1>1, WalkFact
<1>3. /\ Len(tabs) \in Nat \ {0} /\ Head(tabs) = tabs[1] /\ Len(Tail(tabs)) = Len(tabs) - 1
      /\ \A i \in 2 .. Len(tabs) : i - 1 \in 1 .. Len(Tail(tabs)) /\ Tail(tabs)[i - 1] = tabs[i]
  BY <1>2, WalkTail
<1>4. FKSatisfied(part)
  <2> SUFFICES ASSUME NEW r \in part, NEW k \in r.fk PROVE k \in Keys(db)
    BY DEF FKSatisfied
  <2>1. r \in buf /\ r.key.t = tabs[1]
    BY <1>3 DEF OfTable
  <2>2. k.t \in References(tabs[1])
    BY <1>1, <2>1, BufferFact DEF Shaped
  <2>3. k \notin Keys(buf)
    BY <1>1, <1>2, <2>2 DEF Keys
  <2> QED
    BY <1>1, <2>1, <2>3
<1>5. ASSUME NEW r \in buf \ part
      PROVE  \E i \in 1 .. Len(Tail(tabs)) : r.key.t = Tail(tabs)[i]
  <2>1. PICK i \in 1 .. Len(tabs) : r.key.t = tabs[i]
    BY <1>1
  <2>2. i # 1
    BY <1>3, <2>1 DEF OfTable
  <2>3. i \in 2 .. Len(tabs)
    BY <1>3, <2>2
  <2> QED
    BY <1>3, <2>1, <2>3
<1>6. Tail(tabs) = <<>> => buf \subseteq part
  <2>1. Tail(tabs) = <<>> => Len(Tail(tabs)) = 0
    OBVIOUS
  <2> QED
    BY <1>5, <2>1
<1> HIDE DEF part
<1> QED
  BY <1>2, <1>4, <1>5, <1>6 DEF part

\* What is appended stays, and so do the parents of what is buffered, when rows
\* move from an appender to the store.
LEMMA MoveKeeps ==
  ASSUME StoreInv, ReferencesInv, pc \in {"flush", "close"}, ~failed,
         NEW part \in SUBSET buf, db' = db \cup part, buf' = buf \ part
  PROVE  /\ {Stamp(r, nth) : r \in Appended} \subseteq db' \cup buf'
         /\ \A r \in buf' : r.fk \subseteq Keys(db') \cup Keys(buf')
<1>1. /\ {Stamp(r, nth) : r \in Appended} \subseteq db \cup buf
      /\ \A r \in buf : r.fk \subseteq Keys(db) \cup Keys(buf)
  BY DEF ReferencesInv, Load, Healthy
<1>2. Keys(db) \cup Keys(buf) = Keys(db') \cup Keys(buf')
  BY DEF Keys
<1> QED
  BY <1>1, <1>2

\* FlushAppenders, one appender.
LEMMA FlushTableRefs ==
  ASSUME StoreInv, ReferencesInv, FlushTable
  PROVE  ReferencesInv'
<1> DEFINE part == OfTable(buf, Head(tabs))
<1>1. /\ pc = "flush" /\ UNCHANGED <<batch, nth, pos, wtodo>>
      /\ \/ /\ FKSatisfied(part) /\ PKSatisfied(part)
            /\ db' = db \cup part /\ buf' = buf \ part /\ tabs' = Tail(tabs)
            /\ pc' = IF Tail(tabs) = <<>> THEN "append" ELSE "flush"
            /\ failed' = failed
         \/ pc' = "close" /\ failed' = TRUE /\ db' = db /\ buf' = buf
  BY DEF FlushTable, StartClose, wrVars
<1>2. StagesDone' /\ SignalStages' /\ Plan'
  <2>1. Keys(db) \subseteq Keys(db') /\ pc' \in {"append", "flush", "close"}
    BY <1>1 DEF Keys
  <2> QED
    BY <1>1, <2>1, LoadedKeeps
<1>3. FromRequest'
  BY <1>1 DEF ReferencesInv, Load, FromRequest
<1>4. CASE failed' = TRUE /\ db' = db
  <2>1. ParentsPresent'
    BY <1>4 DEF ReferencesInv, Rows, ParentsPresent
  <2>2. Rows'
    BY <1>1, <1>4, <2>1, ShrinkKeeps DEF ReferencesInv
  <2> QED
    BY <1>2, <1>3, <1>4, <2>2 DEF ReferencesInv, Load, Healthy
<1>5. CASE /\ FKSatisfied(part) /\ PKSatisfied(part)
           /\ db' = db \cup part /\ buf' = buf \ part /\ tabs' = Tail(tabs)
           /\ pc' = (IF Tail(tabs) = <<>> THEN "append" ELSE "flush")
           /\ failed' = failed
  <2>1. Rows'
    BY <1>1, <1>5, CommitGrows
  <2>2. SUFFICES ASSUME ~failed PROVE Healthy'
    BY <1>2, <1>3, <1>5, <2>1 DEF ReferencesInv, Load, Healthy
  <2>3. /\ {Stamp(r, nth) : r \in Appended} \subseteq db' \cup buf'
        /\ \A r \in buf' : r.fk \subseteq Keys(db') \cup Keys(buf')
    BY <1>1, <1>5, <2>2, MoveKeeps DEF OfTable
  <2>4. pos <= Len(batch.items) /\ Appended' = Appended
    BY <1>1, <2>2 DEF ReferencesInv, Load, Healthy, Appended
  <2>5. pc' # "append" => /\ tabs' \in Walks(batch.sig)
                          /\ \A r \in buf' : \E i \in 1 .. Len(tabs') : r.key.t = tabs'[i]
    BY <1>1, <1>5, <2>2, HealthyWalk
  <2> HIDE DEF part
  <2> QED
    BY <1>1, <1>5, <2>3, <2>4, <2>5 DEF Healthy
<1> QED
  BY <1>1, <1>4, <1>5

\* CloseAppenders, one appender.
LEMMA CloseTableRefs ==
  ASSUME StoreInv, ReferencesInv, CloseTable
  PROVE  ReferencesInv'
<1> DEFINE part == OfTable(buf, Head(tabs))
<1>1. /\ pc = "close" /\ nth' = nth /\ wtodo' = wtodo /\ wtodo = <<>>
      /\ \/ /\ FKSatisfied(part) /\ PKSatisfied(part)
            /\ db' = db \cup part /\ failed' = failed
         \/ failed' = TRUE /\ db' = db
      /\ \/ pc' = "idle" /\ buf' = {} /\ pos' = 0
         \/ /\ Tail(tabs) # <<>> /\ buf' = buf \ part /\ tabs' = Tail(tabs)
            /\ UNCHANGED <<pc, batch, pos>>
  BY DEF CloseTable, EndIngest, wrVars, StoreInv, Excluded
<1>2. Rows'
  <2>1. CASE db' = db
    <3>1. ParentsPresent'
      BY <2>1 DEF ReferencesInv, Rows, ParentsPresent
    <3>2. nth' = nth /\ (pc' = "idle" \/ (pc # "idle" /\ batch' = batch))
      BY <1>1
    <3> QED
      BY <2>1, <3>1, <3>2, ShrinkKeeps DEF ReferencesInv
  <2>2. CASE FKSatisfied(part) /\ PKSatisfied(part) /\ db' = db \cup part
    BY <1>1, <2>2, CommitGrows
  <2> QED
    BY <1>1, <2>1, <2>2
<1>3. CASE pc' = "idle" /\ buf' = {} /\ pos' = 0
  BY <1>1, <1>2, <1>3, NoLoad, NoPlan DEF ReferencesInv
<1>4. CASE /\ Tail(tabs) # <<>> /\ buf' = buf \ part /\ tabs' = Tail(tabs)
           /\ UNCHANGED <<pc, batch, pos>>
  <2>1. StagesDone' /\ SignalStages' /\ Plan'
    <3>1. Keys(db) \subseteq Keys(db') /\ pc' \in {"append", "flush", "close"}
      BY <1>1, <1>4 DEF Keys
    <3> QED
      BY <1>1, <1>4, <3>1, LoadedKeeps
  <2>2. FromRequest'
    BY <1>1, <1>4 DEF ReferencesInv, Load, FromRequest
  <2>3. SUFFICES ASSUME ~failed' PROVE Healthy'
    BY <1>2, <2>1, <2>2 DEF ReferencesInv, Load, Healthy
  <2>4. ~failed /\ db' = db \cup part
    BY <1>1, <2>3
  <2>5. /\ {Stamp(r, nth) : r \in Appended} \subseteq db' \cup buf'
        /\ \A r \in buf' : r.fk \subseteq Keys(db') \cup Keys(buf')
    BY <1>1, <1>4, <2>4, MoveKeeps DEF OfTable
  <2>6. pos = Len(batch.items) /\ pos <= Len(batch.items) /\ Appended' = Appended
    BY <1>1, <1>4, <2>4 DEF ReferencesInv, Load, Healthy, Appended
  <2>7. /\ tabs' \in Walks(batch.sig)
        /\ \A r \in buf' : \E i \in 1 .. Len(tabs') : r.key.t = tabs'[i]
    BY <1>1, <1>4, <2>4, HealthyWalk
  <2> HIDE DEF part
  <2> QED
    BY <1>1, <1>4, <2>5, <2>6, <2>7 DEF Healthy
<1> QED
  BY <1>1, <1>3, <1>4

\* The process stops and comes back.
LEMMA RestartRefs ==
  ASSUME StoreInv, ReferencesInv, Restart
  PROVE  ReferencesInv'
<1>1. db' = db /\ nth' = nth /\ wtodo' = <<>> /\ pc' = "idle" /\ buf' = {} /\ pos' = 0
  BY DEF Restart, EndIngest
<1>2. ParentsPresent'
  BY <1>1 DEF ReferencesInv, Rows, ParentsPresent
<1>3. Rows'
  BY <1>1, <1>2, ShrinkKeeps DEF ReferencesInv
<1> QED
  BY <1>1, <1>3, NoLoad, NoPlan DEF ReferencesInv

----------------------------------------------------------------------------
(* Statements.                                                             *)

\* Which tables a row that refers to table u can be in.
LEMMA Referrers ==
  ASSUME NEW t, NEW u \in References(t)
  PROVE  /\ u \notin {"attributes", "links", "events", "logs", "exemplars"}
         /\ t \notin DictTables \cup {"metric_streams"}
         /\ u = "spans" => t \in {"events", "links"}
         /\ u = "datapoints" => t = "exemplars"
         /\ u \in {"metric_series", "metric_ingests"} => t = "datapoints"
         /\ u = "metric_streams" => t \in {"metric_series", "metric_ingests", "datapoints"}
BY DEF References, DictTables

\* A datapoint of a stream has an ingest row of that stream.
LEMMA StreamOfDatapoint ==
  ASSUME ReferencesInv, NEW d \in OfTable(db, "datapoints"), NEW k \in d.fk, k.t = "metric_streams"
  PROVE  \E m \in OfTable(db, "metric_ingests") : k \in m.fk
<1>1. PICK i \in d.fk : i.t = "metric_ingests"
  BY DEF ReferencesInv, Rows, SameStream
<1>2. PICK m \in db : m.key = i
  BY KeysFact DEF ReferencesInv, Rows, ParentsPresent, OfTable
<1>3. m \in OfTable(db, "metric_ingests") /\ StreamsOf(m) = StreamsOf(d)
  BY <1>1, <1>2 DEF ReferencesInv, Rows, SameStream, OfTable
<1> QED
  BY <1>3 DEF StreamsOf

\* No statement removes a row another one that stays refers to.
LEMMA NoChildLeft ==
  ASSUME StoreInv, ReferencesInv, wtodo # <<>>,
         NEW p \in Victims(Head(wtodo)), NEW r \in db \ Victims(Head(wtodo))
  PROVE  p.key \notin r.fk
<1> DEFINE s == Head(wtodo)
<1>1. /\ wtodo \in Seq(Stmt) /\ s \in Stmt /\ s = wtodo[1] /\ 1 \in 1 .. Len(wtodo)
  BY DEF StoreInv, TypeOK
<1>2. p \in db /\ p.key.t = s.t
  BY DEF Victims, OfTable
<1> SUFFICES ASSUME p.key \in r.fk PROVE FALSE
  OBVIOUS
<1>3. s.t \in References(r.key.t)
  BY <1>2 DEF ReferencesInv, Rows, Shapes, Shaped
<1>4. CASE s.op \in {"truncate", "delete"}
  <2>1. Hits(s, p)
    BY <1>2, <1>4 DEF Hits, Victims
  <2>2. \E i \in 1 .. 1 - 1 : Hits(wtodo[i], r)
    BY <1>1, <1>2, <2>1 DEF ReferencesInv, Plan, ChildrenFirst
  <2> QED
    BY <2>2
<1>5. CASE s.op = "childless"
  <2>1. \A c \in OfTable(db, s.child) : p.key \notin c.fk
    BY <1>5 DEF Victims
  <2>2. s \in IdleStmts
    BY <1>1, <1>5 DEF ReferencesInv, Plan, StreamsLast
  <2>3. CASE s \in {IdleSeries, Childless("metric_ingests", "datapoints")}
    <3>1. s.child = "datapoints" /\ s.t \in {"metric_series", "metric_ingests"}
      BY <2>3 DEF IdleSeries, Childless
    <3> QED
      BY <1>3, <2>1, <3>1, Referrers DEF OfTable
  <2>4. CASE s = Childless("metric_streams", "metric_ingests")
    <3>1. s.child = "metric_ingests" /\ s.t = "metric_streams"
      BY <2>4 DEF Childless
    <3>2. SeriesUsed
      <4>1. \/ SeriesUsed
            \/ \E i \in 1 .. 1 - 1 : wtodo[i] = IdleSeries
        BY <1>1, <1>5, <3>1 DEF ReferencesInv, Plan, StreamsLast
      <4> QED
        BY <4>1
    <3>3. \A d \in OfTable(db, "datapoints") : p.key \notin d.fk
      BY <1>2, <2>1, <3>1, StreamOfDatapoint
    <3>4. r \in OfTable(db, "metric_series")
      BY <1>3, <2>1, <3>1, <3>3, Referrers DEF OfTable
    <3>5. PICK d \in OfTable(db, "datapoints") : r.key \in d.fk
      BY <3>2, <3>4 DEF SeriesUsed
    <3>6. StreamsOf(r) = StreamsOf(d) /\ p.key \in StreamsOf(r)
      BY <1>2, <3>1, <3>4, <3>5 DEF ReferencesInv, Rows, SameStream, StreamsOf
    <3> QED
      BY <3>3, <3>6 DEF StreamsOf
  <2> QED
    BY <2>2, <2>3, <2>4 DEF IdleStmts
<1>6. CASE s.op = "sweep"
  <2>1. p.key \notin LiveIn(s.t)
    BY <1>6 DEF Victims
  <2>2. s.t # "attributes"
    BY <1>3, Referrers
  <2> QED
    BY <2>1, <2>2 DEF LiveIn
<1> QED
  BY <1>1, <1>4, <1>5, <1>6 DEF Stmt, OwnerStmt, SweepStmt

\* Deleting the victims of a statement keeps every parent.
LEMMA ParentsKept ==
  ASSUME StoreInv, ReferencesInv, wtodo # <<>>, db' = db \/ db' = db \ Victims(Head(wtodo))
  PROVE  ParentsPresent'
<1>1. ParentsPresent
  BY DEF ReferencesInv, Rows
<1>2. CASE db' = db
  BY <1>1, <1>2 DEF ParentsPresent
<1>3. CASE db' = db \ Victims(Head(wtodo))
  <2> SUFFICES ASSUME NEW r \in db', NEW k \in r.fk PROVE k \in Keys(db')
    BY DEF ParentsPresent
  <2>1. PICK p \in db : p.key = k
    BY <1>1, <1>3, KeysFact DEF ParentsPresent
  <2>2. p \notin Victims(Head(wtodo))
    BY <1>3, <2>1, NoChildLeft
  <2> QED
    BY <1>3, <2>1, <2>2 DEF Keys
<1> QED
  BY <1>2, <1>3

\* What is left of the plan still has children first.
LEMMA RestChildrenFirst ==
  ASSUME StoreInv, ReferencesInv, wtodo # <<>>,
         db' = db \ Victims(Head(wtodo)), wtodo' = Tail(wtodo)
  PROVE  ChildrenFirst(wtodo)'
<1>1. /\ wtodo \in Seq(Stmt) /\ Len(wtodo) \in Nat \ {0} /\ Head(wtodo) = wtodo[1]
      /\ Len(wtodo') = Len(wtodo) - 1 /\ \A i \in 1 .. Len(wtodo') : wtodo'[i] = wtodo[i + 1]
  BY DEF StoreInv, TypeOK
<1> SUFFICES ASSUME NEW j \in 1 .. Len(wtodo'), NEW p \in db', NEW r \in db',
                    Hits(wtodo'[j], p), p.key \in r.fk
             PROVE  \E i \in 1 .. j - 1 : Hits(wtodo'[i], r)
  BY DEF ChildrenFirst, Hits
<1>2. j + 1 \in 1 .. Len(wtodo) /\ Hits(wtodo[j + 1], p) /\ p \in db /\ r \in db
  BY <1>1
<1>3. PICK i \in 1 .. (j + 1) - 1 : Hits(wtodo[i], r)
  BY <1>2 DEF ReferencesInv, Plan, ChildrenFirst
<1>4. i # 1
  <2>1. Hits(Head(wtodo), r) => r \in Victims(Head(wtodo))
    BY <1>2 DEF Hits, Victims, OfTable
  <2> QED
    BY <1>1, <1>3, <2>1
<1>5. i - 1 \in 1 .. j - 1 /\ wtodo'[i - 1] = wtodo[i]
  BY <1>1, <1>3, <1>4
<1> QED
  BY <1>3, <1>5

\* What is left of the plan still removes idle series before idle streams.
LEMMA RestStreamsLast ==
  ASSUME StoreInv, ReferencesInv, wtodo # <<>>,
         db' = db \ Victims(Head(wtodo)), wtodo' = Tail(wtodo)
  PROVE  StreamsLast(wtodo)'
<1> DEFINE s == Head(wtodo)
<1>1. /\ wtodo \in Seq(Stmt) /\ Len(wtodo) \in Nat \ {0} /\ s = wtodo[1]
      /\ Len(wtodo') = Len(wtodo) - 1 /\ \A i \in 1 .. Len(wtodo') : wtodo'[i] = wtodo[i + 1]
  BY DEF StoreInv, TypeOK
<1>2. \A r \in Victims(s) : r.key.t = s.t
  BY DEF Victims, OfTable
<1>3. SeriesUsed /\ s.t # "datapoints" => SeriesUsed'
  BY <1>2 DEF SeriesUsed, OfTable
<1>4. s = IdleSeries => SeriesUsed'
  <2> SUFFICES ASSUME s = IdleSeries, NEW r \in OfTable(db', "metric_series")
               PROVE  \E d \in OfTable(db', "datapoints") : r.key \in d.fk
    BY DEF SeriesUsed
  <2>1. s.op = "childless" /\ s.t = "metric_series" /\ s.child = "datapoints"
    BY DEF IdleSeries, Childless
  <2>2. r \in OfTable(db, s.t) /\ r \notin Victims(s)
    BY <2>1 DEF OfTable
  <2>3. PICK d \in OfTable(db, "datapoints") : r.key \in d.fk
    BY <2>1, <2>2 DEF Victims
  <2> QED
    BY <1>2, <2>1, <2>3 DEF OfTable
<1> SUFFICES ASSUME NEW j \in 1 .. Len(wtodo'), wtodo'[j].op = "childless"
             PROVE  /\ wtodo'[j] \in IdleStmts
                    /\ wtodo'[j].t = "metric_streams" =>
                         \/ SeriesUsed' /\ \A l \in 1 .. j : wtodo'[l].t # "datapoints"
                         \/ \E i \in 1 .. j - 1 : /\ wtodo'[i] = IdleSeries
                                                   /\ \A l \in i .. j : wtodo'[l].t # "datapoints"
  BY DEF StreamsLast, IdleStmts, IdleSeries
<1>5. j + 1 \in 1 .. Len(wtodo) /\ wtodo'[j] = wtodo[j + 1] /\ 1 \in 1 .. j + 1
  BY <1>1
<1>6. /\ wtodo'[j] \in IdleStmts
      /\ wtodo'[j].t = "metric_streams" =>
           \/ SeriesUsed /\ \A l \in 1 .. j + 1 : wtodo[l].t # "datapoints"
           \/ \E i \in 1 .. (j + 1) - 1 : /\ wtodo[i] = IdleSeries
                                           /\ \A l \in i .. j + 1 : wtodo[l].t # "datapoints"
  BY <1>5 DEF ReferencesInv, Plan, StreamsLast
<1>7. ASSUME SeriesUsed, \A l \in 1 .. j + 1 : wtodo[l].t # "datapoints"
      PROVE  SeriesUsed' /\ \A l \in 1 .. j : wtodo'[l].t # "datapoints"
  <2>1. SeriesUsed'
    BY <1>1, <1>3, <1>5, <1>7
  <2>2. \A l \in 1 .. j : l + 1 \in 1 .. j + 1 /\ wtodo'[l] = wtodo[l + 1]
    BY <1>1
  <2> QED
    BY <1>7, <2>1, <2>2
<1>8. ASSUME NEW i \in 1 .. (j + 1) - 1, wtodo[i] = IdleSeries,
             \A l \in i .. j + 1 : wtodo[l].t # "datapoints"
      PROVE  \/ SeriesUsed' /\ \A l \in 1 .. j : wtodo'[l].t # "datapoints"
             \/ \E k \in 1 .. j - 1 : /\ wtodo'[k] = IdleSeries
                                       /\ \A l \in k .. j : wtodo'[l].t # "datapoints"
  <2>1. \A l \in 1 .. j : wtodo'[l] = wtodo[l + 1]
    BY <1>1
  <2>2. CASE i = 1
    <3>1. SeriesUsed'
      BY <1>1, <1>4, <1>8, <2>2
    <3>2. \A l \in 1 .. j : l + 1 \in i .. j + 1
      BY <2>2
    <3> QED
      BY <1>8, <2>1, <3>1, <3>2
  <2>3. CASE i # 1
    <3>1. i - 1 \in 1 .. j - 1 /\ i - 1 \in 1 .. j /\ (i - 1) + 1 = i
      BY <2>3
    <3>2. wtodo'[i - 1] = IdleSeries
      BY <1>8, <2>1, <3>1
    <3>3. \A l \in i - 1 .. j : l \in 1 .. j /\ l + 1 \in i .. j + 1
      BY <3>1
    <3> QED
      BY <1>8, <2>1, <3>1, <3>2, <3>3
  <2> QED
    BY <2>2, <2>3
<1> QED
  BY <1>6, <1>7, <1>8

\* A sweep of one dictionary table leaves no orphan in it and makes none in the
\* tables already swept, if the attributes are not among those too early.
LEMMA SweepExtends ==
  ASSUME StoreInv, Rows, NEW t \in DictTables, NEW ts \in SUBSET DictTables, Swept(ts),
         "attributes" \in ts => t = "histogram_bounds",
         db' = db \ Victims(Sweep(t))
  PROVE  Swept(ts \cup {t})'
<1> DEFINE gone == Victims(Sweep(t))
<1>1. \A v : v \in gone <=> v \in db /\ v.key.t = t /\ v.key \notin LiveIn(t)
  BY DEF Victims, OfTable, Sweep
<1>2. \A v \in gone : v.fk = {}
  BY <1>1, Referrers DEF Rows, Shapes, Shaped
<1>3. t \in {"attributes", "histogram_bounds"} => \A v \in gone : v.attrs = {}
  BY <1>1 DEF Rows, Bare
<1> SUFFICES ASSUME NEW r \in db', r.key.t \in ts \cup {t} PROVE r.key \in LiveIn(r.key.t)'
  BY DEF Swept
<1>4. r \in db /\ r \notin gone
  OBVIOUS
<1>5. r.key \in LiveIn(r.key.t)
  BY <1>1, <1>4 DEF Swept
<1> HIDE DEF gone
<1>6. CASE r.key.t = "attributes"
  <2>1. t \in {"attributes", "histogram_bounds"}
    BY <1>6
  <2>2. PICK q \in db : r.key \in q.attrs
    BY <1>5, <1>6 DEF LiveIn, LiveAttributeIDs
  <2>3. q \in db'
    BY <1>3, <2>1, <2>2 DEF gone
  <2> QED
    BY <1>6, <2>2, <2>3 DEF LiveIn, LiveAttributeIDs
<1>7. CASE r.key.t # "attributes"
  <2>1. PICK q \in db : r.key \in q.fk
    BY <1>5, <1>7 DEF LiveIn
  <2>2. q \in db'
    BY <1>2, <2>1 DEF gone
  <2> QED
    BY <1>7, <2>1, <2>2 DEF LiveIn
<1> QED
  BY <1>6, <1>7

\* The sweep, step by step.
LEMMA SweepRests ==
  /\ SweepOrphans # <<>> /\ Head(SweepOrphans) = Sweep("resources")
  /\ Tail(SweepOrphans) = <<Sweep("scopes"), Sweep("attributes"), Sweep("histogram_bounds")>>
  /\ Head(Tail(SweepOrphans)) = Sweep("scopes")
  /\ Tail(Tail(SweepOrphans)) = <<Sweep("attributes"), Sweep("histogram_bounds")>>
  /\ Head(<<Sweep("attributes"), Sweep("histogram_bounds")>>) = Sweep("attributes")
  /\ Tail(<<Sweep("attributes"), Sweep("histogram_bounds")>>) = <<Sweep("histogram_bounds")>>
  /\ Head(<<Sweep("histogram_bounds")>>) = Sweep("histogram_bounds")
  /\ Tail(<<Sweep("histogram_bounds")>>) = <<>>
BY DEF SweepOrphans

\* What is left of a plan with a whole sweep.
LEMMA PlanTail ==
  ASSUME NEW o \in Seq(OwnerStmt)
  PROVE  /\ o = <<>> => o \o SweepOrphans = SweepOrphans
         /\ o # <<>> => /\ Head(o \o SweepOrphans) = Head(o)
                        /\ Tail(o \o SweepOrphans) = Tail(o) \o SweepOrphans
                        /\ Tail(o) \in Seq(OwnerStmt) /\ Head(o) \in OwnerStmt
<1>1. SweepOrphans \in Seq(Stmt) /\ o \in Seq(Stmt)
  BY SweepPlan DEF Stmt
<1>2. Stmt # {} => <<>> \o SweepOrphans = SweepOrphans
  BY <1>1
<1>3. ASSUME o # <<>> PROVE Tail(o \o SweepOrphans) = Tail(o) \o SweepOrphans
  <2>1. Len(o) \in Nat \ {0} /\ Len(SweepOrphans) \in Nat /\ Tail(o) \in Seq(Stmt)
    BY <1>1, <1>3
  <2>2. Len(Tail(o \o SweepOrphans)) = Len(Tail(o) \o SweepOrphans)
    BY <1>1, <1>3, <2>1
  <2>3. \A i \in 1 .. Len(Tail(o) \o SweepOrphans) :
          Tail(o \o SweepOrphans)[i] = (Tail(o) \o SweepOrphans)[i]
    BY <1>1, <1>3, <2>1
  <2>4. Tail(o \o SweepOrphans) \in Seq(Stmt) /\ Tail(o) \o SweepOrphans \in Seq(Stmt)
    BY <1>1, <1>3, <2>1
  <2> QED
    BY <2>2, <2>3, <2>4
<1> QED
  BY <1>1, <1>2, <1>3

\* What is left of the plan ends in a whole sweep or goes on with one.
LEMMA RestSweepsWhole ==
  ASSUME StoreInv, ReferencesInv, wtodo # <<>>,
         db' = db \ Victims(Head(wtodo)), wtodo' = Tail(wtodo)
  PROVE  SweepsWhole'
<1>1. Rows /\ SweepsWhole
  BY DEF ReferencesInv, Plan
<1>2. CASE wtodo \in Seq(OwnerStmt)
  BY <1>2 DEF SweepsWhole
<1>3. CASE wtodo = SweepOrphans
  <2>1. Swept({}) /\ "resources" \in DictTables /\ {} \cup {"resources"} = {"resources"}
    BY DEF Swept, DictTables
  <2>2. Swept({"resources"})'
    BY <1>1, <1>3, <2>1, SweepRests, SweepExtends
  <2> QED
    BY <1>3, <2>2, SweepRests DEF SweepsWhole
<1>4. CASE wtodo # SweepOrphans /\ \E o \in Seq(OwnerStmt) : wtodo = o \o SweepOrphans
  BY <1>4, PlanTail DEF SweepsWhole
<1>5. CASE /\ wtodo = <<Sweep("scopes"), Sweep("attributes"), Sweep("histogram_bounds")>>
           /\ Swept({"resources"})
  <2>1. "scopes" \in DictTables /\ {"resources"} \in SUBSET DictTables
    BY DEF DictTables
  <2>2. Swept({"resources"} \cup {"scopes"})'
    BY <1>1, <1>5, <2>1, SweepRests, SweepExtends
  <2> QED
    BY <1>5, <2>2, SweepRests DEF SweepsWhole
<1>6. CASE /\ wtodo = <<Sweep("attributes"), Sweep("histogram_bounds")>>
           /\ Swept({"resources", "scopes"})
  <2>1. "attributes" \in DictTables /\ {"resources", "scopes"} \in SUBSET DictTables
    BY DEF DictTables
  <2>2. Swept({"resources", "scopes"} \cup {"attributes"})'
    BY <1>1, <1>6, <2>1, SweepRests, SweepExtends
  <2> QED
    BY <1>6, <2>2, SweepRests DEF SweepsWhole
<1>7. CASE wtodo = <<Sweep("histogram_bounds")>>
  <2>1. wtodo' = <<>> /\ <<>> \in Seq(OwnerStmt)
    BY <1>7, SweepRests
  <2> QED
    BY <2>1 DEF SweepsWhole
<1> QED
  BY <1>1, <1>2, <1>3, <1>4, <1>5, <1>6, <1>7 DEF SweepsWhole

\* A statement runs, or fails before or after taking effect.
LEMMA StatementRefs ==
  ASSUME StoreInv, ReferencesInv, RunStatement \/ StatementFails
  PROVE  ReferencesInv'
<1>1. /\ wtodo # <<>> /\ UNCHANGED <<pc, batch, nth, pos, buf>> /\ pc = "idle"
      /\ db' = db \/ db' = db \ Victims(Head(wtodo))
  BY DEF RunStatement, StatementFails, ingVars, StoreInv, Excluded
<1>2. ParentsPresent' /\ db' \subseteq db
  BY <1>1, ParentsKept
<1>3. Rows'
  BY <1>1, <1>2, ShrinkKeeps DEF ReferencesInv
<1>4. Load'
  BY <1>1, NoLoad DEF StoreInv, Buffered, ReferencesInv, Load, SignalStages
<1>5. CASE RunStatement
  <2>1. db' = db \ Victims(Head(wtodo)) /\ wtodo' = Tail(wtodo)
    BY <1>5 DEF RunStatement
  <2> QED
    BY <1>1, <1>3, <1>4, <2>1, RestChildrenFirst, RestStreamsLast, RestSweepsWhole
    DEF ReferencesInv, Plan
<1>6. CASE StatementFails
  BY <1>3, <1>4, <1>6, NoPlan DEF StatementFails, ReferencesInv
<1> QED
  BY <1>5, <1>6

----------------------------------------------------------------------------
(* Plans.                                                                  *)

\* StreamsLast wherever the plan stands: idle series go first in it.
IdleInOrder(w) ==
  \A j \in 1 .. Len(w) : w[j].op = "childless" =>
    /\ w[j] \in IdleStmts
    /\ w[j].t = "metric_streams" =>
         \E i \in 1 .. j - 1 : w[i] = IdleSeries /\ \A l \in i .. j : w[l].t # "datapoints"

Ordered(w) == ChildrenFirst(w) /\ IdleInOrder(w)

\* Two ordered plans make one.
LEMMA OrderedConcat ==
  ASSUME NEW o \in Seq(Stmt), NEW p \in Seq(Stmt), Ordered(o), Ordered(p)
  PROVE  Ordered(o \o p)
<1> DEFINE w == o \o p
           n == Len(o)
<1>1. /\ n \in Nat /\ Len(p) \in Nat /\ Len(w) = n + Len(p)
      /\ \A i \in 1 .. n : w[i] = o[i]
      /\ \A i \in 1 .. Len(p) : w[n + i] = p[i]
  OBVIOUS
<1> HIDE DEF w, n
<1>2. \A j \in 1 .. Len(w) : j \in 1 .. n \/ \E i \in 1 .. Len(p) : j = n + i
  <2> SUFFICES ASSUME NEW j \in 1 .. Len(w), j \notin 1 .. n PROVE \E i \in 1 .. Len(p) : j = n + i
    OBVIOUS
  <2>1. j - n \in 1 .. Len(p) /\ j = n + (j - n)
    BY <1>1
  <2> QED
    BY <2>1
<1>3. ChildrenFirst(w)
  <2> SUFFICES ASSUME NEW j \in 1 .. Len(w), NEW x \in db, NEW r \in db,
                      Hits(w[j], x), x.key \in r.fk
               PROVE  \E i \in 1 .. j - 1 : Hits(w[i], r)
    BY DEF ChildrenFirst
  <2>1. CASE j \in 1 .. n
    <3>1. PICK i \in 1 .. j - 1 : Hits(o[i], r)
      BY <1>1, <2>1 DEF Ordered, ChildrenFirst, n
    <3>2. i \in 1 .. n
      BY <1>1, <2>1
    <3> QED
      BY <1>1, <3>1, <3>2
  <2>2. ASSUME NEW k \in 1 .. Len(p), j = n + k PROVE \E i \in 1 .. j - 1 : Hits(w[i], r)
    <3>1. PICK i \in 1 .. k - 1 : Hits(p[i], r)
      BY <1>1, <2>2 DEF Ordered, ChildrenFirst
    <3>2. n + i \in 1 .. j - 1 /\ i \in 1 .. Len(p)
      BY <1>1, <2>2
    <3> QED
      BY <1>1, <3>1, <3>2
  <2> QED
    BY <1>2, <2>1, <2>2
<1>4. IdleInOrder(w)
  <2> SUFFICES ASSUME NEW j \in 1 .. Len(w), w[j].op = "childless"
               PROVE  /\ w[j] \in IdleStmts
                      /\ w[j].t = "metric_streams" =>
                           \E i \in 1 .. j - 1 : /\ w[i] = IdleSeries
                                                 /\ \A l \in i .. j : w[l].t # "datapoints"
    BY DEF IdleInOrder
  <2>1. CASE j \in 1 .. n
    <3>1. /\ w[j] \in IdleStmts
          /\ w[j].t = "metric_streams" =>
               \E i \in 1 .. j - 1 : /\ o[i] = IdleSeries
                                     /\ \A l \in i .. j : o[l].t # "datapoints"
      BY <1>1, <2>1 DEF Ordered, IdleInOrder, n
    <3>2. \A i \in 1 .. j : w[i] = o[i]
      BY <1>1, <2>1
    <3>3. \A i \in 1 .. j - 1 : i \in 1 .. j /\ \A l \in i .. j : l \in 1 .. j
      BY <1>1, <2>1
    <3> QED
      BY <3>1, <3>2, <3>3
  <2>2. ASSUME NEW k \in 1 .. Len(p), j = n + k
        PROVE  /\ w[j] \in IdleStmts
               /\ w[j].t = "metric_streams" =>
                    \E i \in 1 .. j - 1 : /\ w[i] = IdleSeries
                                          /\ \A l \in i .. j : w[l].t # "datapoints"
    <3>1. /\ w[j] \in IdleStmts
          /\ w[j].t = "metric_streams" =>
               \E i \in 1 .. k - 1 : /\ p[i] = IdleSeries
                                     /\ \A l \in i .. k : p[l].t # "datapoints"
      BY <1>1, <2>2 DEF Ordered, IdleInOrder
    <3>2. ASSUME NEW i \in 1 .. k - 1, p[i] = IdleSeries, \A l \in i .. k : p[l].t # "datapoints"
          PROVE  /\ n + i \in 1 .. j - 1 /\ w[n + i] = IdleSeries
                 /\ \A l \in n + i .. j : w[l].t # "datapoints"
      <4>1. n + i \in 1 .. j - 1 /\ i \in 1 .. Len(p)
        BY <1>1, <2>2
      <4>2. \A l \in n + i .. j : l - n \in i .. k /\ l - n \in 1 .. Len(p) /\ n + (l - n) = l
        BY <1>1, <2>2
      <4>3. \A l \in n + i .. j : w[l] = p[l - n]
        BY <1>1, <4>2
      <4> QED
        BY <1>1, <3>2, <4>1, <4>2, <4>3
    <3> QED
      BY <3>1, <3>2
  <2> QED
    BY <1>2, <2>1, <2>2
<1> QED
  BY <1>3, <1>4 DEF Ordered, w

\* Starting a plan whose statements are in order.
LEMMA StartRefs ==
  ASSUME StoreInv, ReferencesInv, NEW w, WithDBWrite(w), Ordered(w),
         \/ w \in Seq(OwnerStmt)
         \/ \E o \in Seq(OwnerStmt) : w = o \o SweepOrphans
  PROVE  ReferencesInv'
<1>1. pc = "idle" /\ wtodo' = w /\ UNCHANGED <<db, pc, batch, nth, pos, buf>>
  BY DEF WithDBWrite, ingVars
<1>2. ParentsPresent'
  BY <1>1 DEF ReferencesInv, Rows, ParentsPresent
<1>3. Rows'
  BY <1>1, <1>2, ShrinkKeeps DEF ReferencesInv
<1>4. Load'
  BY <1>1, NoLoad DEF StoreInv, Buffered, ReferencesInv, Load, SignalStages
<1>5. ChildrenFirst(wtodo)'
  BY <1>1 DEF Ordered, ChildrenFirst, Hits
<1>6. StreamsLast(wtodo)'
  BY <1>1 DEF Ordered, IdleInOrder, StreamsLast, IdleStmts, IdleSeries
<1>7. SweepsWhole'
  BY <1>1 DEF SweepsWhole
<1> QED
  BY <1>3, <1>4, <1>5, <1>6, <1>7 DEF ReferencesInv, Plan

\* A row another row refers to is in one of the tables that row's table
\* references.
LEMMA ReferredTable ==
  ASSUME ReferencesInv, NEW r \in db, NEW p \in db, p.key \in r.fk
  PROVE  p.key.t \in References(r.key.t)
BY DEF ReferencesInv, Rows, Shapes, Shaped

\* Sweeps hit no row by name.
LEMMA SweepOrdered == Ordered(SweepOrphans)
<1>1. SweepOrphans \in Seq(SweepStmt)
  BY SweepPlan
<1>2. SweepOrphans \in Seq(Stmt) /\ \A i \in 1 .. Len(SweepOrphans) : SweepOrphans[i] \in SweepStmt
  BY <1>1 DEF Stmt
<1>3. \A x \in SweepStmt : x.op = "sweep"
  BY DEF SweepStmt
<1> QED
  BY <1>2, <1>3 DEF Ordered, ChildrenFirst, IdleInOrder, Hits

\* Nothing to do is in order.
LEMMA EmptyOrdered == Ordered(<<>>)
BY DEF Ordered, ChildrenFirst, IdleInOrder

\* What a delete and a truncate hit.
LEMMA HitsFact ==
  /\ \A t, ks, r : Hits(Delete(t, ks), r) <=> r.key.t = t /\ (r.key \in ks \/ r.fk \cap ks # {})
  /\ \A t, r : Hits(Truncate(t), r) <=> r.key.t = t
  /\ \A t, ks : Delete(t, ks).op = "delete" /\ Delete(t, ks).t = t
  /\ \A t : Truncate(t).op = "truncate" /\ Truncate(t).t = t
BY DEF Hits, Delete, Truncate

\* A single owner statement on a table nobody refers to is in order.
LEMMA LogsOrdered ==
  ASSUME ReferencesInv, NEW ks
  PROVE  Ordered(<<Delete("logs", ks)>>) /\ Ordered(<<Truncate("logs")>>)
<1>1. \A r, p \in db : p.key \in r.fk => p.key.t # "logs"
  BY ReferredTable, Referrers
<1> QED
  BY <1>1, HitsFact DEF Ordered, ChildrenFirst, IdleInOrder

\* Links and events go before their spans.
LEMMA SpansOrdered ==
  ASSUME StoreInv, ReferencesInv, NEW ks \in SUBSET KeysIn("spans")
  PROVE  Ordered(SpanDeletes(ks))
<1> DEFINE w == SpanDeletes(ks)
<1>1. /\ Len(w) = 3
      /\ w[1] = Delete("links", ks) /\ w[2] = Delete("events", ks) /\ w[3] = Delete("spans", ks)
  BY DEF SpanDeletes
<1>2. \A k \in ks : k.t = "spans"
  BY DEF KeysIn, Keys, OfTable
<1> HIDE DEF w
<1> SUFFICES ASSUME NEW j \in 1 .. 3, NEW p \in db, NEW r \in db, Hits(w[j], p), p.key \in r.fk
             PROVE  \E i \in 1 .. j - 1 : Hits(w[i], r)
  BY <1>1, HitsFact DEF Ordered, ChildrenFirst, IdleInOrder, w
<1>3. p.key.t \in References(r.key.t)
  BY ReferredTable
<1>4. j = 3
  BY <1>1, <1>3, HitsFact, Referrers
<1>5. p.key \in ks
  <2>1. \A k \in p.fk : k.t # "spans"
    BY <1>1, <1>4, HitsFact, Referrers DEF ReferencesInv, Rows, Shapes, Shaped
  <2> QED
    BY <1>1, <1>2, <1>4, <2>1, HitsFact
<1>6. r.key.t \in {"events", "links"}
  BY <1>2, <1>3, <1>5, Referrers
<1> QED
  BY <1>1, <1>4, <1>5, <1>6, HitsFact

\* Exemplars go before their datapoints.
LEMMA DatapointsOrdered ==
  ASSUME StoreInv, ReferencesInv, NEW ks \in SUBSET KeysIn("datapoints")
  PROVE  Ordered(DatapointDeletes(ks))
<1> DEFINE w == DatapointDeletes(ks)
<1>1. Len(w) = 2 /\ w[1] = Delete("exemplars", ks) /\ w[2] = Delete("datapoints", ks)
  BY DEF DatapointDeletes
<1>2. \A k \in ks : k.t = "datapoints"
  BY DEF KeysIn, Keys, OfTable
<1> HIDE DEF w
<1> SUFFICES ASSUME NEW j \in 1 .. 2, NEW p \in db, NEW r \in db, Hits(w[j], p), p.key \in r.fk
             PROVE  \E i \in 1 .. j - 1 : Hits(w[i], r)
  BY <1>1, HitsFact DEF Ordered, ChildrenFirst, IdleInOrder, w
<1>3. p.key.t \in References(r.key.t)
  BY ReferredTable
<1>4. j = 2
  BY <1>1, <1>3, HitsFact, Referrers
<1>5. p.key \in ks
  <2>1. \A k \in p.fk : k.t # "datapoints"
    BY <1>1, <1>4, HitsFact, Referrers DEF ReferencesInv, Rows, Shapes, Shaped
  <2> QED
    BY <1>1, <1>2, <1>4, <2>1, HitsFact
<1>6. r.key.t = "exemplars"
  BY <1>2, <1>3, <1>5, Referrers
<1> QED
  BY <1>1, <1>4, <1>5, <1>6, HitsFact

\* Idle series, ingests and streams, in the order retention removes them.
LEMMA IdleOrdered ==
  Ordered(<<Childless("metric_series", "datapoints"),
            Childless("metric_ingests", "datapoints"),
            Childless("metric_streams", "metric_ingests")>>)
<1> DEFINE w == <<Childless("metric_series", "datapoints"),
                  Childless("metric_ingests", "datapoints"),
                  Childless("metric_streams", "metric_ingests")>>
<1>1. /\ Len(w) = 3 /\ w[1] = IdleSeries /\ w[2] = Childless("metric_ingests", "datapoints")
      /\ w[3] = Childless("metric_streams", "metric_ingests")
  BY DEF IdleSeries
<1> HIDE DEF w
<1>2. \A i \in 1 .. 3 : w[i].op = "childless" /\ w[i].t # "datapoints" /\ w[i] \in IdleStmts
  BY <1>1 DEF Childless, IdleSeries, IdleStmts
<1>3. ChildrenFirst(w)
  BY <1>1, <1>2 DEF ChildrenFirst, Hits
<1>4. w[1].t # "metric_streams" /\ w[2].t # "metric_streams"
  BY <1>1 DEF Childless, IdleSeries
<1>5. IdleInOrder(w)
  <2> SUFFICES ASSUME NEW j \in 1 .. 3, w[j].t = "metric_streams"
               PROVE  \E i \in 1 .. j - 1 : w[i] = IdleSeries /\ \A l \in i .. j : w[l].t # "datapoints"
    BY <1>1, <1>2 DEF IdleInOrder
  <2>1. j = 3 /\ 1 \in 1 .. j - 1 /\ \A l \in 1 .. j : l \in 1 .. 3
    BY <1>4
  <2> QED
    BY <1>1, <1>2, <2>1
<1> QED
  BY <1>3, <1>5 DEF Ordered, w

\* The cascade of a stream: a datapoint belongs to the stream of its series and
\* of its ingest, so it goes before them.
LEMMA CascadeOrdered ==
  ASSUME StoreInv, ReferencesInv, NEW k \in KeysIn("metric_streams"),
         NEW points, points = {r.key : r \in {d \in OfTable(db, "datapoints") : k \in d.fk}}
  PROVE  Ordered(<<Delete("exemplars", points), Delete("datapoints", {k}),
                   Delete("metric_series", {k}), Delete("metric_ingests", {k}),
                   Delete("metric_streams", {k})>>)
<1> DEFINE w == <<Delete("exemplars", points), Delete("datapoints", {k}),
                  Delete("metric_series", {k}), Delete("metric_ingests", {k}),
                  Delete("metric_streams", {k})>>
<1>1. /\ Len(w) = 5
      /\ w[1] = Delete("exemplars", points) /\ w[2] = Delete("datapoints", {k})
      /\ w[3] = Delete("metric_series", {k}) /\ w[4] = Delete("metric_ingests", {k})
      /\ w[5] = Delete("metric_streams", {k})
  OBVIOUS
<1>2. k.t = "metric_streams"
  BY DEF KeysIn, Keys, OfTable
<1> HIDE DEF w
<1>3. \A i \in 1 .. 5 : w[i].op = "delete"
  BY <1>1, HitsFact
<1> SUFFICES ASSUME NEW j \in 1 .. 5, NEW p \in db, NEW r \in db, Hits(w[j], p), p.key \in r.fk
             PROVE  \E i \in 1 .. j - 1 : Hits(w[i], r)
  BY <1>1, <1>3 DEF Ordered, ChildrenFirst, IdleInOrder, w
<1>4. p.key.t \in References(r.key.t)
  BY ReferredTable
<1>5. CASE j = 1
  BY <1>1, <1>4, <1>5, HitsFact, Referrers
<1>6. CASE j = 2
  <2>1. p.key.t = "datapoints" /\ (p.key = k \/ k \in p.fk)
    BY <1>1, <1>6, HitsFact
  <2>2. p.key \in points
    BY <1>2, <2>1 DEF OfTable
  <2>3. r.key.t = "exemplars"
    BY <1>4, <2>1, Referrers
  <2> QED
    BY <1>1, <1>6, <2>2, <2>3, HitsFact
<1>7. CASE j \in {3, 4}
  <2>1. p.key.t \in {"metric_series", "metric_ingests"} /\ (p.key = k \/ k \in p.fk)
    BY <1>1, <1>7, HitsFact
  <2>2. r.key.t = "datapoints"
    BY <1>4, <2>1, Referrers
  <2>3. StreamsOf(p) = StreamsOf(r)
    BY <2>1, <2>2 DEF ReferencesInv, Rows, SameStream, OfTable
  <2>4. k \in r.fk
    BY <1>2, <2>1, <2>3 DEF StreamsOf
  <2>5. 2 \in 1 .. j - 1 /\ Hits(w[2], r)
    BY <1>1, <1>7, <2>2, <2>4, HitsFact
  <2> QED
    BY <2>5
<1>8. CASE j = 5
  <2>1. p.key.t = "metric_streams" /\ (p.key = k \/ k \in p.fk)
    BY <1>1, <1>8, HitsFact
  <2>2. p.fk = {}
    BY <2>1 DEF ReferencesInv, Rows, Shapes, Shaped, References
  <2>3. k \in r.fk /\ r.key.t \in {"metric_series", "metric_ingests", "datapoints"}
    BY <1>4, <2>1, <2>2, Referrers
  <2>4. \E i \in {2, 3, 4} : Hits(w[i], r)
    BY <1>1, <2>3, HitsFact
  <2> QED
    BY <1>8, <2>4
<1> QED
  BY <1>5, <1>6, <1>7, <1>8

\* Truncates of the trace tables, children first.
LEMMA TracesOrdered ==
  ASSUME ReferencesInv
  PROVE  Ordered(<<Truncate("links"), Truncate("events"), Truncate("spans")>>)
<1> DEFINE w == <<Truncate("links"), Truncate("events"), Truncate("spans")>>
<1>1. /\ Len(w) = 3
      /\ w[1] = Truncate("links") /\ w[2] = Truncate("events") /\ w[3] = Truncate("spans")
  OBVIOUS
<1> HIDE DEF w
<1> SUFFICES ASSUME NEW j \in 1 .. 3, NEW p \in db, NEW r \in db, Hits(w[j], p), p.key \in r.fk
             PROVE  \E i \in 1 .. j - 1 : Hits(w[i], r)
  BY <1>1, HitsFact DEF Ordered, ChildrenFirst, IdleInOrder, w
<1>2. p.key.t \in References(r.key.t)
  BY ReferredTable
<1>3. j = 3 /\ p.key.t = "spans"
  BY <1>1, <1>2, HitsFact, Referrers
<1>4. r.key.t \in {"events", "links"}
  BY <1>2, <1>3, Referrers
<1> QED
  BY <1>1, <1>3, <1>4, HitsFact

\* All rows of the metric tables, children first.
LEMMA MetricsOrdered ==
  ASSUME ReferencesInv
  PROVE  Ordered(<<DeleteAll("exemplars"), DeleteAll("datapoints"), DeleteAll("metric_series"),
                   DeleteAll("metric_ingests"), DeleteAll("metric_streams")>>)
<1> DEFINE w == <<DeleteAll("exemplars"), DeleteAll("datapoints"), DeleteAll("metric_series"),
                  DeleteAll("metric_ingests"), DeleteAll("metric_streams")>>
<1>1. /\ Len(w) = 5
      /\ w[1] = DeleteAll("exemplars") /\ w[2] = DeleteAll("datapoints")
      /\ w[3] = DeleteAll("metric_series") /\ w[4] = DeleteAll("metric_ingests")
      /\ w[5] = DeleteAll("metric_streams")
  OBVIOUS
<1>2. \A t : DeleteAll(t).op = "delete" /\ \A r \in db : Hits(DeleteAll(t), r) => r.key.t = t
  BY HitsFact DEF DeleteAll
<1>3. \A t : \A r \in db : r.key.t = t => Hits(DeleteAll(t), r)
  BY HitsFact DEF DeleteAll, KeysIn, Keys, OfTable
<1> HIDE DEF w
<1> SUFFICES ASSUME NEW j \in 1 .. 5, NEW p \in db, NEW r \in db, Hits(w[j], p), p.key \in r.fk
             PROVE  \E i \in 1 .. j - 1 : Hits(w[i], r)
  <2>1. \A i \in 1 .. 5 : w[i].op = "delete"
    BY <1>1, <1>2
  <2> QED
    BY <1>1, <2>1 DEF Ordered, ChildrenFirst, IdleInOrder, w
<1>4. p.key.t \in References(r.key.t)
  BY ReferredTable
<1>5. CASE j = 1
  BY <1>1, <1>2, <1>4, <1>5, Referrers
<1>6. CASE j = 2
  <2>1. r.key.t = "exemplars"
    BY <1>1, <1>2, <1>4, <1>6, Referrers
  <2> QED
    BY <1>1, <1>3, <1>6, <2>1
<1>7. CASE j \in {3, 4}
  <2>1. r.key.t = "datapoints"
    BY <1>1, <1>2, <1>4, <1>7, Referrers
  <2>2. 2 \in 1 .. j - 1
    BY <1>7
  <2> QED
    BY <1>1, <1>3, <2>1, <2>2
<1>8. CASE j = 5
  <2>1. r.key.t \in {"metric_series", "metric_ingests", "datapoints"}
    BY <1>1, <1>2, <1>4, <1>8, Referrers
  <2>2. \E i \in {2, 3, 4} : Hits(w[i], r)
    BY <1>1, <1>3, <2>1
  <2> QED
    BY <1>8, <2>2
<1> QED
  BY <1>5, <1>6, <1>7, <1>8

\* A plan in order, with a whole sweep behind it.
LEMMA StartSwept ==
  ASSUME StoreInv, ReferencesInv, NEW o \in Seq(OwnerStmt), Ordered(o),
         WithDBWrite(o \o SweepOrphans)
  PROVE  ReferencesInv'
<1>1. o \in Seq(Stmt) /\ SweepOrphans \in Seq(Stmt)
  BY SweepPlan DEF Stmt
<1>2. Ordered(o \o SweepOrphans)
  BY <1>1, SweepOrdered, OrderedConcat
<1> QED
  BY <1>2, StartRefs

\* The handlers that delete by id or delete a stream.
LEMMA DeleteRefs ==
  ASSUME StoreInv, ReferencesInv, DeleteSpans \/ DeleteLogs \/ DeleteMetricStream
  PROVE  ReferencesInv'
<1>1. \A t \in OwnerTables : \A ks \in SUBSET Key : Delete(t, ks) \in OwnerStmt
  BY StmtFact
<1>2. \A t : KeysIn(t) \subseteq Key
  BY KeysInFact DEF StoreInv
<1>3. CASE DeleteSpans
  <2>1. PICK ks \in SUBSET KeysIn("spans") : WithDBWrite(SpanDeletes(ks))
    BY <1>3 DEF DeleteSpans
  <2>2. SpanDeletes(ks) \in Seq(OwnerStmt)
    BY <1>1, <1>2, <2>1 DEF SpanDeletes, OwnerTables
  <2> QED
    BY <2>1, <2>2, SpansOrdered, StartRefs
<1>4. CASE DeleteLogs
  <2>1. PICK ks \in SUBSET KeysIn("logs") : WithDBWrite(<<Delete("logs", ks)>>)
    BY <1>4 DEF DeleteLogs
  <2>2. <<Delete("logs", ks)>> \in Seq(OwnerStmt)
    BY <1>1, <1>2, <2>1 DEF OwnerTables
  <2> QED
    BY <2>1, <2>2, LogsOrdered, StartRefs
<1>5. CASE DeleteMetricStream
  <2> DEFINE points(k) == {r.key : r \in {d \in OfTable(db, "datapoints") : k \in d.fk}}
             plan(k) == <<Delete("exemplars", points(k)), Delete("datapoints", {k}),
                          Delete("metric_series", {k}), Delete("metric_ingests", {k}),
                          Delete("metric_streams", {k})>>
  <2>1. PICK k \in KeysIn("metric_streams") : WithDBWrite(plan(k))
    BY <1>5 DEF DeleteMetricStream
  <2>2. points(k) \subseteq Key /\ {k} \subseteq Key
    BY <1>2, RowFact DEF OfTable, StoreInv, TypeOK
  <2>3. Ordered(plan(k))
    BY CascadeOrdered
  <2>4. plan(k) \in Seq(OwnerStmt)
    <3> HIDE DEF points
    <3> QED
      BY <1>1, <2>2 DEF OwnerTables
  <2> HIDE DEF plan
  <2> QED
    BY <2>1, <2>3, <2>4, StartRefs
<1> QED
  BY <1>3, <1>4, <1>5

\* The clear handlers and a lone sweep.
LEMMA ClearRefs ==
  ASSUME StoreInv, ReferencesInv, ClearTraces \/ ClearLogs \/ ClearMetrics \/ SweepIfOverCap
  PROVE  ReferencesInv'
<1>1. CASE ClearTraces
  <2>1. <<Truncate("links"), Truncate("events"), Truncate("spans")>> \in Seq(OwnerStmt)
    BY StmtFact DEF OwnerTables
  <2> QED
    BY <1>1, <2>1, TracesOrdered, StartSwept DEF ClearTraces
<1>2. CASE ClearLogs
  <2>1. <<Truncate("logs")>> \in Seq(OwnerStmt)
    BY StmtFact DEF OwnerTables
  <2> QED
    BY <1>2, <2>1, LogsOrdered, StartSwept DEF ClearLogs
<1>3. CASE ClearMetrics
  <2> DEFINE plan == <<DeleteAll("exemplars"), DeleteAll("datapoints"),
                       DeleteAll("metric_series"), DeleteAll("metric_ingests"),
                       DeleteAll("metric_streams")>>
  <2>1. \A t \in OwnerTables : DeleteAll(t) \in OwnerStmt
    BY StmtFact, KeysInFact DEF DeleteAll, StoreInv
  <2>2. plan \in Seq(OwnerStmt)
    BY <2>1 DEF OwnerTables
  <2> QED
    BY <1>3, <2>2, MetricsOrdered, StartSwept DEF ClearMetrics
<1>4. CASE SweepIfOverCap
  <2>1. <<>> \in Seq(OwnerStmt) /\ <<>> \o SweepOrphans = SweepOrphans
    BY SweepPlan
  <2> QED
    BY <1>4, <2>1, EmptyOrdered, StartSwept DEF SweepIfOverCap
<1> QED
  BY <1>1, <1>2, <1>3, <1>4

\* A retention round.
LEMMA RoundRefs ==
  ASSUME StoreInv, ReferencesInv, EnforceRound
  PROVE  ReferencesInv'
<1> DEFINE spans(ss) == IF KeysIn("spans") = {} THEN <<>> ELSE SpanDeletes(ss)
           logs(ls)  == IF KeysIn("logs") = {} THEN <<>> ELSE <<Delete("logs", ls)>>
           idle      == <<Childless("metric_series", "datapoints"),
                          Childless("metric_ingests", "datapoints"),
                          Childless("metric_streams", "metric_ingests")>>
           points(ds) == IF KeysIn("datapoints") = {} THEN <<>>
                         ELSE DatapointDeletes(ds) \o idle
<1>1. PICK ss \in Older("spans"), ls \in Older("logs"), ds \in Older("datapoints") :
        WithDBWrite(spans(ss) \o logs(ls) \o points(ds) \o SweepOrphans)
  BY DEF EnforceRound
<1>2. /\ ss \in SUBSET KeysIn("spans") /\ ls \in SUBSET KeysIn("logs")
      /\ ds \in SUBSET KeysIn("datapoints")
      /\ ss \in SUBSET Key /\ ls \in SUBSET Key /\ ds \in SUBSET Key
  BY <1>1, KeysInFact DEF Older, StoreInv
<1>3. spans(ss) \in Seq(OwnerStmt) /\ Ordered(spans(ss))
  <2>1. SpanDeletes(ss) \in Seq(OwnerStmt)
    BY <1>2, StmtFact DEF SpanDeletes, OwnerTables
  <2> QED
    BY <1>2, <2>1, SpansOrdered, EmptyOrdered
<1>4. logs(ls) \in Seq(OwnerStmt) /\ Ordered(logs(ls))
  <2>1. <<Delete("logs", ls)>> \in Seq(OwnerStmt)
    BY <1>2, StmtFact DEF OwnerTables
  <2> QED
    BY <2>1, LogsOrdered, EmptyOrdered
<1>5. points(ds) \in Seq(OwnerStmt) /\ Ordered(points(ds))
  <2>1. DatapointDeletes(ds) \in Seq(OwnerStmt) /\ idle \in Seq(OwnerStmt)
    BY <1>2, StmtFact DEF DatapointDeletes, OwnerTables
  <2>2. Ordered(DatapointDeletes(ds)) /\ Ordered(idle)
    BY <1>2, DatapointsOrdered, IdleOrdered
  <2> HIDE DEF idle
  <2>3. DatapointDeletes(ds) \in Seq(Stmt) /\ idle \in Seq(Stmt)
    BY <2>1 DEF Stmt
  <2>4. DatapointDeletes(ds) \o idle \in Seq(OwnerStmt) /\ Ordered(DatapointDeletes(ds) \o idle)
    BY <2>1, <2>2, <2>3, OrderedConcat
  <2> QED
    BY <2>4, EmptyOrdered
<1> HIDE DEF spans, logs, points
<1>6. spans(ss) \in Seq(Stmt) /\ logs(ls) \in Seq(Stmt) /\ points(ds) \in Seq(Stmt)
  BY <1>3, <1>4, <1>5 DEF Stmt
<1>7. spans(ss) \o logs(ls) \in Seq(Stmt) /\ Ordered(spans(ss) \o logs(ls))
  BY <1>3, <1>4, <1>6, OrderedConcat
<1>8. Ordered(spans(ss) \o logs(ls) \o points(ds))
  BY <1>5, <1>6, <1>7, OrderedConcat
<1>9. spans(ss) \o logs(ls) \o points(ds) \in Seq(OwnerStmt)
  BY <1>3, <1>4, <1>5
<1> QED
  BY <1>1, <1>8, <1>9, StartSwept

----------------------------------------------------------------------------
(* The invariant.                                                          *)

\* An empty store has no foreign keys.
LEMMA ReferencesInit == Init => ReferencesInv
<1> SUFFICES ASSUME Init PROVE ReferencesInv
  OBVIOUS
<1>1. db = {} /\ pc = "idle" /\ buf = {} /\ pos = 0 /\ wtodo = <<>>
  BY DEF Init
<1>2. Rows
  BY <1>1 DEF Rows, Shapes, Bare, ParentsPresent, SeriesKnown, FreshKnown, SameStream, OfTable
<1>3. Load
  BY <1>1 DEF Load, StagesDone, Before, SignalStages, FromRequest, Healthy
<1>4. Plan
  <2>1. wtodo \in Seq(OwnerStmt) /\ Len(wtodo) = 0
    BY <1>1
  <2> QED
    BY <2>1 DEF Plan, ChildrenFirst, StreamsLast, SweepsWhole
<1> QED
  BY <1>2, <1>3, <1>4 DEF ReferencesInv

\* Every step keeps it.
LEMMA ReferencesStep ==
  ASSUME StoreInv, ReferencesInv, [Next]_vars
  PROVE  ReferencesInv'
<1>1. CASE UNCHANGED vars
  <2>1. UNCHANGED <<db, pc, batch, nth, pos, buf, tabs, failed, wtodo>>
    BY <1>1 DEF vars
  <2>2. Rows'
    BY <2>1 DEF ReferencesInv, Rows, Shapes, Bare, ParentsPresent, SeriesKnown, FreshKnown, SameStream
  <2>3. Load'
    BY <2>1 DEF ReferencesInv, Load, StagesDone, SignalStages, FromRequest, Healthy, Appended
  <2>4. Plan'
    <3>1. ChildrenFirst(wtodo)'
      BY <2>1 DEF ReferencesInv, Plan, ChildrenFirst, Hits
    <3>2. StreamsLast(wtodo)'
      BY <2>1 DEF ReferencesInv, Plan, StreamsLast, SeriesUsed, IdleStmts, IdleSeries
    <3>3. \A ts : Swept(ts) => Swept(ts)'
      BY <2>1 DEF Swept, LiveIn, LiveAttributeIDs
    <3>4. SweepsWhole'
      BY <2>1, <3>3 DEF ReferencesInv, Plan, SweepsWhole
    <3> QED
      BY <3>1, <3>2, <3>4 DEF Plan
  <2> QED
    BY <2>2, <2>3, <2>4 DEF ReferencesInv
<1>2. CASE Ingest
  BY <1>2, BeginRefs, FlushRowsRefs, UpsertRefs, StageFailsRefs, AppendRefs, FinishRefs,
     FlushTableRefs, CloseTableRefs DEF Ingest
<1>3. CASE Write
  BY <1>3, DeleteRefs, ClearRefs, RoundRefs, StatementRefs DEF Write
<1>4. CASE Restart
  BY <1>4, RestartRefs
<1> QED
  BY <1>1, <1>2, <1>3, <1>4 DEF Next

\* ReferencesInv is an invariant of the store.
THEOREM ReferencesInvariant == Spec => []ReferencesInv
BY StoreInvariant, ReferencesInit, ReferencesStep, PTL DEF Spec

\* No row ever lacks a row its foreign keys name, no healthy ingest statement
\* meets a missing one, and no delete, clear or retention statement is refused.
THEOREM ForeignKeysKept == Spec => []ForeignKeysHold
<1>1. ASSUME StoreInv, ReferencesInv PROVE ForeignKeysHold
  <2>1. ParentsPresent
    BY <1>1 DEF ReferencesInv, Rows
  <2>2. ASSUME pc \in Stages PROVE FKSatisfied(StageRows(batch, pc))
    <3>1. CASE pc # "metric_series"
      <4>1. \A r \in StageRows(batch, pc) : r.fk = {}
        <5>1. CASE pc = "attributes"
          BY <5>1 DEF StageRows, AttributeRow
        <5>2. CASE pc = "metric_streams"
          BY <1>1, <5>2, RunningFact, RequestTables DEF StageRows, Closed, AllRows, References
        <5>3. CASE pc \notin {"attributes", "metric_streams", "metric_series"}
          BY <1>1, <2>2, <5>3, RunningFact DEF StageRows, OfTable, Closed, AllRows, References, Stages, DictTables
        <5> QED
          BY <3>1, <5>1, <5>2, <5>3
      <4> QED
        BY <4>1 DEF FKSatisfied
    <3>2. CASE pc = "metric_series"
      <4>1. Before(batch.sig, pc) = {"metric_streams"} \cup DictTables
        BY <1>1, <3>2 DEF Before, ReferencesInv, Load, SignalStages
      <4>2. Keys(batch.streams) \subseteq Keys(db)
        BY <1>1, <4>1 DEF ReferencesInv, Load, StagesDone, StageRows
      <4>3. Keys(batch.dict) \subseteq Keys(db)
        <5> SUFFICES ASSUME NEW r \in batch.dict PROVE r.key \in Keys(db)
          BY KeysFact
        <5>1. r.key.t \in DictTables \ {"attributes"}
          BY <1>1, RunningFact, RequestTables
        <5>2. r \in StageRows(batch, r.key.t)
          BY <5>1 DEF StageRows, OfTable, DictTables
        <5>3. Keys(StageRows(batch, r.key.t)) \subseteq Keys(db)
          BY <1>1, <4>1, <5>1 DEF ReferencesInv, Load, StagesDone
        <5> QED
          BY <5>2, <5>3, KeysFact
      <4>4. \A r \in batch.series : r.fk \subseteq Keys(batch.dict \cup batch.streams)
        BY <1>1, RunningFact DEF Closed
      <4>5. Keys(batch.dict \cup batch.streams) \subseteq Keys(db)
        BY <4>2, <4>3 DEF Keys
      <4> QED
        BY <3>2, <4>4, <4>5 DEF FKSatisfied, StageRows
    <3> QED
      BY <3>1, <3>2
  <2>3. ASSUME pc \in {"flush", "close"}, ~failed PROVE FKSatisfied(OfTable(buf, Head(tabs)))
    BY <1>1, <2>3, HealthyWalk
  <2>4. wtodo # <<>> => ~FKBlocks(Head(wtodo))
    BY <1>1, NoChildLeft, KeysFact DEF FKBlocks
  <2> QED
    BY <2>1, <2>2, <2>3, <2>4 DEF ForeignKeysHold, FKNeverFails, DeletesNeverBlocked
<1> QED
  BY <1>1, StoreInvariant, ReferencesInvariant, PTL

\* An ingest that reports success has stored every row of its request.
THEOREM IngestCompleteAlways == Spec => IngestComplete
<1> DEFINE Complete == pc = "close" /\ pc' = "idle" /\ ~failed'
                         => {Stamp(r, nth) : r \in ItemRows(batch)} \subseteq db'
<1>1. ASSUME StoreInv, ReferencesInv, [Next]_vars PROVE [Complete]_vars
  <2> SUFFICES ASSUME pc = "close", pc' = "idle", ~failed'
               PROVE  {Stamp(r, nth) : r \in ItemRows(batch)} \subseteq db'
    OBVIOUS
  <2>1. CloseTable
    <3>1. pc' # pc
      OBVIOUS
    <3>2. ~Restart /\ ~StageFails
      BY DEF Restart, StageFails
    <3>3. ~Write /\ ~UNCHANGED vars
      BY <3>1 DEF Write, DeleteSpans, DeleteLogs, DeleteMetricStream, ClearTraces, ClearLogs, ClearMetrics,
                  SweepIfOverCap, EnforceRound, WithDBWrite, RunStatement, StatementFails, ingVars, vars
    <3>4. Ingest
      BY <1>1, <3>2, <3>3 DEF Next
    <3> QED
      BY <3>4, <3>2 DEF Ingest, BeginIngest, FlushRows, UpsertIdentity, AppendItem, FinishItems,
                        AbortItems, FlushTable, DictTables
  <2> DEFINE part == OfTable(buf, Head(tabs))
  <2>2. ~failed /\ db' = db \cup part /\ Tail(tabs) = <<>>
    BY <2>1 DEF CloseTable
  <2>3. buf \subseteq part
    BY <1>1, <2>2, HealthyWalk
  <2>4. pos = Len(batch.items) /\ {Stamp(r, nth) : r \in Appended} \subseteq db \cup buf
    BY <1>1, <2>2 DEF ReferencesInv, Load, Healthy
  <2>5. ItemRows(batch) = Appended
    <3>1. DOMAIN batch.items = 1 .. Len(batch.items)
      BY <1>1, SigFact DEF BatchType
    <3> QED
      BY <2>4, <3>1 DEF ItemRows, Appended
  <2> HIDE DEF part
  <2> QED
    BY <2>2, <2>3, <2>4, <2>5
<1> QED
  BY <1>1, StoreInvariant, ReferencesInvariant, PTL DEF Spec, IngestComplete

\* A sweep that runs to its end leaves no dictionary row without a referrer.
THEOREM SweepLeavesNoOrphan == Spec => SweepCollectsAll
<1> DEFINE Collects == RunStatement /\ Head(wtodo).op = "sweep" /\ wtodo' = <<>> => Orphans' = {}
<1>1. ASSUME StoreInv, ReferencesInv PROVE [Collects]_vars
  <2> SUFFICES ASSUME RunStatement, Head(wtodo).op = "sweep", wtodo' = <<>> PROVE Orphans' = {}
    OBVIOUS
  <2>1. db' = db \ Victims(Head(wtodo)) /\ Tail(wtodo) = <<>> /\ wtodo # <<>>
    BY DEF RunStatement
  <2>2. wtodo \notin Seq(OwnerStmt)
    <3>1. \A o \in OwnerStmt : o.op # "sweep"
      BY DEF OwnerStmt
    <3> QED
      BY <2>1, <3>1
  <2>3. ASSUME NEW o \in Seq(OwnerStmt) PROVE wtodo # o \o SweepOrphans
    <3>1. SweepOrphans \in Seq(Stmt) /\ o \in Seq(Stmt)
      BY SweepPlan DEF Stmt
    <3>2. Len(SweepOrphans) = 4
      BY DEF SweepOrphans
    <3>3. Len(o \o SweepOrphans) >= 4
      <4>1. Len(o \o SweepOrphans) = Len(o) + Len(SweepOrphans) /\ Len(o) \in Nat
        BY <3>1
      <4> QED
        BY <3>1, <3>2, <4>1
    <3>4. wtodo \in Seq(Stmt)
      BY <1>1 DEF StoreInv, TypeOK
    <3>5. Len(wtodo) = 1
      <4>1. Len(Tail(wtodo)) = Len(wtodo) - 1 /\ Len(wtodo) \in Nat
        BY <2>1, <3>4
      <4>2. Len(<<>>) = 0
        OBVIOUS
      <4> QED
        BY <2>1, <4>1, <4>2
    <3> QED
      BY <3>3, <3>5
  <2>4. wtodo = <<Sweep("histogram_bounds")>> /\ Swept({"resources", "scopes", "attributes"})
    <3>1. /\ Tail(<<Sweep("scopes"), Sweep("attributes"), Sweep("histogram_bounds")>>) # <<>>
          /\ Tail(<<Sweep("attributes"), Sweep("histogram_bounds")>>) # <<>>
      OBVIOUS
    <3>2. SweepsWhole
      BY <1>1 DEF ReferencesInv, Plan
    <3> QED
      BY <2>1, <2>2, <2>3, <3>1, <3>2 DEF SweepsWhole
  <2>5. /\ "histogram_bounds" \in DictTables
        /\ {"resources", "scopes", "attributes"} \in SUBSET DictTables
        /\ {"resources", "scopes", "attributes"} \cup {"histogram_bounds"} = DictTables
    BY DEF DictTables
  <2>6. Swept(DictTables)'
    BY <1>1, <2>1, <2>4, <2>5, SweepRests, SweepExtends DEF ReferencesInv
  <2> QED
    BY <2>6 DEF Swept, Orphans
<1> QED
  BY <1>1, StoreInvariant, ReferencesInvariant, PTL DEF Spec, SweepCollectsAll

----------------------------------------------------------------------------
(* The view.                                                               *)

\* Rows whose attributes are stored are shown with them.
LEMMA JoinFact ==
  ASSUME NEW parts, NEW ks, \A d \in parts : d.attrs \subseteq ks
  PROVE  {<<d.key, d.attrs \cap ks>> : d \in parts} = {<<d.key, d.attrs>> : d \in parts}
<1>1. \A d \in parts : d.attrs \cap ks = d.attrs
  OBVIOUS
<1> QED
  BY <1>1

\* What a row is shown with is what was sent with it, before and after a step.
LEMMA ShownIsSent ==
  ASSUME NEW r
  PROVE  /\ r \in db /\ NoDangling => Rendered(r).shown = Rendered(r).sent
         /\ r \in db' /\ NoDangling' => Rendered(r)'.shown = Rendered(r)'.sent
<1>1. ASSUME r \in db, NoDangling PROVE Rendered(r).shown = Rendered(r).sent
  <2> DEFINE parts == {r} \cup {d \in db : d.key \in r.fk /\ d.key.t \in DictTables}
  <2>1. \A d \in parts : d.attrs \subseteq Keys(db)
    BY <1>1 DEF NoDangling
  <2> HIDE DEF parts
  <2>2. {<<d.key, d.attrs \cap Keys(db)>> : d \in parts} = {<<d.key, d.attrs>> : d \in parts}
    BY <2>1, JoinFact
  <2> QED
    BY <2>2 DEF Rendered, parts
<1>2. ASSUME r \in db', NoDangling' PROVE Rendered(r)'.shown = Rendered(r)'.sent
  <2> DEFINE parts == {r} \cup {d \in db' : d.key \in r.fk /\ d.key.t \in DictTables}
  <2>1. \A d \in parts : d.attrs \subseteq Keys(db')
    BY <1>2 DEF NoDangling, Keys
  <2> HIDE DEF parts
  <2>2. {<<d.key, d.attrs \cap Keys(db')>> : d \in parts} = {<<d.key, d.attrs>> : d \in parts}
    BY <2>1, JoinFact
  <2> QED
    BY <2>2 DEF Rendered, parts, Keys
<1> QED
  BY <1>1, <1>2

\* A row that stays is shown as before if the rows it names stay and no new
\* row takes a key it names.
LEMMA RenderedStays ==
  ASSUME NoDangling, NoDangling', NEW r \in db, r \in db',
         \A d : d.key \in r.fk => (d \in db <=> d \in db')
  PROVE  Rendered(r)' = Rendered(r)
<1>1. {d \in db' : d.key \in r.fk /\ d.key.t \in DictTables}
        = {d \in db : d.key \in r.fk /\ d.key.t \in DictTables}
  OBVIOUS
<1>2. Rendered(r)'.sent = Rendered(r).sent /\ Rendered(r)'.key = Rendered(r).key
  BY <1>1 DEF Rendered
<1>3. Rendered(r)'.shown = Rendered(r).shown
  BY <1>2, ShownIsSent
<1>4. /\ Rendered(r) = [key |-> Rendered(r).key, sent |-> Rendered(r).sent, shown |-> Rendered(r).shown]
      /\ Rendered(r)' = [key |-> Rendered(r)'.key, sent |-> Rendered(r)'.sent, shown |-> Rendered(r)'.shown]
  BY DEF Rendered
<1> QED
  BY <1>2, <1>3, <1>4

\* Rows under new keys are published; the rows they join are shown as before.
LEMMA InsertPublishes ==
  ASSUME StoreInv, StoreInv', ReferencesInv, db \subseteq db',
         \A r \in db' \ db : r.key \notin Keys(db)
  PROVE  View!Publish
<1>1. ASSUME NEW r \in db PROVE Rendered(r)' = Rendered(r)
  <2>1. \A d : d.key \in r.fk => (d \in db <=> d \in db')
    BY DEF ReferencesInv, Rows, ParentsPresent
  <2> QED
    BY <2>1, RenderedStays DEF StoreInv
<1>2. \A r \in db' : Rendered(r)'.shown = Rendered(r)'.sent
  BY ShownIsSent DEF StoreInv
<1>3. \A r : Rendered(r).key = r.key /\ Rendered(r)'.key = r.key
  BY DEF Rendered
<1> QED
  BY <1>1, <1>2, <1>3, KeysFact DEF View!Publish

\* A statement retracts rows; no dictionary row of one that stays goes with it.
LEMMA StatementRetracts ==
  ASSUME StoreInv, StoreInv', ReferencesInv, wtodo # <<>>, db' = db \ Victims(Head(wtodo))
  PROVE  View!Retract
<1>1. ASSUME NEW r \in db' PROVE Rendered(r)' = Rendered(r)
  <2>1. \A d : d.key \in r.fk => (d \in db <=> d \in db')
    BY NoChildLeft
  <2> QED
    BY <2>1, RenderedStays DEF StoreInv
<1> QED
  BY <1>1 DEF View!Retract

\* Without a change of the tables, readers see none.
LEMMA SameView ==
  ASSUME db' = db
  PROVE  UNCHANGED {Rendered(r) : r \in {d \in db : d.key.t \in OwnerTables}}
BY DEF Rendered, Keys

\* Store implements TelemetryView: a telemetry row appears complete under a new
\* key, is never altered while it stays, and goes; the dictionary, its cache, its
\* sweeps, failures and restarts cannot be seen.
THEOREM StoreImplementsView == Spec => ViewImplemented
<1>1. Init => View!Init
  BY DEF Init, View!Init
<1>2. ASSUME StoreInv, StoreInv', ReferencesInv, [Next]_vars
      PROVE  [View!Next]_({Rendered(r) : r \in {d \in db : d.key.t \in OwnerTables}})
  <2>1. CASE db' = db
    BY <2>1, SameView
  <2>2. CASE db \subseteq db' /\ \A r \in db' \ db : r.key \notin Keys(db)
    BY <1>2, <2>2, InsertPublishes DEF View!Next
  <2>3. CASE wtodo # <<>> /\ db' = db \ Victims(Head(wtodo))
    BY <1>2, <2>3, StatementRetracts DEF View!Next
  <2>4. CASE Ingest
    <3>1. \A part : db' = InsertNew(part) => db \subseteq db' /\ \A r \in db' \ db : r.key \notin Keys(db)
      BY DEF InsertNew
    <3> QED
      BY <2>1, <2>2, <2>4, <3>1
      DEF Ingest, BeginIngest, FlushRows, UpsertIdentity, StageFails, AppendItem, FinishItems,
          AbortItems, FlushTable, CloseTable, PKSatisfied
  <2> QED
    BY <1>2, <2>1, <2>3, <2>4
    DEF Next, Write, Restart, DeleteSpans, DeleteLogs, DeleteMetricStream, ClearTraces, ClearLogs,
        ClearMetrics, SweepIfOverCap, EnforceRound, WithDBWrite, RunStatement, StatementFails, vars
<1> QED
  BY <1>1, <1>2, StoreInvariant, ReferencesInvariant, PTL DEF Spec, ViewImplemented, View!Spec

----------------------------------------------------------------------------
(* The locks.                                                              *)

Exclusive == Writers \cup {Closer}

\* Where each kind of caller can be.
Roles ==
  /\ \A p \in Ingesters : stage[p] \in {"idle", "wantIngestMu", "wantR", "parked", "check",
                                     "body", "leaveR", "leaveIngestMu"}
  /\ \A p \in Readers : stage[p] \in {"idle", "wantR", "parked", "check", "body", "leaveR"}
  /\ \A p \in Exclusive : stage[p] \in {"idle", "wantW", "drain", "wbody", "leaveW"}

\* The holders of the read side are the callers between RLock and RUnlock.
ReadersAgree == \A p \in Shared : p \in readers <=> stage[p] \in {"check", "body", "leaveR"}

\* A parked caller is one Unlock will wake, and there is a writer to do it.
ParkedAgree == /\ \A p \in Shared : p \in parked <=> stage[p] = "parked"
               /\ parked # {} => announced # NoOne

\* The announced writer is the one between Lock and Unlock, and once it is in,
\* every reader is out.
WriterAgrees ==
  /\ \A p \in Exclusive : announced = p <=> stage[p] \in {"drain", "wbody", "leaveW"}
  /\ \A p \in Exclusive : stage[p] \in {"wbody", "leaveW"} => writing
  /\ writing => announced # NoOne /\ readers = {}

\* ingestMu is held by the ingester between its Lock and its Unlock.
IngestMuAgrees ==
  \A p \in Ingesters : ingestMu = p <=> stage[p] \in {"wantR", "parked", "check", "body",
                                                   "leaveR", "leaveIngestMu"}

\* The inductive invariant.
LockInv == /\ LocksTypeOK /\ Roles
           /\ ReadersAgree /\ ParkedAgree /\ WriterAgrees /\ IngestMuAgrees
           /\ NeverUsedClosed

USE DEF Exclusive, Shared, Procs

\* The invariant holds when the store is opened: nobody holds anything.
LEMMA LockInit == LocksInit => LockInv
BY ProcsAssumption
DEF LocksInit, LockInv, LocksTypeOK, Labels, Roles, ReadersAgree, ParkedAgree, WriterAgrees,
    IngestMuAgrees, NeverUsedClosed

\* A step of an ingester or a reader keeps the invariant.
LEMMA SharedKeeps ==
  ASSUME LockInv, NEW p \in Shared,
         \/ p \in Ingesters /\ (CallWithConn(p) \/ IngestStep(p))
         \/ p \in Readers /\ (CallWithDBRead(p) \/ SharedStep(p))
  PROVE  LockInv'
<1> USE ProcsAssumption
    DEF LockInv, LocksTypeOK, Labels, Roles, ReadersAgree, ParkedAgree, WriterAgrees,
        IngestMuAgrees, NeverUsedClosed, Goto
<1>1. CASE p \in Ingesters /\ CallWithConn(p)
  BY <1>1 DEF CallWithConn
<1>2. CASE p \in Readers /\ CallWithDBRead(p)
  BY <1>2 DEF CallWithDBRead
<1>3. CASE p \in Ingesters /\ LockIngestMu(p)
  BY <1>3 DEF LockIngestMu
<1>4. CASE RLock(p)
  BY <1>4 DEF RLock
<1>5. CASE CheckOpen(p)
  BY <1>5 DEF CheckOpen
<1>6. CASE ReadBody(p)
  BY <1>6 DEF ReadBody
<1>7. CASE RUnlock(p)
  BY <1>7 DEF RUnlock
<1>8. CASE p \in Ingesters /\ UnlockIngestMu(p)
  BY <1>8 DEF UnlockIngestMu
<1> QED
  BY <1>1, <1>2, <1>3, <1>4, <1>5, <1>6, <1>7, <1>8 DEF IngestStep, SharedStep

\* A step of a clear, a delete, a retention round or Close keeps it.
LEMMA ExclusiveKeeps ==
  ASSUME LockInv, NEW p \in Exclusive,
         CallWithDBWrite(p) \/ CallClose(p) \/ WriteStep(p)
  PROVE  LockInv'
<1> USE ProcsAssumption
    DEF LockInv, LocksTypeOK, Labels, Roles, ReadersAgree, ParkedAgree, WriterAgrees,
        IngestMuAgrees, NeverUsedClosed, Goto
<1>1. CASE CallWithDBWrite(p) \/ CallClose(p)
  BY <1>1 DEF CallWithDBWrite, CallClose
<1>2. CASE Announce(p)
  BY <1>2 DEF Announce
<1>3. CASE Drain(p)
  BY <1>3 DEF Drain
<1>4. CASE WriteBody(p)
  BY <1>4 DEF WriteBody
<1>5. CASE Unlock(p)
  BY <1>5 DEF Unlock
<1> QED
  BY <1>1, <1>2, <1>3, <1>4, <1>5 DEF WriteStep

\* LockInv is an invariant of the store's locking, whatever the fairness.
THEOREM LockInvariant == LocksSpec => []LockInv
<1>1. LockInv /\ [LocksNext]_lockVars => LockInv'
  <2>1. ASSUME LockInv, UNCHANGED lockVars PROVE LockInv'
    BY <2>1 DEF lockVars, LockInv, LocksTypeOK, Roles, ReadersAgree, ParkedAgree, WriterAgrees,
                IngestMuAgrees, NeverUsedClosed
  <2>2. ASSUME LockInv, LocksNext PROVE LockInv'
    BY <2>2, SharedKeeps, ExclusiveKeeps DEF LocksNext
  <2> QED
    BY <2>1, <2>2
<1> QED
  BY <1>1, LockInit, PTL DEF LocksSpec

\* Type correctness of the locking state.
THEOREM LockTypesHold == LocksSpec => []LocksTypeOK
BY LockInvariant, PTL DEF LockInv

\* For any number of callers, a write-locked section excludes every query,
\* every ingest and every other write-locked section (WithDBWrite, Close); and
\* one ingest at a time is inside its batch (WithConn's ingestMu).
THEOREM SectionsNeverOverlap == LocksSpec => []SectionsExclude
<1>1. LockInv => WriteExcludes
  BY ProcsAssumption
  DEF LockInv, Roles, ReadersAgree, WriterAgrees, WriteExcludes, LocksTypeOK
<1>2. LockInv => IngestsSerialized
  BY DEF LockInv, IngestMuAgrees, IngestsSerialized
<1>3. LockInv => SectionsExclude
  BY <1>1, <1>2 DEF SectionsExclude
<1> QED
  BY <1>3, LockInvariant, PTL

\* No callback of WithConn or WithDBRead runs on a connection Close dropped.
THEOREM ConnectionStaysOpen == LocksSpec => []NeverUsedClosed
BY LockInvariant, PTL DEF LockInv

(***************************************************************************)
(* The retention pass prunes safely for any timestamps, cap, burst and     *)
(* number of exports and deletes: its types are kept, and a round never    *)
(* deletes for garbage of the pass's own, nor beyond the oldest tenth.     *)
(***************************************************************************)

Room  == MaxExports * Burst
Cells == Times \X (1 .. Room)

\* UpTo, for the counts f of one signal.
Filled(f, t) == {r \in Cells : r[1] <= t /\ r[2] <= f[r[1]]}

Counts == [RetentionSignals -> [Times -> Nat]]

\* Without deletes from outside, what a prune round measures has no garbage.
Clean == phase = "prune" /\ ~touched => dead = 0 /\ dict = Pinned

\* The inductive invariant.
RetentionInv == RetentionTypeOK /\ Clean

(* ---------------------- least and greatest elements -------------------- *)

\* In a finite set of numbers there is an element with any number of smaller
\* ones, from none to all others.
LEMMA EveryPlace ==
  ASSUME NEW S \in SUBSET Nat, IsFiniteSet(S), NEW n \in 0 .. Cardinality(S) - 1
  PROVE  \E t \in S : Cardinality({i \in S : i < t}) = n
<1> DEFINE B(t) == {i \in S : i < t}
           P == 0 .. Cardinality(S) - 1
           f == [t \in S |-> Cardinality(B(t))]
<1>1. Cardinality(S) \in Nat
  BY FS_CardinalityType
<1>2. IsFiniteSet(P) /\ Cardinality(P) = Cardinality(S)
  BY <1>1, FS_Interval
<1>3. ASSUME NEW t \in S PROVE IsFiniteSet(B(t)) /\ Cardinality(B(t)) \in P
  <2>1. IsFiniteSet(S \ {t}) /\ Cardinality(S \ {t}) = Cardinality(S) - 1
    BY FS_RemoveElement
  <2>2. B(t) \in SUBSET (S \ {t})
    OBVIOUS
  <2>3. IsFiniteSet(B(t)) /\ Cardinality(B(t)) <= Cardinality(S \ {t})
    BY <2>1, <2>2, FS_Subset
  <2> QED
    BY <1>1, <2>1, <2>3, FS_CardinalityType
<1>4. ASSUME NEW t \in S, NEW u \in S, t < u PROVE f[t] # f[u]
  <2>1. (\A i \in S : i < t => i < u) /\ ~(t < t)
    BY <1>4
  <2>2. B(t) \subseteq B(u) /\ t \in B(u) /\ t \notin B(t)
    BY <1>4, <2>1
  <2>3. Cardinality(B(u)) = Cardinality(B(t)) => B(u) = B(t)
    BY <1>3, <2>2, FS_Subset
  <2> QED
    BY <2>2, <2>3
<1>5. f \in [S -> P]
  BY <1>3
<1>6. \A t, u \in S : f[t] = f[u] => t = u
  <2> SUFFICES ASSUME NEW t \in S, NEW u \in S, t # u PROVE f[t] # f[u]
    OBVIOUS
  <2>1. t < u \/ u < t
    OBVIOUS
  <2> QED
    BY <2>1, <1>4
<1>7. f \in Injection(S, P)
  BY <1>5, <1>6 DEF Injection, IsInjective
<1>8. f \in Surjection(S, P)
  BY <1>2, <1>7, FS_Injection
<1> QED
  BY <1>8 DEF Surjection

LEMMA HasLeast ==
  ASSUME NEW S \in SUBSET Nat, IsFiniteSet(S), S # {}
  PROVE  \E t \in S : \A u \in S : t <= u
<1>1. 0 \in 0 .. Cardinality(S) - 1
  BY FS_CardinalityType, FS_EmptySet
<1>2. PICK t \in S : Cardinality({i \in S : i < t}) = 0
  BY <1>1, EveryPlace
<1>3. {i \in S : i < t} = {}
  BY <1>2, FS_Subset, FS_EmptySet
<1> QED
  BY <1>3

LEMMA HasGreatest ==
  ASSUME NEW S \in SUBSET Nat, IsFiniteSet(S), S # {}
  PROVE  \E t \in S : \A u \in S : u <= t
<1>1. Cardinality(S) \in Nat /\ Cardinality(S) - 1 \in 0 .. Cardinality(S) - 1
  BY FS_CardinalityType, FS_EmptySet
<1>2. PICK t \in S : Cardinality({i \in S : i < t}) = Cardinality(S) - 1
  BY <1>1, EveryPlace
<1>3. IsFiniteSet(S \ {t}) /\ Cardinality(S \ {t}) = Cardinality(S) - 1
  BY FS_RemoveElement
<1>4. {i \in S : i < t} \subseteq S \ {t}
  OBVIOUS
<1>5. {i \in S : i < t} = S \ {t}
  BY <1>2, <1>3, <1>4, FS_Subset
<1> QED
  BY <1>5

(* ------------------------------ counting ------------------------------ *)

LEMMA RoomIsNat == Room \in Nat
BY RetentionAssumption DEF Room

LEMMA FilledFinite == \A f, t : IsFiniteSet(Filled(f, t)) /\ Cardinality(Filled(f, t)) \in Nat
<1>1. IsFiniteSet(1 .. Room)
  BY RoomIsNat, FS_Interval
<1>2. IsFiniteSet(Cells)
  BY <1>1, RetentionAssumption, FS_Product DEF Cells
<1> QED
  BY <1>2, FS_Subset, FS_CardinalityType DEF Filled

\* Fewer rows, and an earlier time, make a smaller count.
LEMMA FilledMonotonic ==
  ASSUME NEW f \in [Times -> Nat], NEW g \in [Times -> Nat], \A t \in Times : f[t] <= g[t],
         NEW t, NEW u, \A v \in Times : v <= t => v <= u
  PROVE  Cardinality(Filled(f, t)) <= Cardinality(Filled(g, u))
<1>1. \A r \in Cells : r[1] \in Times /\ r[2] \in Nat
  BY RoomIsNat DEF Cells
<1>2. Filled(f, t) \subseteq Filled(g, u)
  BY <1>1 DEF Filled
<1> QED
  BY <1>2, FilledFinite, FS_Subset

LEMMA CountFilled == \A s, t : UpTo(s, t) = Filled(rows[s], t)
BY DEF UpTo, Filled, Cells, Room

LEMMA CountIsNat == \A s : Count(s) \in Nat /\ Count(s) = Cardinality(Filled(rows[s], Newest))
BY CountFilled, FilledFinite DEF Count

LEMMA CountNextIsNat == \A s : Count(s)' \in Nat /\ Count(s)' = Cardinality(Filled(rows'[s], Newest))
<1>1. \A s : UpTo(s, Newest)' = Filled(rows'[s], Newest)
  BY DEF UpTo, Filled, Cells, Room, Newest
<1> QED
  BY <1>1, FilledFinite DEF Count

\* No signal has more rows than before: nor has the store.
LEMMA LiveShrinks ==
  ASSUME rows \in Counts, rows' \in Counts,
         \A s \in RetentionSignals, t \in Times : rows'[s][t] <= rows[s][t]
  PROVE  Live \in Nat /\ Live' \in Nat /\ Live' <= Live
<1>1. \A s \in RetentionSignals : Count(s)' <= Count(s)
  BY CountIsNat, CountNextIsNat, FilledMonotonic DEF Counts
<1> QED
  BY <1>1, CountIsNat, CountNextIsNat DEF Live, RetentionSignals

LEMMA LiveGrows ==
  ASSUME rows \in Counts, rows' \in Counts,
         \A s \in RetentionSignals, t \in Times : rows[s][t] <= rows'[s][t]
  PROVE  Live \in Nat /\ Live' \in Nat /\ Live <= Live'
<1>1. \A s \in RetentionSignals : Count(s) <= Count(s)'
  BY CountIsNat, CountNextIsNat, FilledMonotonic DEF Counts
<1> QED
  BY <1>1, CountIsNat, CountNextIsNat DEF Live, RetentionSignals

LEMMA DictFinite ==
  ASSUME NEW D \in SUBSET (RetentionSignals \X Times)
  PROVE  IsFiniteSet(D) /\ Cardinality(D) \in Nat
<1>1. IsFiniteSet(RetentionSignals)
  <2>1. RetentionSignals = ({"spans"} \cup {"logs"}) \cup {"datapoints"}
    BY DEF RetentionSignals
  <2> QED
    BY <2>1, FS_Singleton, FS_Union
<1>2. IsFiniteSet(RetentionSignals \X Times)
  BY <1>1, RetentionAssumption, FS_Product
<1> QED
  BY <1>2, FS_Subset, FS_CardinalityType

(* ------------------------------ the cutoff ---------------------------- *)

\* Nth finds a time, the first one by which n rows are there.
LEMMA NthFound ==
  ASSUME NEW s, NEW n \in Nat, 1 <= n, n <= Count(s)
  PROVE  /\ Nth(s, n) \in Times /\ Cardinality(UpTo(s, Nth(s, n))) >= n
         /\ \A u \in Times : u < Nth(s, n) => Cardinality(UpTo(s, u)) < n
<1> DEFINE T == {t \in Times : Cardinality(UpTo(s, t)) >= n}
<1>1. \A t : IsFiniteSet(UpTo(s, t)) /\ Cardinality(UpTo(s, t)) \in Nat
  BY CountFilled, FilledFinite
<1>2. Times # {}
  <2> SUFFICES ASSUME Times = {} PROVE FALSE
    OBVIOUS
  <2>1. UpTo(s, Newest) = {}
    BY DEF UpTo
  <2> QED
    BY <2>1, FS_EmptySet DEF Count
<1>3. Newest \in Times
  BY <1>2, HasGreatest, RetentionAssumption DEF Newest
<1>4. Newest \in T
  BY <1>3, <1>1 DEF Count
<1>5. T \subseteq Nat /\ IsFiniteSet(T)
  BY RetentionAssumption, FS_Subset
<1>6. PICK t \in T : \A u \in T : t <= u
  BY <1>4, <1>5, HasLeast
<1>7. \A u \in Times : u < t => Cardinality(UpTo(s, u)) < n
  <2> SUFFICES ASSUME NEW u \in Times, u < t, ~(Cardinality(UpTo(s, u)) < n) PROVE FALSE
    OBVIOUS
  <2>1. u \in T
    BY <1>1
  <2> QED
    BY <2>1, <1>5, <1>6
<1> QED
  BY <1>6, <1>7 DEF Nth

\* A later row is not at an earlier time.
LEMMA NthMonotonic ==
  ASSUME NEW s, NEW n \in Nat, NEW m \in Nat, 1 <= n, n <= m, m <= Count(s)
  PROVE  Nth(s, n) <= Nth(s, m)
<1>1. Nth(s, n) \in Nat /\ Nth(s, m) \in Nat /\ Nth(s, m) \in Times
  <2>1. n <= Count(s) /\ 1 <= m
    BY CountIsNat
  <2>2. Nth(s, n) \in Times
    BY <2>1, NthFound
  <2>3. Nth(s, m) \in Times
    BY <2>1, NthFound
  <2> QED
    BY <2>2, <2>3, RetentionAssumption
<1>2. Cardinality(UpTo(s, Nth(s, m))) >= m /\ Cardinality(UpTo(s, Nth(s, m))) \in Nat
  BY NthFound, CountIsNat, CountFilled, FilledFinite
<1>3. Nth(s, m) < Nth(s, n) => Cardinality(UpTo(s, Nth(s, m))) < n
  BY <1>1, NthFound, CountIsNat
<1> QED
  BY <1>1, <1>2, <1>3

\* A double is at most half a gap beyond the timestamp it stands for.
LEMMA DoubleNear ==
  ASSUME NEW t \in Nat
  PROVE  Double(t) \in Nat /\ 2 * Double(t) <= 2 * t + Ulp
<1>1. Ulp \in Nat \ {0}
  BY RetentionAssumption
<1>2. t % Ulp \in Nat /\ t % Ulp <= t /\ t % Ulp < Ulp
  BY <1>1
<1> DEFINE over == t % Ulp
<1>3. Double(t) = t - over \/ (2 * over >= Ulp /\ Double(t) = t - over + Ulp)
  BY <1>1, <1>2 DEF Double
<1> HIDE DEF over
<1>4. over \in Nat /\ over <= t /\ over < Ulp
  BY <1>2 DEF over
<1> QED
  BY <1>1, <1>3, <1>4

\* What is interpolated between lo and hi is not beyond the later of them.
LEMMA Interpolated ==
  ASSUME NEW lo \in Nat, NEW hi \in Nat, NEW top \in Nat, 2 * lo <= top, 2 * hi <= top, NEW r \in 0 .. 9
  PROVE  10 * lo + r * (hi - lo) \in Nat /\ 2 * (10 * lo + r * (hi - lo)) <= 10 * top
<1>1. r \in {0, 1, 2, 3, 4, 5, 6, 7, 8, 9}
  OBVIOUS
<1> QED
  BY <1>1

\* A multiple of u at most two of them beyond x tenths of a unit.
LEMMA TwoGaps ==
  ASSUME NEW x \in Nat, NEW u \in Nat \ {0}, NEW k \in (x \div (10 * u)) - 1 .. (x \div (10 * u)) + 2
  PROVE  u * k \in Int /\ 10 * (u * k) <= x + 20 * u
<1> DEFINE g == x \div (10 * u)
<1>1. 10 * u \in Nat \ {0}
  OBVIOUS
<1>2. g \in Nat /\ (10 * u) * g <= x
  BY <1>1
<1>3. k \in g - 1 .. g + 2
  OBVIOUS
<1> HIDE DEF g
<1>4. u * k <= u * (g + 2)
  BY <1>2, <1>3
<1> QED
  BY <1>2, <1>3, <1>4

\* The rows around the first tenth, in order.
LEMMA TenthOrdered ==
  ASSUME NEW s, Count(s) > 0
  PROVE  TenthStarts(s) \in Nat /\ TenthEnds(s) \in Nat /\ TenthStarts(s) <= TenthEnds(s)
<1> DEFINE h == Count(s) - 1
<1>1. Count(s) \in Nat /\ h \in Nat /\ h + 1 = Count(s)
  BY CountIsNat
<1>2. /\ h \div 10 \in Nat /\ h % 10 \in 0 .. 9
      /\ (h \div 10) + 1 <= h + 1
      /\ h % 10 # 0 => (h \div 10) + 2 <= h + 1
  <2> HIDE DEF h
  <2> QED
    BY <1>1
<1>3. TenthStarts(s) = Nth(s, (h \div 10) + 1)
      /\ TenthEnds(s) = IF h % 10 = 0 THEN TenthStarts(s) ELSE Nth(s, (h \div 10) + 2)
  BY DEF TenthStarts, TenthEnds, PruneDenominator
<1> HIDE DEF h
<1>4. (h \div 10) + 1 \in Nat /\ 1 <= (h \div 10) + 1 /\ (h \div 10) + 1 <= Count(s)
  BY <1>1, <1>2
<1>5. TenthStarts(s) \in Nat
  <2>1. Nth(s, (h \div 10) + 1) \in Times
    BY <1>4, NthFound
  <2> QED
    BY <2>1, <1>3, RetentionAssumption
<1>6. CASE h % 10 = 0
  BY <1>3, <1>5, <1>6
<1>7. CASE h % 10 # 0
  <2>1. (h \div 10) + 2 \in Nat /\ (h \div 10) + 2 <= Count(s)
        /\ (h \div 10) + 1 <= (h \div 10) + 2 /\ 1 <= (h \div 10) + 2
    BY <1>1, <1>2, <1>4, <1>7
  <2>2. Nth(s, (h \div 10) + 2) \in Times
    BY <2>1, NthFound
  <2>3. TenthStarts(s) <= Nth(s, (h \div 10) + 2)
    BY <1>3, <1>4, <2>1, NthMonotonic
  <2> QED
    BY <1>3, <1>5, <1>7, <2>2, <2>3, RetentionAssumption
<1> QED
  BY <1>6, <1>7

\* However its arithmetic is rounded, the cutoff of a round is less than three
\* gaps beyond the row the first tenth ends at.
LEMMA CutoffNear ==
  ASSUME NEW s, Count(s) > 0, NEW c \in PruneCutoff(s)
  PROVE  c \in Int /\ c < TenthEnds(s) + 3 * Ulp
<1> DEFINE part == (Count(s) - 1) % 10
           lo   == Double(TenthStarts(s))
           hi   == Double(TenthEnds(s))
           here == 10 * lo + part * (hi - lo)
           top  == 2 * TenthEnds(s) + Ulp
<1>1. part \in 0 .. 9
  <2>1. Count(s) - 1 \in Nat
    BY CountIsNat
  <2> QED
    BY <2>1
<1>2. Ulp \in Nat \ {0} /\ TenthEnds(s) \in Nat /\ TenthStarts(s) \in Nat /\ TenthStarts(s) <= TenthEnds(s)
  BY TenthOrdered, RetentionAssumption
<1>3. lo \in Nat /\ hi \in Nat /\ 2 * lo <= 2 * TenthStarts(s) + Ulp /\ 2 * hi <= top
  BY <1>2, DoubleNear
<1>4. top \in Nat /\ 2 * lo <= top
  <2> HIDE DEF lo
  <2> QED
    BY <1>2, <1>3
<1>5. c = lo \/ \E k \in (here \div (10 * Ulp)) - 1 .. (here \div (10 * Ulp)) + 2 : c = Ulp * k
  BY DEF PruneCutoff, PruneDenominator
<1>6. here \in Nat /\ 2 * here <= 10 * top
  <2> HIDE DEF lo, hi, part, top
  <2> QED
    BY <1>1, <1>3, <1>4, Interpolated
<1> HIDE DEF here, lo
<1>7. CASE c = lo
  BY <1>2, <1>3, <1>4, <1>7
<1>8. CASE \E k \in (here \div (10 * Ulp)) - 1 .. (here \div (10 * Ulp)) + 2 : c = Ulp * k
  <2>1. c \in Int /\ 10 * c <= here + 20 * Ulp
    BY <1>2, <1>6, <1>8, TwoGaps
  <2> QED
    BY <1>2, <1>6, <2>1
<1> QED
  BY <1>5, <1>7, <1>8

(* ------------------------------- the steps ---------------------------- *)

\* A prune only takes rows away.
LEMMA PrunedShape ==
  ASSUME rows \in Counts, NEW sigs, NEW f \in Pruned(sigs)
  PROVE  /\ f \in Counts
         /\ \A s \in RetentionSignals : f[s] \in Left(s, sigs)
         /\ \A s \in RetentionSignals, t \in Times : f[s][t] <= rows[s][t]
<1>1. \A s \in RetentionSignals : rows[s] \in [Times -> Nat]
  BY DEF Counts
<1>2. \A s \in RetentionSignals : \A l \in Left(s, sigs) :
        l \in [Times -> Nat] /\ \A t \in Times : l[t] <= rows[s][t]
  BY <1>1 DEF Left
<1>3. PICK spans \in Left("spans", sigs), logs \in Left("logs", sigs), datapoints \in Left("datapoints", sigs) :
        f = [s \in RetentionSignals |-> CASE s = "spans" -> spans [] s = "logs" -> logs [] OTHER -> datapoints]
  BY DEF Pruned
<1>4. \A s \in RetentionSignals : f[s] \in Left(s, sigs)
  BY <1>3 DEF RetentionSignals
<1>5. f \in Counts
  <2>1. \A s \in RetentionSignals : f[s] \in [Times -> Nat]
    BY <1>2, <1>4
  <2> QED
    BY <1>3, <2>1 DEF Counts
<1> QED
  BY <1>2, <1>4, <1>5

LEMMA BareShrinks ==
  ASSUME bare \in Nat, NEW sigs
  PROVE  BareAfter(sigs) \in Nat /\ BareAfter(sigs) <= bare
BY DEF BareAfter

LEMMA RetentionStarts == RetentionInit => RetentionInv
<1> SUFFICES ASSUME RetentionInit PROVE RetentionInv
  OBVIOUS
<1>1. rows \in Counts
  BY DEF RetentionInit, Counts
<1>2. round \in 0 .. MaxPruneRounds /\ ingests \in 0 .. MaxExports /\ deletes \in 0 .. MaxDeletes
  BY RetentionAssumption DEF RetentionInit, MaxPruneRounds
<1>3. touched \in BOOLEAN /\ phase = "wait"
  BY DEF RetentionInit
<1>4. bare \in Nat /\ dead \in Nat /\ dict \subseteq RetentionSignals \X Times
  BY DEF RetentionInit
<1> QED
  BY <1>1, <1>2, <1>3, <1>4 DEF RetentionInv, RetentionTypeOK, Clean, Counts

LEMMA IngestKeeps == ASSUME RetentionInv, IngestBurst PROVE RetentionInv' /\ Live <= Live'
<1>1. PICK s \in RetentionSignals, t \in Times :
        rows' = [rows EXCEPT ![s][t] = @ + Burst] /\ dict' = dict \cup {<<s, t>>}
  BY DEF IngestBurst
<1>2. rows \in Counts
  BY DEF RetentionInv, RetentionTypeOK, Counts
<1>3. rows' \in Counts
  BY <1>1, <1>2, RetentionAssumption DEF Counts
<1>4. \A x \in RetentionSignals, y \in Times :
        rows'[x][y] = IF x = s /\ y = t THEN rows[s][t] + Burst ELSE rows[x][y]
  BY <1>1, <1>2 DEF Counts
<1>5. \A x \in RetentionSignals, y \in Times : rows[x][y] \in Nat /\ rows[x][y] <= rows'[x][y]
  BY <1>2, <1>4, RetentionAssumption DEF Counts
<1>6. ingests' \in 0 .. MaxExports
  BY RetentionAssumption DEF RetentionInv, RetentionTypeOK, IngestBurst
<1>7. RetentionTypeOK'
  BY <1>1, <1>3, <1>6 DEF RetentionInv, RetentionTypeOK, Counts, IngestBurst
<1>8. Clean'
  <2> SUFFICES ASSUME phase = "prune", ~touched PROVE dead = 0 /\ dict' = Pinned'
    BY DEF Clean, IngestBurst
  <2>1. dead = 0 /\ \A d \in dict : rows[d[1]][d[2]] > 0 /\ d[1] \in RetentionSignals /\ d[2] \in Times
    BY DEF RetentionInv, RetentionTypeOK, Clean, Pinned
  <2>2. rows'[s][t] > 0
    BY <1>2, <1>4, RetentionAssumption DEF Counts
  <2>3. \A d \in dict' : rows'[d[1]][d[2]] > 0
    <3> SUFFICES ASSUME NEW d \in dict' PROVE rows'[d[1]][d[2]] > 0
      OBVIOUS
    <3>1. CASE d = <<s, t>>
      BY <3>1, <2>2
    <3>2. CASE d \in dict
      <4>1. d[1] \in RetentionSignals /\ d[2] \in Times /\ rows[d[1]][d[2]] > 0
        BY <3>2, <2>1
      <4> QED
        BY <4>1, <1>3, <1>5 DEF Counts
    <3> QED
      BY <3>1, <3>2, <1>1
  <2> QED
    BY <2>1, <2>3 DEF Pinned
<1> QED
  BY <1>2, <1>3, <1>5, <1>7, <1>8, LiveGrows DEF RetentionInv

LEMMA IngestSummaryKeeps == ASSUME RetentionInv, IngestSummary PROVE RetentionInv'
<1>1. ingests' \in 0 .. MaxExports /\ bare' \in Nat
  BY RetentionAssumption DEF RetentionInv, RetentionTypeOK, IngestSummary
<1> QED
  BY <1>1 DEF RetentionInv, RetentionTypeOK, Clean, Pinned, IngestSummary

LEMMA DeleteByIDKeeps == ASSUME RetentionInv, DeleteByID PROVE RetentionInv'
<1>1. PICK s \in RetentionSignals, t \in Times :
        rows[s][t] > 0 /\ rows' = [rows EXCEPT ![s][t] = @ - 1]
  BY DEF DeleteByID
<1>2. rows' \in Counts
  BY <1>1 DEF RetentionInv, RetentionTypeOK, Counts
<1>3. deletes' \in 0 .. MaxDeletes /\ dead' \in Nat
  BY RetentionAssumption DEF RetentionInv, RetentionTypeOK, DeleteByID
<1> QED
  BY <1>2, <1>3 DEF RetentionInv, RetentionTypeOK, Counts, Clean, DeleteByID

LEMMA DeleteStreamKeeps == ASSUME RetentionInv, DeleteStream PROVE RetentionInv'
<1>1. PICK left \in [Times -> 0 .. MaxExports * Burst] :
        /\ \A t \in Times : left[t] <= rows["datapoints"][t]
        /\ rows' = [rows EXCEPT !["datapoints"] = left]
  BY DEF DeleteStream
<1>2. rows \in Counts /\ bare \in Nat /\ dead \in Nat
  BY DEF RetentionInv, RetentionTypeOK, Counts
<1>3. left \in [Times -> Nat]
  BY RoomIsNat DEF Room
<1>4. \A s \in RetentionSignals : rows'[s] = IF s = "datapoints" THEN left ELSE rows[s]
  BY <1>1, <1>2 DEF Counts
<1>5. rows' \in Counts /\ \A s \in RetentionSignals, t \in Times : rows'[s][t] <= rows[s][t]
  <2>1. \A s \in RetentionSignals : rows[s] \in [Times -> Nat] /\ rows'[s] \in [Times -> Nat]
    BY <1>2, <1>3, <1>4 DEF Counts
  <2>2. \A s \in RetentionSignals, t \in Times : rows'[s][t] <= rows[s][t]
    BY <1>1, <1>4, <2>1
  <2> QED
    BY <1>1, <1>2, <2>1, <2>2 DEF Counts
<1>6. bare' \in Nat /\ bare' <= bare
  BY <1>2 DEF DeleteStream
<1>7. dead' \in Nat
  BY <1>2, <1>5, <1>6, LiveShrinks DEF DeleteStream
<1>8. deletes' \in 0 .. MaxDeletes
  BY RetentionAssumption DEF RetentionInv, RetentionTypeOK, DeleteStream
<1> QED
  BY <1>5, <1>6, <1>7, <1>8 DEF RetentionInv, RetentionTypeOK, Counts, Clean, DeleteStream

LEMMA RetentionClearKeeps == ASSUME RetentionInv, Clear PROVE RetentionInv'
<1>1. PICK s \in RetentionSignals :
        /\ rows' = [rows EXCEPT ![s] = [t \in Times |-> 0]]
        /\ bare' = IF s = "datapoints" THEN 0 ELSE bare
        /\ dict' = {d \in Pinned : d[1] # s}
        /\ dead' = dead + Count(s) + (bare - bare') + Cardinality(dict \ dict')
  BY DEF Clear
<1>2. rows' \in Counts
  BY <1>1 DEF RetentionInv, RetentionTypeOK, Counts
<1>3. bare' \in Nat /\ bare - bare' \in Nat /\ dict' \subseteq dict /\ dict \subseteq RetentionSignals \X Times
  BY <1>1 DEF RetentionInv, RetentionTypeOK, Pinned
<1>4. dead' \in Nat
  <2>1. Cardinality(dict \ dict') \in Nat
    BY <1>3, DictFinite
  <2> QED
    BY <1>1, <1>3, <2>1, CountIsNat DEF RetentionInv, RetentionTypeOK
<1>5. deletes' \in 0 .. MaxDeletes
  BY RetentionAssumption DEF RetentionInv, RetentionTypeOK, Clear
<1> QED
  BY <1>2, <1>3, <1>4, <1>5 DEF RetentionInv, RetentionTypeOK, Counts, Clean, Clear

LEMMA TickKeeps == ASSUME RetentionInv, Tick PROVE RetentionInv'
BY DEF RetentionInv, RetentionTypeOK, Clean, Tick, budget, MaxPruneRounds

LEMMA FitsKeeps == ASSUME RetentionInv, Fits PROVE RetentionInv'
BY DEF RetentionInv, RetentionTypeOK, Clean, Fits, budget

LEMMA SweepKeeps == ASSUME RetentionInv, RetentionSweep PROVE RetentionInv'
<1>1. rows' = rows /\ dict' = Pinned /\ Pinned \subseteq dict /\ dead' = 0
  BY DEF RetentionSweep, Pinned
<1>2. dict' = Pinned'
  BY <1>1 DEF Pinned
<1>3. phase' \in {"wait", "prune"} /\ touched' = FALSE
  BY DEF RetentionSweep
<1>4. RetentionTypeOK'
  <2>1. UNCHANGED <<bare, round, ingests, deletes>>
    BY DEF RetentionSweep, budget
  <2>2. touched' \in BOOLEAN /\ dead' \in Nat
    BY <1>1, <1>3
  <2> QED
    BY <1>1, <1>3, <2>1, <2>2 DEF RetentionInv, RetentionTypeOK
<1> QED
  BY <1>1, <1>2, <1>4 DEF RetentionInv, Clean

LEMMA PruneRoundKeeps == ASSUME RetentionInv, PruneRound PROVE RetentionInv'
<1>1. rows \in Counts /\ bare \in Nat
  BY DEF RetentionInv, RetentionTypeOK, Counts
<1>2. rows' \in Counts /\ bare' \in Nat
  BY <1>1, PrunedShape, BareShrinks DEF PruneRound
<1>3. dict' = {d \in dict : rows'[d[1]][d[2]] > 0} /\ dead' = 0
  BY DEF PruneRound
<1>4. dict' = Pinned' /\ dict' \subseteq dict
  BY <1>3 DEF Pinned
<1>5. round' \in 0 .. MaxPruneRounds /\ phase' \in {"wait", "prune"} /\ touched' = FALSE
  BY DEF RetentionInv, RetentionTypeOK, PruneRound, MaxPruneRounds
<1>6. RetentionTypeOK'
  <2>1. UNCHANGED <<ingests, deletes>>
    BY DEF PruneRound, budget
  <2>2. touched' \in BOOLEAN /\ dead' \in Nat
    BY <1>3, <1>5
  <2> QED
    BY <1>2, <1>4, <1>5, <2>1, <2>2 DEF RetentionInv, RetentionTypeOK, Counts
<1> QED
  BY <1>3, <1>4, <1>6 DEF RetentionInv, Clean

LEMMA FailKeeps == ASSUME RetentionInv, PassFails PROVE RetentionInv'
<1>1. PICK sigs \in {{}, {"spans"}, {"spans", "logs"}, RetentionSignals} :
        rows' \in Pruned(sigs) /\ bare' = BareAfter(sigs) /\ dict' \in SUBSET dict
  BY DEF PassFails
<1>2. rows \in Counts /\ bare \in Nat /\ dead \in Nat /\ dict \subseteq RetentionSignals \X Times
  BY DEF RetentionInv, RetentionTypeOK, Counts
<1>3. rows' \in Counts /\ \A s \in RetentionSignals, t \in Times : rows'[s][t] <= rows[s][t]
  BY <1>1, <1>2, PrunedShape
<1>4. bare' \in Nat /\ bare' <= bare
  BY <1>1, <1>2, BareShrinks
<1>5. Live \in Nat /\ Live' \in Nat /\ Live' <= Live
  BY <1>2, <1>3, LiveShrinks
<1>6. Cardinality(dict \ dict') \in Nat
  BY <1>2, DictFinite
<1>7. dead' \in Nat
  BY <1>2, <1>4, <1>5, <1>6 DEF PassFails
<1>8. deletes' \in 0 .. MaxDeletes
  BY RetentionAssumption DEF RetentionInv, RetentionTypeOK, PassFails
<1>9. phase' = "wait" /\ UNCHANGED <<round, touched, ingests>>
  BY DEF PassFails
<1> QED
  BY <1>1, <1>2, <1>3, <1>4, <1>7, <1>8, <1>9 DEF RetentionInv, RetentionTypeOK, Counts, Clean

LEMMA StepKeeps == RetentionInv /\ [RetentionNext]_retentionVars => RetentionInv'
<1> SUFFICES ASSUME RetentionInv, [RetentionNext]_retentionVars PROVE RetentionInv'
  OBVIOUS
<1>1. CASE UNCHANGED retentionVars
  BY <1>1 DEF retentionVars, RetentionInv, RetentionTypeOK, Clean, Pinned
<1>2. CASE RetentionNext
  BY <1>2, IngestKeeps, IngestSummaryKeeps, DeleteByIDKeeps, DeleteStreamKeeps, RetentionClearKeeps,
     TickKeeps, FitsKeeps, SweepKeeps, PruneRoundKeeps, FailKeeps
  DEF RetentionNext, Pass
<1> QED
  BY <1>1, <1>2

THEOREM RetentionInvariant == RetentionSpec => []RetentionInv
BY RetentionStarts, StepKeeps, PTL DEF RetentionSpec

\* Counts and the loop's state keep their types, the rounds of a pass stay
\* within maxPruneRounds (retention.go:70).
THEOREM RetentionTypesHold == RetentionSpec => []RetentionTypeOK
<1>1. RetentionInv => RetentionTypeOK
  BY DEF RetentionInv
<1> QED
  BY <1>1, RetentionInvariant, PTL

\* Only a round of the pass prunes.
LEMMA PrunerIsRound == ASSUME RetentionInv, [RetentionNext]_retentionVars, Prunes PROVE PruneRound
<1>1. phase = "prune" /\ deletes' = deletes /\ Live' < Live
  BY DEF Prunes
<1>2. deletes \in Nat
  BY RetentionAssumption DEF RetentionInv, RetentionTypeOK
<1>3. Live \in Nat
  BY CountIsNat DEF Live
<1>4. ASSUME rows' = rows PROVE Live' = Live
  BY <1>4 DEF Live, Count, UpTo, Newest
<1>5. ~IngestBurst
  BY <1>1, <1>3, IngestKeeps, CountNextIsNat DEF Live
<1>6. ~IngestSummary /\ ~Fits /\ ~UNCHANGED retentionVars
  BY <1>1, <1>3, <1>4 DEF IngestSummary, Fits, retentionVars
<1>7. ~DeleteByID /\ ~DeleteStream /\ ~Clear /\ ~PassFails
  BY <1>1, <1>2 DEF DeleteByID, DeleteStream, Clear, PassFails
<1>8. ~Tick /\ ~RetentionSweep
  BY <1>1 DEF Tick, RetentionSweep
<1> QED
  BY <1>5, <1>6, <1>7, <1>8 DEF RetentionNext, Pass

\* For any timestamps, cap and burst: telemetry is dropped only if the store
\* would be over its cap without its garbage too, and no row newer than the oldest
\* tenth by as much as three gaps between doubles (retention.go:84-85, 224-275;
\* ARCHITECTURE.md:200).
THEOREM RetentionPrunesSafely == RetentionSpec => PrunesSafely
<1>1. RetentionInv /\ [RetentionNext]_retentionVars => (Prunes /\ ~touched => Needed > MaxBytes)
  <2> SUFFICES ASSUME RetentionInv, [RetentionNext]_retentionVars, Prunes, ~touched PROVE Needed > MaxBytes
    OBVIOUS
  <2>1. Size > MaxBytes
    BY PrunerIsRound DEF PruneRound
  <2>2. dead = 0 /\ dict = Pinned
    BY DEF RetentionInv, Clean, Prunes
  <2>3. Live \in Nat /\ bare \in Nat /\ Cardinality(dict) \in Nat
    BY CountIsNat, DictFinite DEF Live, RetentionInv, RetentionTypeOK
  <2> QED
    BY <2>1, <2>2, <2>3 DEF Size, Needed
<1>2. RetentionInv /\ [RetentionNext]_retentionVars =>
        (Prunes => \A s \in RetentionSignals, t \in Times :
           rows'[s][t] # rows[s][t] => t < TenthEnds(s) + 3 * Ulp)
  <2> SUFFICES ASSUME RetentionInv, [RetentionNext]_retentionVars, Prunes,
                      NEW s \in RetentionSignals, NEW t \in Times, rows'[s][t] # rows[s][t]
               PROVE  t < TenthEnds(s) + 3 * Ulp
    OBVIOUS
  <2>1. rows \in Counts /\ rows' \in Pruned(RetentionSignals)
    BY PrunerIsRound DEF PruneRound, RetentionInv, RetentionTypeOK, Counts
  <2>2. rows'[s] \in Left(s, RetentionSignals) /\ rows'[s] # rows[s]
    BY <2>1, PrunedShape
  <2>3. PICK c \in PruneCutoff(s) : Count(s) > 0 /\ (~(t < c) => rows'[s][t] = rows[s][t])
    BY <2>2, CountIsNat DEF Left
  <2>4. c \in Int /\ c < TenthEnds(s) + 3 * Ulp /\ t < c
    BY <2>3, CutoffNear
  <2> QED
    BY <2>3, <2>4, TenthOrdered, RetentionAssumption
<1>3. RetentionInv /\ [RetentionNext]_retentionVars => [Prunes /\ ~touched => Needed > MaxBytes]_retentionVars
  BY <1>1
<1>4. RetentionInv /\ [RetentionNext]_retentionVars =>
        [Prunes => \A s \in RetentionSignals, t \in Times :
           rows'[s][t] # rows[s][t] => t < TenthEnds(s) + 3 * Ulp]_retentionVars
  BY <1>2
<1> QED
  BY <1>3, <1>4, RetentionInvariant, PTL
  DEF RetentionSpec, PrunesSafely, PruneOnlyForTelemetry, OldestTenthOnly
=============================================================================
