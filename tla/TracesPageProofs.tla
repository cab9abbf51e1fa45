--------------------------- MODULE TracesPageProofs ---------------------------
(***************************************************************************)
(* The traces page settles for any number of traces, queries, mounts, list *)
(* updates and deletes: PageSettles is an invariant.                       *)
(***************************************************************************)
EXTENDS TracesPage, FiniteSetTheorems, TLAPS

Urls == [page : {"traces", "other"}, id : Traces \cup {None}, span : AllSpans \cup {None}]
Lists == [items : SUBSET Traces, loading : BOOLEAN, error : BOOLEAN, tree : Tree,
          last : 0 .. Cardinality(Traces), from : 0 .. MaxSeq]
Details == [inst : 1 .. MaxMounts, trace : Traces, tree : Tree]
Ops == [seq : 1 .. MaxSeq, kind : {"fetch", "search"}, tree : Tree, inst : 1 .. MaxMounts]
Deletes == [inst : 1 .. MaxMounts, trace : Traces \cup {None}]
OnePerPage(D) == \A d, e \in D : d.inst = e.inst => d = e

\* TypeOK over these names.
Types ==
  /\ url \in Urls /\ inst \in 0 .. MaxMounts /\ editor \in BOOLEAN /\ seq \in 0 .. MaxSeq
  /\ ops \subseteq Ops /\ list \in Lists /\ data \in Traces \cup {None}
  /\ details \subseteq Details /\ OnePerPage(details) /\ deletes \subseteq Deletes
  /\ lost \in BOOLEAN

\* A page that is shown has been mounted; without one nothing can report.
Mounted == IF Shown THEN inst >= 1 ELSE ops = {}

\* A loaded list that is not empty has the selected row.
SelectionListed == Shown /\ ~list.loading /\ list.items # {} => url.id \in list.items

\* The request in flight is for the selected row; with none, what the waterfall
\* shows is that row's or nothing.
DetailFollows ==
  Shown /\ url.id \in list.items =>
    /\ \A d \in details : d.inst = inst => d.trace = url.id
    /\ (\A d \in details : d.inst # inst) => data \in {None, url.id}

\* The newest update can still report, or its answer or failure is there.
NewestReports ==
  Shown => (\E o \in ops : o.seq = seq) \/ list.from = seq \/ list.error \/ lost

\* The inductive invariant.
PageInv == Types /\ Mounted /\ SelectionListed /\ DetailFollows /\ NewestReports

(* --------------------------- rows and spans --------------------------- *)

\* The place of a row is one of the places there are.
LEMMA IndexInRange ==
  ASSUME NEW S \in SUBSET Nat, IsFiniteSet(S), NEW t \in S
  PROVE  Index(S, t) \in 0 .. Cardinality(S) - 1
<1> DEFINE B == {i \in S : i < t}
<1>1. IsFiniteSet(S \ {t}) /\ Cardinality(S \ {t}) = Cardinality(S) - 1
  BY FS_RemoveElement
<1>2. B \in SUBSET (S \ {t})
  OBVIOUS
<1>3. IsFiniteSet(B) /\ Cardinality(B) <= Cardinality(S \ {t})
  BY <1>1, <1>2, FS_Subset
<1>4. Cardinality(B) \in Nat /\ Cardinality(S) \in Nat
  BY <1>3, FS_CardinalityType
<1> QED
  BY <1>1, <1>3, <1>4 DEF Index

\* Different rows have different places.
LEMMA IndexMonotonic ==
  ASSUME NEW S \in SUBSET Nat, IsFiniteSet(S), NEW t \in S, NEW u \in S, t < u
  PROVE  Index(S, t) # Index(S, u)
<1> DEFINE B(x) == {i \in S : i < x}
<1>1. IsFiniteSet(B(u))
  BY FS_Subset
<1>2. /\ \A i \in S : i < t => i < u
      /\ ~(t < t)
  OBVIOUS
<1>3. B(t) \subseteq B(u) /\ t \in B(u) /\ t \notin B(t)
  BY <1>2
<1>4. Cardinality(B(u)) = Cardinality(B(t)) => B(u) = B(t)
  BY <1>1, <1>3, FS_Subset
<1> QED
  BY <1>3, <1>4 DEF Index

\* Every place there is holds a row (CHOOSE in At finds one).
LEMMA AtListed ==
  ASSUME NEW S \in SUBSET Nat, IsFiniteSet(S), NEW n \in 0 .. Cardinality(S) - 1
  PROVE  At(S, n) \in S
<1> DEFINE P == 0 .. Cardinality(S) - 1
           f == [t \in S |-> Index(S, t)]
<1>1. Cardinality(S) \in Nat
  BY FS_CardinalityType
<1>2. IsFiniteSet(P) /\ Cardinality(P) = Cardinality(S)
  BY <1>1, FS_Interval
<1>3. f \in [S -> P]
  BY IndexInRange
<1>4. \A t, u \in S : f[t] = f[u] => t = u
  <2> SUFFICES ASSUME NEW t \in S, NEW u \in S, t # u
               PROVE  f[t] # f[u]
    OBVIOUS
  <2>1. t < u \/ u < t
    OBVIOUS
  <2> QED
    BY <2>1, IndexMonotonic
<1>5. f \in Injection(S, P)
  BY <1>3, <1>4 DEF Injection, IsInjective
<1>6. f \in Surjection(S, P)
  BY <1>2, <1>5, FS_Injection
<1>7. \E t \in S : Index(S, t) = n
  BY <1>6 DEF Surjection
<1> QED
  BY <1>7 DEF At

\* The row that takes the place of one that is gone is listed.
LEMMA FallbackListed ==
  ASSUME NEW l \in Lists, l.items # {}
  PROVE  Fallback(l) \in l.items
<1>1. l.items \in SUBSET Nat /\ IsFiniteSet(l.items)
  BY TracesAssumption, FS_Subset DEF Lists
<1>2. Cardinality(l.items) \in Nat /\ Cardinality(l.items) # 0
  BY <1>1, FS_CardinalityType, FS_EmptySet
<1>3. l.last \in Nat
  BY DEF Lists
<1>4. (IF l.last < Cardinality(l.items) - 1 THEN l.last ELSE Cardinality(l.items) - 1)
        \in 0 .. Cardinality(l.items) - 1
  BY <1>2, <1>3
<1> QED
  BY <1>1, <1>4, AtListed DEF Fallback

\* The place of a listed row fits the bound the page remembers it by.
LEMMA IndexRemembered ==
  ASSUME NEW l \in Lists, NEW t \in l.items
  PROVE  Index(l.items, t) \in 0 .. Cardinality(Traces)
<1>1. l.items \in SUBSET Nat /\ IsFiniteSet(l.items)
      /\ Cardinality(l.items) <= Cardinality(Traces)
  BY TracesAssumption, FS_Subset DEF Lists
<1>2. Cardinality(l.items) \in Nat /\ Cardinality(Traces) \in Nat
  BY <1>1, TracesAssumption, FS_CardinalityType
<1>3. Index(l.items, t) \in 0 .. Cardinality(l.items) - 1
  BY <1>1, IndexInRange
<1> QED
  BY <1>1, <1>2, <1>3

\* The span a detail answer asks for is one of the trace's, or none.
LEMMA DesiredSpan ==
  ASSUME Types, NEW d \in details, NEW spans \in {{}, SpansOf(d.trace)},
         NEW match \in spans \cup {None}
  PROVE  Desired(d, spans, match) \in AllSpans \cup {None}
<1>1. d.trace \in Traces /\ d.trace \in Nat
  BY TracesAssumption DEF Types, Details
<1>2. spans \subseteq AllSpans
  BY <1>1 DEF AllSpans
<1>3. First(spans) \in spans \cup {None}
  <2>1. CASE spans = {}
    BY <2>1 DEF First
  <2>2. CASE spans = SpansOf(d.trace)
    <3>1. 10 * d.trace \in spans /\ \A r \in spans : 10 * d.trace <= r
      BY <1>1, <2>2 DEF SpansOf
    <3> QED
      BY <3>1 DEF First
  <2> QED
    BY <2>1, <2>2
<1> QED
  BY <1>2, <1>3 DEF Desired

(* ------------------------------ the effects ---------------------------- *)

\* The selection effect leaves a typed address of the same page, and a listed
\* selection once the list is there.
LEMMA ReselectKeeps ==
  ASSUME NEW u \in Urls, NEW l \in Lists
  PROVE  /\ Reselect(u, l) \in Urls /\ Reselect(u, l).page = u.page
         /\ ~l.loading /\ l.items # {} => Reselect(u, l).id \in l.items
<1>1. l.items \subseteq Traces
  BY DEF Lists
<1>2. l.items # {} => Fallback(l) \in l.items
  BY FallbackListed
<1>3. CASE l.loading \/ u.id \in l.items \/ (l.items = {} /\ u.id = None)
  BY <1>3 DEF Reselect
<1>4. CASE ~(l.loading \/ u.id \in l.items \/ (l.items = {} /\ u.id = None))
  <2> DEFINE n == IF l.items = {} THEN None ELSE Fallback(l)
  <2>1. Reselect(u, l) = [u EXCEPT !.id = n, !.span = None]
    BY <1>4 DEF Reselect
  <2>2. n \in Traces \cup {None} /\ (l.items # {} => n \in l.items)
    BY <1>1, <1>2
  <2> QED
    BY <2>1, <2>2 DEF Urls
<1> QED
  BY <1>3, <1>4

\* A flush of the page's effects, whatever list and address it starts from,
\* leaves the selection listed and the detail request the selected row's.
LEMMA FlushKeeps ==
  ASSUME Types, Mounted, DetailFollows, Shown,
         NEW l \in Lists, NEW u \in Urls, u.page = "traces", NEW fresh \in BOOLEAN,
         Flush(l, u, fresh), UNCHANGED inst
  PROVE  /\ url' \in Urls /\ url'.page = "traces"
         /\ list' \in Lists /\ list'.from = l.from /\ list'.error = l.error
         /\ data' \in Traces \cup {None}
         /\ details' \subseteq Details /\ OnePerPage(details')
         /\ SelectionListed' /\ DetailFollows'
<1> DEFINE u1 == Reselect(u, l)
           sel == Selected(u1, l)
           redraw == \/ sel # Selected(url, list)
                     \/ sel # None /\ (fresh \/ l.tree # list.tree)
                     \/ sel = None /\ l.loading # list.loading
<1>1. /\ list' = [l EXCEPT !.last = IF ~l.loading /\ sel # None THEN Index(l.items, sel) ELSE @]
      /\ IF redraw /\ sel # None
         THEN FetchTraceDetail(sel, l.tree) /\ url' = u1 /\ UNCHANGED data
         ELSE /\ UNCHANGED details
              /\ IF redraw /\ ~l.loading
                 THEN data' = None /\ url' = [u1 EXCEPT !.span = None]
                 ELSE url' = u1 /\ UNCHANGED data
  BY DEF Flush
<1>2. /\ u1 \in Urls /\ u1.page = "traces"
      /\ ~l.loading /\ l.items # {} => u1.id \in l.items
  BY ReselectKeeps
<1>3. /\ l.items \subseteq Traces /\ None \notin Traces
      /\ sel = (IF u1.id \in l.items THEN u1.id ELSE None)
  BY TracesAssumption DEF Lists, Selected, None
<1>4. sel # None => sel \in l.items
  BY <1>3
<1>5. /\ list' \in Lists /\ list'.items = l.items /\ list'.loading = l.loading
      /\ list'.from = l.from /\ list'.error = l.error
  <2>1. sel # None => Index(l.items, sel) \in 0 .. Cardinality(Traces)
    BY <1>4, IndexRemembered
  <2> HIDE DEF sel
  <2> QED
    BY <1>1, <2>1 DEF Lists
<1>6. /\ url' \in Urls /\ url'.page = "traces" /\ url'.id = u1.id
  <2> HIDE DEF u1, sel, redraw
  <2> QED
    BY <1>1, <1>2 DEF Urls
<1>7. SelectionListed'
  BY <1>2, <1>5, <1>6 DEF SelectionListed
<1>8. inst \in 1 .. MaxMounts /\ details \subseteq Details /\ OnePerPage(details)
      /\ data \in Traces \cup {None} /\ l.tree \in Tree
  BY DEF Types, Mounted, Lists
<1>9. CASE redraw /\ sel # None
  <2>1. details' = {d \in details : d.inst # inst}
                     \cup {[inst |-> inst, trace |-> sel, tree |-> l.tree]}
        /\ data' = data
    BY <1>1, <1>9 DEF FetchTraceDetail
  <2>2. sel \in Traces /\ sel = u1.id
    BY <1>3, <1>9
  <2> HIDE DEF u1, sel, redraw
  <2>3. details' \subseteq Details /\ OnePerPage(details')
    BY <1>8, <2>1, <2>2 DEF Details, OnePerPage
  <2>4. \A d \in details' : d.inst = inst => d.trace = url'.id
    BY <1>6, <2>1, <2>2
  <2>5. \E d \in details' : d.inst = inst
    <3> DEFINE asked == [inst |-> inst, trace |-> sel, tree |-> l.tree]
    <3>1. asked \in details' /\ asked.inst = inst
      BY <2>1
    <3> QED
      BY <3>1
  <2> QED
    BY <1>5, <1>6, <1>7, <1>8, <2>1, <2>3, <2>4, <2>5 DEF DetailFollows
<1>10. CASE ~(redraw /\ sel # None)
  <2>1. details' = details /\ data' \in {data, None}
    BY <1>1, <1>10
  <2>2. CASE sel = None
    <3>1. url'.id \notin list'.items
      BY <1>3, <1>5, <1>6, <2>2
    <3> QED
      BY <1>5, <1>6, <1>7, <1>8, <2>1, <3>1 DEF DetailFollows, OnePerPage
  <2>3. CASE sel # None
    <3>1. sel = Selected(url, list) /\ sel = u1.id
      BY <1>3, <1>10, <2>3
    <3>2. url.id = sel /\ url.id \in list.items
      BY <2>3, <3>1 DEF Selected
    <3>3. url'.id = url.id
      BY <1>6, <3>1, <3>2
    <3> HIDE DEF u1, sel, redraw
    <3> QED
      BY <1>5, <1>6, <1>7, <1>8, <2>1, <3>2, <3>3 DEF DetailFollows, OnePerPage
  <2> QED
    BY <2>2, <2>3
<1> QED
  BY <1>9, <1>10

(* ------------------------------- the steps ----------------------------- *)

\* What the steps below need of the types.
LEMMA Typed ==
  ASSUME PageInv
  PROVE  /\ url \in Urls /\ inst \in 0 .. MaxMounts /\ editor \in BOOLEAN /\ seq \in 0 .. MaxSeq
         /\ ops \subseteq Ops /\ list \in Lists /\ data \in Traces \cup {None}
         /\ details \subseteq Details /\ OnePerPage(details) /\ deletes \subseteq Deletes
         /\ lost \in BOOLEAN
         /\ FreshList \in Lists /\ Loading(list) \in Lists
         /\ MaxSeq \in Nat /\ MaxMounts \in Nat /\ seq \in Nat
         /\ None \notin Traces /\ NoQuery \in Tree
<1>1. Cardinality(Traces) \in Nat
  BY TracesAssumption, FS_CardinalityType
<1>2. FreshList \in Lists
  BY <1>1, TracesAssumption DEF FreshList, Lists, Tree
<1>3. Loading(list) \in Lists
  BY DEF PageInv, Types, Loading, Lists
<1>4. None \notin Traces /\ MaxSeq \in Nat /\ MaxMounts \in Nat
  BY TracesAssumption
<1>5. seq \in Nat /\ NoQuery \in Tree
  BY <1>4 DEF PageInv, Types, Tree
<1> QED
  BY <1>2, <1>3, <1>4, <1>5 DEF PageInv, Types

\* Mounting the page starts it over with its first fetch under way.
LEMMA MountKeeps ==
  ASSUME PageInv, NEW u \in Urls, u.page = "traces", NEW s \in Nat, s + 1 \in 1 .. MaxSeq,
         Mount(u, s), UNCHANGED <<editor, details>>,
         deletes' \subseteq deletes
  PROVE  PageInv'
<1>1. /\ url' = u /\ inst' = inst + 1 /\ inst' \in 1 .. MaxMounts /\ seq' = s + 1
      /\ ops' = ops \cup {[seq |-> s + 1, kind |-> "fetch", tree |-> NoQuery, inst |-> inst + 1]}
      /\ list' = FreshList /\ data' = None /\ lost' = FALSE
  BY Typed DEF Mount
<1>2. Types'
  <2>1. [seq |-> s + 1, kind |-> "fetch", tree |-> NoQuery, inst |-> inst + 1] \in Ops
    BY <1>1, Typed DEF Ops
  <2>2. seq' \in 0 .. MaxSeq /\ inst' \in 0 .. MaxMounts
    BY <1>1, Typed
  <2>3. ops' \subseteq Ops /\ list' \in Lists /\ lost' \in BOOLEAN
    BY <1>1, <2>1, Typed
  <2> QED
    BY <1>1, <2>2, <2>3, Typed DEF Types
<1>3. list'.items = {} /\ list'.loading = TRUE
  BY <1>1 DEF FreshList
<1>4. \E o \in ops' : o.seq = seq'
  <2> DEFINE o == [seq |-> s + 1, kind |-> "fetch", tree |-> NoQuery, inst |-> inst + 1]
  <2>1. o \in ops' /\ o.seq = seq'
    BY <1>1
  <2> QED
    BY <2>1
<1> QED
  BY <1>1, <1>2, <1>3, <1>4, Typed
  DEF PageInv, Shown, Mounted, SelectionListed, DetailFollows, NewestReports

\* A step that flushes the effects of the page keeps the invariant, if the
\* newest update is left to report, reported or lost.
LEMMA FlushStepKeeps ==
  ASSUME PageInv, Shown, NEW l \in Lists, NEW u \in Urls, u.page = "traces",
         NEW fresh \in BOOLEAN, Flush(l, u, fresh), UNCHANGED inst,
         editor' \in BOOLEAN, seq' \in 0 .. MaxSeq, lost' \in BOOLEAN,
         ops' \subseteq Ops, deletes' \subseteq deletes,
         (\E o \in ops' : o.seq = seq') \/ l.from = seq' \/ l.error \/ lost'
  PROVE  PageInv'
<1>1. Types /\ Mounted /\ DetailFollows
  BY DEF PageInv
<1>2. /\ url' \in Urls /\ url'.page = "traces"
      /\ list' \in Lists /\ list'.from = l.from /\ list'.error = l.error
      /\ data' \in Traces \cup {None}
      /\ details' \subseteq Details /\ OnePerPage(details')
      /\ SelectionListed' /\ DetailFollows'
  BY <1>1, FlushKeeps
<1>3. Types'
  BY <1>1, <1>2 DEF Types
<1>4. Mounted'
  BY <1>1, <1>2 DEF Mounted, Shown
<1>5. NewestReports'
  BY <1>2 DEF NewestReports
<1> QED
  BY <1>2, <1>3, <1>4, <1>5 DEF PageInv

\* An update that is started can be asked for by the page shown.
LEMMA StartedOps ==
  ASSUME PageInv, Shown, NEW n \in 1 .. MaxSeq, NEW q \in Tree
  PROVE  FetchOp(n) \in Ops /\ FetchOp(n).seq = n /\ SearchOp(n, q) \in Ops /\ SearchOp(n, q).seq = n
<1>1. inst \in 1 .. MaxMounts
  BY DEF PageInv, Mounted, Types
<1> QED
  BY <1>1, Typed DEF FetchOp, SearchOp, Ops

\* What the user does keeps the invariant.
LEMMA UserKeeps ==
  ASSUME PageInv, User
  PROVE  PageInv'
<1>1. CASE Open
  <2>1. PICK t \in Traces \cup {None} :
          \E s \in IF t = None THEN {None} ELSE SpansOf(t) \cup {None} :
            Mount([page |-> "traces", id |-> t, span |-> s], seq)
    BY <1>1 DEF Open
  <2>2. PICK s \in IF t = None THEN {None} ELSE SpansOf(t) \cup {None} :
          Mount([page |-> "traces", id |-> t, span |-> s], seq)
    BY <2>1
  <2> DEFINE u == [page |-> "traces", id |-> t, span |-> s]
  <2>3. u \in Urls /\ u.page = "traces"
    BY DEF Urls, AllSpans
  <2>4. seq \in Nat /\ seq + 1 \in 1 .. MaxSeq
    BY <1>1, Typed DEF Open
  <2> HIDE DEF u
  <2> QED
    BY <1>1, <2>2, <2>3, <2>4, MountKeeps DEF Open, u
<1>2. CASE Leave
  <2>1. Bare("other") \in Urls
    BY DEF Bare, Urls
  <2>2. seq' \in 0 .. MaxSeq
    BY <1>2, Typed DEF Leave
  <2>3. Types'
    BY <1>2, <2>1, <2>2, Typed DEF Leave, Types
  <2> QED
    BY <1>2, <2>3
    DEF Leave, Bare, PageInv, Shown, Mounted, SelectionListed, DetailFollows, NewestReports
<1>3. CASE CollapseDrawer
  <2>1. seq' \in 0 .. MaxSeq
    BY <1>3, Typed DEF CollapseDrawer
  <2>2. Types'
    BY <1>3, <2>1, Typed DEF CollapseDrawer, Types
  <2> QED
    BY <1>3, <2>2
    DEF CollapseDrawer, PageInv, Shown, Mounted, SelectionListed, DetailFollows, NewestReports
<1>4. CASE ExpandDrawer
  <2>1. Types'
    BY <1>4, Typed DEF ExpandDrawer, Types
  <2> QED
    BY <1>4, <2>1
    DEF ExpandDrawer, PageInv, Shown, Mounted, SelectionListed, DetailFollows, NewestReports
<1>5. CASE RunListFetch
  <2>1. seq + 1 \in 1 .. MaxSeq /\ url.page = "traces" /\ Loading(list) \in Lists
    BY <1>5, Typed DEF RunListFetch, Shown
  <2>2. FetchOp(seq + 1) \in Ops /\ FetchOp(seq + 1).seq = seq + 1
    BY <1>5, <2>1, StartedOps, TracesAssumption DEF RunListFetch, Tree
  <2>3. /\ ops' \subseteq Ops /\ FetchOp(seq + 1) \in ops' /\ seq' = seq + 1
    BY <1>5, <2>2, Typed DEF RunListFetch
  <2>4. \E o \in ops' : o.seq = seq'
    BY <2>2, <2>3
  <2> QED
    <3>1. seq' \in 0 .. MaxSeq
      BY <2>1, <2>3, Typed
    <3> QED
      BY <1>5, <2>1, <2>3, <2>4, <3>1, Typed, FlushStepKeeps DEF RunListFetch
<1>6. CASE HandleRefresh
  <2>1. /\ seq + 1 \in 1 .. MaxSeq /\ seq + 2 \in 1 .. MaxSeq
        /\ url.page = "traces" /\ Loading(list) \in Lists /\ NoQuery \in Tree
    BY <1>6, Typed DEF HandleRefresh, Shown, Tree
  <2>2. /\ FetchOp(seq + 2) \in Ops /\ FetchOp(seq + 2).seq = seq + 2
        /\ SearchOp(seq + 1, NoQuery) \in Ops
    BY <1>6, <2>1, StartedOps DEF HandleRefresh
  <2>3. /\ ops' \subseteq Ops /\ FetchOp(seq + 2) \in ops' /\ seq' = seq + 2
    BY <1>6, <2>2, Typed DEF HandleRefresh
  <2>4. \E o \in ops' : o.seq = seq'
    BY <2>2, <2>3
  <2> QED
    <3>1. seq' \in 0 .. MaxSeq
      BY <2>1, <2>3, Typed
    <3> QED
      BY <1>6, <2>1, <2>3, <2>4, <3>1, Typed, FlushStepKeeps DEF HandleRefresh
<1>7. CASE OnSubmit
  <2>1. PICK q \in Queries \cup {NoQuery} : ops' = ops \cup {SearchOp(seq + 1, q)}
    BY <1>7 DEF OnSubmit
  <2>2. seq' = seq + 1 /\ seq' \in 1 .. MaxSeq
    BY <1>7, Typed DEF OnSubmit
  <2>3. SearchOp(seq + 1, q) \in Ops /\ SearchOp(seq + 1, q).seq = seq'
    BY <1>7, <2>2, StartedOps DEF OnSubmit, Tree
  <2>4. Types'
    <3>1. seq' \in 0 .. MaxSeq
      BY <2>2, Typed
    <3>2. ops' \subseteq Ops
      BY <2>1, <2>3, Typed
    <3> QED
      BY <1>7, <3>1, <3>2, Typed DEF OnSubmit, Types
  <2> QED
    BY <1>7, <2>1, <2>3, <2>4
    DEF OnSubmit, PageInv, Shown, Mounted, SelectionListed, DetailFollows, NewestReports
<1>8. CASE SelectItem
  <2>1. PICK t \in list.items : Flush(list, [url EXCEPT !.id = t, !.span = None], FALSE)
    BY <1>8 DEF SelectItem
  <2> DEFINE u == [url EXCEPT !.id = t, !.span = None]
  <2>2. u \in Urls /\ u.page = "traces" /\ list \in Lists
    BY <1>8, Typed DEF SelectItem, Shown, Urls, Lists
  <2> HIDE DEF u
  <2> QED
    BY <1>8, <2>1, <2>2, Typed, FlushStepKeeps DEF SelectItem, PageInv, NewestReports, u
<1>9. CASE SelectSpan
  <2>1. PICK s \in SpansOf(data) : url' = [url EXCEPT !.span = s]
    BY <1>9 DEF SelectSpan
  <2>2. data \in Traces /\ s \in AllSpans
    BY <1>9, Typed DEF SelectSpan, AllSpans
  <2>3. url' \in Urls /\ url'.id = url.id /\ url'.page = url.page
    BY <2>1, <2>2, Typed DEF Urls
  <2>4. Types'
    BY <1>9, <2>3, Typed DEF SelectSpan, Types
  <2> QED
    BY <1>9, <2>3, <2>4
    DEF SelectSpan, PageInv, Shown, Mounted, SelectionListed, DetailFollows, NewestReports
<1>10. CASE PopState
  <2>1. PICK t \in Traces \cup {None} : Flush(list, [url EXCEPT !.id = t, !.span = None], FALSE)
    BY <1>10 DEF PopState
  <2> DEFINE u == [url EXCEPT !.id = t, !.span = None]
  <2>2. u \in Urls /\ u.page = "traces" /\ list \in Lists
    BY <1>10, Typed DEF PopState, Shown, Urls
  <2> HIDE DEF u
  <2> QED
    BY <1>10, <2>1, <2>2, Typed, FlushStepKeeps DEF PopState, PageInv, NewestReports, u
<1>11. CASE Delete
  <2>1. PICK t \in {data, None} : deletes' = deletes \cup {[inst |-> inst, trace |-> t]}
    BY <1>11 DEF Delete
  <2>2. [inst |-> inst, trace |-> t] \in Deletes
    BY <1>11, Typed DEF Delete, PageInv, Mounted, Deletes
  <2>3. Types'
    BY <1>11, <2>1, <2>2, Typed DEF Delete, Types
  <2> QED
    BY <1>11, <2>1, <2>3
    DEF Delete, PageInv, Shown, Mounted, SelectionListed, DetailFollows, NewestReports
<1> QED
  BY <1>1, <1>2, <1>3, <1>4, <1>5, <1>6, <1>7, <1>8, <1>9, <1>10, <1>11 DEF User

\* An answer to a list update, or its failure, keeps the invariant.
LEMMA ListAnswerKeeps ==
  ASSUME PageInv, NEW o \in ops, ListAnswer(o)
  PROVE  PageInv'
<1>1. Shown /\ url.page = "traces" /\ o \in Ops
  BY Typed DEF PageInv, Mounted, Shown
<1>2. ops \ {o} \subseteq Ops
  BY Typed
<1>3. CASE StaleFetchEnds(o)
  <2>1. Types'
    BY <1>2, <1>3, Typed DEF StaleFetchEnds, Types
  <2> QED
    BY <1>3, <2>1
    DEF StaleFetchEnds, PageInv, Shown, Mounted, SelectionListed, DetailFollows, NewestReports
<1>4. CASE FetchReturns(o)
  <2>1. PICK rows \in SUBSET Traces :
          Flush([list EXCEPT !.items = rows, !.loading = FALSE, !.from = o.seq], url, TRUE)
    BY <1>4 DEF FetchReturns
  <2> DEFINE l == [list EXCEPT !.items = rows, !.loading = FALSE, !.from = o.seq]
  <2>2. l \in Lists /\ l.from = seq
    BY <1>1, <1>4, Typed DEF FetchReturns, Lists, Ops
  <2> HIDE DEF l
  <2> QED
    BY <1>1, <1>2, <1>4, <2>1, <2>2, Typed, FlushStepKeeps DEF FetchReturns, l
<1>5. CASE FetchFails(o)
  <2> DEFINE l == [list EXCEPT !.error = TRUE, !.loading = FALSE]
  <2>1. Flush(l, url, FALSE) /\ l \in Lists /\ l.error
    BY <1>5, Typed DEF FetchFails, Lists
  <2> HIDE DEF l
  <2> QED
    BY <1>1, <1>2, <1>5, <2>1, Typed, FlushStepKeeps DEF FetchFails
<1>6. CASE SearchReturns(o)
  <2>1. PICK rows \in SUBSET Traces :
          Flush([HandleSearchResults(o, rows) EXCEPT !.tree = o.tree], url, o.seq = seq)
    BY <1>6 DEF SearchReturns
  <2> DEFINE l == [HandleSearchResults(o, rows) EXCEPT !.tree = o.tree]
  <2>2. /\ l \in Lists /\ (o.seq = seq => l.from = seq)
        /\ (o.seq # seq => l.from = list.from /\ l.error = list.error)
    BY <1>1, Typed DEF HandleSearchResults, Lists, Ops
  <2> HIDE DEF l
  <2>3. (\E p \in ops' : p.seq = seq') \/ l.from = seq' \/ l.error \/ lost'
    BY <1>1, <1>6, <2>2 DEF SearchReturns, PageInv, NewestReports
  <2> QED
    BY <1>1, <1>2, <1>6, <2>1, <2>2, <2>3, Typed, FlushStepKeeps DEF SearchReturns, l
<1>7. CASE SearchFails(o)
  <2>1. Types'
    BY <1>2, <1>7, Typed DEF SearchFails, Types
  <2> QED
    BY <1>7, <2>1
    DEF SearchFails, PageInv, Shown, Mounted, SelectionListed, DetailFollows, NewestReports
<1> QED
  BY <1>3, <1>4, <1>5, <1>6, <1>7 DEF ListAnswer

\* An answer with details, or its failure, keeps it: the request of the page
\* shown was for the selected row.
LEMMA DetailAnswerKeeps ==
  ASSUME PageInv, NEW d \in details, DetailReturns(d) \/ DetailFails(d)
  PROVE  PageInv'
<1>1. /\ d \in Details /\ d.trace \in Traces /\ details' = details \ {d}
      /\ UNCHANGED <<inst, editor, seq, ops, list, deletes, lost>>
  BY Typed DEF DetailReturns, DetailFails, Details
<1>2. PICK s \in AllSpans \cup {None} : url' = [url EXCEPT !.span = s]
  <2>1. CASE DetailReturns(d)
    <3>1. PICK spans \in {{}, SpansOf(d.trace)} : \E match \in spans \cup {None} :
            url' = [url EXCEPT !.span = Desired(d, spans, match)]
      BY <2>1 DEF DetailReturns
    <3> QED
      BY <3>1, DesiredSpan DEF PageInv
  <2>2. CASE DetailFails(d)
    BY <2>2 DEF DetailFails
  <2> QED
    BY <2>1, <2>2
<1>3. url' \in Urls /\ url'.id = url.id /\ url'.page = url.page
  BY <1>2, Typed DEF Urls
<1>4. IF Shown /\ d.inst = inst THEN data' \in {d.trace, None} ELSE data' = data
  BY DEF DetailReturns, DetailFails
<1>5. details' \subseteq Details /\ OnePerPage(details') /\ data' \in Traces \cup {None}
  BY <1>1, <1>4, Typed DEF OnePerPage
<1>6. Types'
  BY <1>1, <1>3, <1>5, Typed DEF Types
<1>7. DetailFollows'
  BY <1>1, <1>3, <1>4 DEF PageInv, DetailFollows, Shown
<1> QED
  BY <1>1, <1>3, <1>6, <1>7
  DEF PageInv, Shown, Mounted, SelectionListed, NewestReports

\* A delete that is done, or failed, keeps it, even if its page is gone.
LEMMA DeleteAnswerKeeps ==
  ASSUME PageInv, NEW x \in deletes, DeleteReturns(x) \/ DeleteFails(x)
  PROVE  PageInv'
<1> DEFINE live == Shown /\ x.inst = inst
           hit == x.trace = None \/ (Shown /\ url.id = x.trace)
           u == IF hit THEN Bare("traces") ELSE url
<1>1. deletes' = deletes \ {x} /\ deletes' \subseteq deletes /\ deletes' \subseteq Deletes
  BY Typed DEF DeleteReturns, DeleteFails
<1>2. CASE DeleteFails(x)
  <2>1. Types'
    BY <1>1, <1>2, Typed DEF DeleteFails, Types
  <2> QED
    BY <1>2, <2>1
    DEF DeleteFails, PageInv, Shown, Mounted, SelectionListed, DetailFollows, NewestReports
<1>3. Bare("traces") \in Urls /\ Bare("traces").page = "traces" /\ Bare("traces").id = None
  BY DEF Bare, Urls
<1>4. CASE DeleteReturns(x) /\ x.trace = None /\ ~Shown
  <2>1. Mount(Bare("traces"), seq + 1) /\ UNCHANGED <<editor, details>> /\ seq + 1 < MaxSeq
    BY <1>4 DEF DeleteReturns
  <2>2. seq + 1 \in Nat /\ seq + 1 + 1 \in 1 .. MaxSeq
    BY <2>1, Typed
  <2> QED
    BY <1>1, <1>3, <2>1, <2>2, MountKeeps
<1>5. CASE DeleteReturns(x) /\ ~(x.trace = None /\ ~Shown)
  <2>1. /\ seq' = seq + 1 /\ lost' = (Shown /\ ~live) /\ UNCHANGED <<inst, editor>>
        /\ seq + (IF Shown THEN 0 ELSE 1) < MaxSeq
    BY <1>5 DEF DeleteReturns
  <2>2. seq' \in 1 .. MaxSeq /\ seq' \in 0 .. MaxSeq /\ lost' \in BOOLEAN /\ editor' \in BOOLEAN
    BY <2>1, Typed
  <2>3. u \in Urls /\ (Shown => u.page = "traces")
    BY <1>3, Typed DEF Shown
  <2>4. CASE live
    <3>1. /\ ops' = ops \cup {FetchOp(seq + 1)} /\ list' = Loading(list) /\ url' = u
          /\ data' = (IF hit THEN None ELSE data) /\ details' = details
      BY <1>5, <2>4 DEF DeleteReturns
    <3>2. FetchOp(seq + 1) \in Ops /\ FetchOp(seq + 1).seq = seq'
      BY <2>1, <2>2, <2>4, StartedOps, Typed
    <3>3. ops' \subseteq Ops /\ data' \in Traces \cup {None}
      BY <3>1, <3>2, Typed
    <3>4. Types'
      BY <1>1, <2>1, <2>2, <2>3, <3>1, <3>3, Typed DEF Types
    <3>5. list'.loading /\ list'.items = list.items
      BY <3>1, Typed DEF Loading, Lists
    <3>6. url'.id \in list'.items => ~hit /\ url' = url
      BY <1>3, <3>1, <3>5, Typed DEF Lists
    <3> HIDE DEF u, hit, live
    <3>7. DetailFollows'
      BY <2>1, <3>1, <3>5, <3>6 DEF PageInv, DetailFollows, Shown
    <3>8. Mounted' /\ SelectionListed'
      BY <2>1, <2>3, <2>4, <3>1, <3>5 DEF PageInv, Mounted, Shown, SelectionListed, live
    <3>9. NewestReports'
      BY <3>1, <3>2 DEF NewestReports
    <3> QED
      BY <3>4, <3>7, <3>8, <3>9 DEF PageInv
  <2>5. CASE Shown /\ ~live
    <3>1. ops' = ops /\ Flush(list, u, FALSE)
      BY <1>5, <2>5 DEF DeleteReturns
    <3>2. lost'
      BY <2>1, <2>5
    <3> HIDE DEF u, live
    <3> QED
      BY <1>1, <2>1, <2>2, <2>3, <2>5, <3>1, <3>2, Typed, FlushStepKeeps
  <2>6. CASE ~Shown
    <3>1. UNCHANGED <<ops, list, url, data, details>>
      BY <1>5, <2>6 DEF DeleteReturns
    <3>2. Types'
      BY <1>1, <2>1, <2>2, <3>1, Typed DEF Types
    <3> QED
      BY <2>6, <3>1, <3>2
      DEF PageInv, Shown, Mounted, SelectionListed, DetailFollows, NewestReports
  <2> QED
    BY <2>4, <2>5, <2>6
<1> QED
  BY <1>2, <1>4, <1>5

(* ------------------------------ the theorems --------------------------- *)

\* The invariant holds while another page is shown and none was mounted.
LEMMA PageInit == Init => PageInv
<1> SUFFICES ASSUME Init PROVE PageInv
  OBVIOUS
<1>1. Cardinality(Traces) \in Nat
  BY TracesAssumption, FS_CardinalityType
<1>2. url \in Urls /\ list \in Lists
  BY <1>1, TracesAssumption DEF Init, Bare, Urls, FreshList, Lists, Tree
<1>3. Types
  <2>1. OnePerPage(details)
    BY DEF Init, OnePerPage
  <2>2. inst \in 0 .. MaxMounts /\ seq \in 0 .. MaxSeq
    BY TracesAssumption DEF Init
  <2>3. data \in Traces \cup {None}
    BY DEF Init
  <2>4. ops \subseteq Ops /\ details \subseteq Details /\ deletes \subseteq Deletes
    BY DEF Init
  <2>5. editor \in BOOLEAN /\ lost \in BOOLEAN
    BY Zenon DEF Init
  <2> QED
    BY <1>2, <2>1, <2>2, <2>3, <2>4, <2>5, Zenon DEF Types
<1>4. ~Shown /\ ops = {}
  BY DEF Init, Bare, Shown
<1> QED
  BY <1>3, <1>4 DEF PageInv, Mounted, SelectionListed, DetailFollows, NewestReports

\* PageInv is an invariant of the traces page, whatever the fairness.
THEOREM PageInvariant == Spec => []PageInv
<1>1. PageInv /\ [Next]_vars => PageInv'
  <2>1. ASSUME PageInv, UNCHANGED vars PROVE PageInv'
    BY <2>1
    DEF vars, PageInv, Types, OnePerPage, Shown, Mounted, SelectionListed, DetailFollows,
        NewestReports
  <2>2. ASSUME PageInv, Next PROVE PageInv'
    BY <2>2, UserKeeps, ListAnswerKeeps, DetailAnswerKeeps, DeleteAnswerKeeps DEF Next
  <2> QED
    BY <2>1, <2>2
<1> QED
  BY <1>1, PageInit, PTL DEF Spec

\* For any number of traces, queries, mounts, updates and deletes: once nothing
\* is in flight, list, selection and waterfall of the traces page are those of
\* the newest request (list-update-seq.ts, TracesPage.svelte fetchTraceDetail).
THEOREM TracesPageSettles == Spec => []PageSettles
<1>1. PageInv => TypeOK
  BY DEF PageInv, Types, TypeOK, Urls, Lists, Ops, Details, Deletes, OnePerPage
<1>2. PageInv => ListIsNewest
  BY DEF PageInv, NewestReports, ListIsNewest
<1>3. PageInv => DetailMatchesSelection
  BY DEF PageInv, SelectionListed, DetailFollows, DetailMatchesSelection
<1> QED
  BY <1>1, <1>2, <1>3, PageInvariant, PTL DEF PageSettles

(* --------------------------- the shared link --------------------------- *)

\* The effects leave the id of the address alone while the list is loading.
LEMMA LoadingKeepsId ==
  ASSUME url \in Urls, NEW l \in Lists, NEW fresh, Flush(l, url, fresh), list'.loading
  PROVE  url'.id = url.id
<1> DEFINE u1  == Reselect(url, l)
           sel == Selected(u1, l)
           n   == IF ~l.loading /\ sel # None THEN Index(l.items, sel) ELSE l.last
<1>1. list' = [l EXCEPT !.last = n]
  BY DEF Flush
<1>2. url' \in {u1, [u1 EXCEPT !.span = None]}
  BY Zenon DEF Flush
<1> HIDE DEF n
<1>3. l.loading
  BY <1>1 DEF Lists
<1>4. u1 = url
  BY <1>3 DEF Reselect
<1> QED
  BY <1>2, <1>4 DEF Urls

\* The id of a shared link is not replaced before the list has loaded, except by
\* the user or by a delete (signal-list-page.svelte.ts, selection effect).
THEOREM TracesSharedLinkKept == Spec => SharedLinkKept
<1> DEFINE Kept == list.loading /\ list'.loading /\ Shown /\ deletes' = deletes /\ url'.id # url.id
                     => Open \/ Leave \/ SelectItem \/ PopState
<1>1. PageInv /\ [Next]_vars => [Kept]_vars
  <2> SUFFICES ASSUME PageInv, Next, list.loading, list'.loading, Shown, deletes' = deletes,
                      ~Open, ~Leave, ~SelectItem, ~PopState
               PROVE  url'.id = url.id
    BY Zenon
  <2>1. url \in Urls /\ list \in Lists
    BY DEF PageInv, Types
  <2>2. CASE CollapseDrawer \/ ExpandDrawer \/ OnSubmit \/ Delete
    BY <2>2 DEF CollapseDrawer, ExpandDrawer, OnSubmit, Delete
  <2>3. CASE SelectSpan
    BY <2>1, <2>3 DEF SelectSpan, Urls
  <2>4. CASE RunListFetch \/ HandleRefresh
    <3>1. Flush(Loading(list), url, FALSE)
      BY <2>4 DEF RunListFetch, HandleRefresh
    <3>2. Loading(list) \in Lists
      BY <2>1 DEF Loading, Lists
    <3> QED
      BY <2>1, <3>1, <3>2, LoadingKeepsId
  <2>5. ASSUME NEW o \in ops, ListAnswer(o) PROVE url'.id = url.id
    <3>0. o.seq \in 0 .. MaxSeq /\ o.tree \in Tree
      BY DEF PageInv, Types, Ops
    <3>1. CASE StaleFetchEnds(o) \/ SearchFails(o)
      BY <3>1 DEF StaleFetchEnds, SearchFails
    <3>2. CASE FetchReturns(o)
      <4>1. PICK rows \in SUBSET Traces :
              Flush([list EXCEPT !.items = rows, !.loading = FALSE, !.from = o.seq], url, TRUE)
        BY <3>2 DEF FetchReturns
      <4>2. [list EXCEPT !.items = rows, !.loading = FALSE, !.from = o.seq] \in Lists
        BY <2>1, <3>0 DEF Lists
      <4> QED
        BY <2>1, <4>1, <4>2, LoadingKeepsId
    <3>3. CASE FetchFails(o)
      <4>1. Flush([list EXCEPT !.error = TRUE, !.loading = FALSE], url, FALSE)
        BY <3>3 DEF FetchFails
      <4>2. [list EXCEPT !.error = TRUE, !.loading = FALSE] \in Lists
        BY <2>1 DEF Lists
      <4> QED
        BY <2>1, <4>1, <4>2, LoadingKeepsId
    <3>4. CASE SearchReturns(o)
      <4>1. PICK rows \in SUBSET Traces :
              Flush([HandleSearchResults(o, rows) EXCEPT !.tree = o.tree], url, o.seq = seq)
        BY <3>4 DEF SearchReturns
      <4>2. [HandleSearchResults(o, rows) EXCEPT !.tree = o.tree] \in Lists
        BY <2>1, <3>0 DEF HandleSearchResults, Lists
      <4> QED
        BY <2>1, <4>1, <4>2, LoadingKeepsId
    <3> QED
      BY <2>5, <3>1, <3>2, <3>3, <3>4 DEF ListAnswer
  <2>6. ASSUME NEW d \in details, DetailReturns(d) \/ DetailFails(d) PROVE url'.id = url.id
    BY <2>1, <2>6 DEF DetailReturns, DetailFails, Urls
  <2>7. ASSUME NEW x \in deletes, DeleteReturns(x) \/ DeleteFails(x) PROVE FALSE
    <3>1. deletes' = deletes \ {x}
      BY <2>7 DEF DeleteReturns, DeleteFails
    <3> QED
      BY <3>1
  <2> QED
    BY <2>2, <2>3, <2>4, <2>5, <2>6, <2>7 DEF Next, User
<1> QED
  BY <1>1, PageInvariant, PTL DEF Spec, SharedLinkKept
=============================================================================
