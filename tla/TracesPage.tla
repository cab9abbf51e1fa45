----------------------------- MODULE TracesPage -----------------------------
(***************************************************************************)
(* The traces page of the frontend: the shared list page (list fetches,    *)
(* URL-driven selection), the search editor in its drawer, the list-update *)
(* sequence that orders their answers, the detail fetch and the ?span=     *)
(* parameter it writes.                                                    *)
(*                                                                         *)
(* JavaScript runs one task at a time, so one event handler or one answer  *)
(* of the server is one action, with the Svelte effects it triggers; what  *)
(* interleaves are the answers, the user and the mounting and unmounting   *)
(* of the page.  An answer to a list request may be any set of traces.     *)
(* Left out: sorting, the refresh badge and its polling, ?event=, and the  *)
(* error banners of the search editor and of deletes.                      *)
(***************************************************************************)
EXTENDS Naturals, FiniteSets

CONSTANTS Traces,     \* trace ids, ordered as the list shows them
          Queries,    \* search expressions
          MaxSeq,     \* bound on list updates
          MaxMounts,  \* bound on mounts of the page
          MaxDeletes  \* bound on deletes in flight

None == 0
NoQuery == "none"

ASSUME TracesAssumption ==
  /\ Traces \subseteq Nat \ {None} /\ IsFiniteSet(Traces)
  /\ NoQuery \notin Queries
  /\ MaxSeq \in Nat /\ MaxMounts \in Nat /\ MaxDeletes \in Nat

\* Two spans per trace; the first one is the first row of the waterfall.
SpansOf(t) == {10 * t, 10 * t + 1}
First(spans) == IF spans = {} THEN None ELSE CHOOSE s \in spans : \A r \in spans : s <= r

VARIABLES
  url,      \* the browser's address: page, selected trace, ?span=
  inst,     \* number of the page component mounted last
  editor,   \* the drawer is open, so a SearchEditor is mounted
  seq,      \* latestListUpdateSeq of the signal
  ops,      \* list fetches and searches in flight that can still report
  list,     \* state of createSignalListPage, and activeQueryTree
  data,     \* traceData: the trace the waterfall shows
  details,  \* searchSpans requests in flight and not aborted
  deletes,  \* delete requests in flight
  lost      \* history: the newest list update has nobody left to report to

vars == <<url, inst, editor, seq, ops, list, data, details, deletes, lost>>

Shown == url.page = "traces"

Bare(page) == [page |-> page, id |-> None, span |-> None]

\* A freshly mounted page.  from is history: the update that produced items.
FreshList == [items |-> {}, loading |-> TRUE, error |-> FALSE, tree |-> NoQuery,
              last |-> 0, from |-> 0]

Init ==
  /\ url = Bare("other") /\ inst = 0 /\ editor \in BOOLEAN
  /\ seq = 0 /\ ops = {} /\ list = FreshList
  /\ data = None /\ details = {} /\ deletes = {} /\ lost = FALSE

----------------------------------------------------------------------------
(* The effects of the page.                                                *)

Index(items, t) == Cardinality({i \in items : i < t})
At(items, n)    == CHOOSE t \in items : Index(items, t) = n

\* resolveFallbackIndex
Fallback(l) ==
  LET top == Cardinality(l.items) - 1 IN At(l.items, IF l.last < top THEN l.last ELSE top)

\* Mutant: the effect does not wait for the list to load.
Reselect_Eager(u, l) ==
  IF u.id \in l.items THEN u
  ELSE [u EXCEPT !.id = IF l.items = {} THEN None ELSE Fallback(l), !.span = None]

\* The selection effect: a selected id that is not in the loaded list gives way
\* to the row that took its place (navigateToItem strips ?span=).
Reselect(u, l) ==
  IF l.loading \/ u.id \in l.items \/ (l.items = {} /\ u.id = None) THEN u
  ELSE [u EXCEPT !.id = IF l.items = {} THEN None ELSE Fallback(l), !.span = None]

\* page.selectedSummary
Selected(u, l) == IF u.id \in l.items THEN u.id ELSE None

\* fetchTraceDetail up to its await: aborts the page's previous request.
FetchTraceDetail(t, tree) ==
  details' = {d \in details : d.inst # inst} \cup {[inst |-> inst, trace |-> t, tree |-> tree]}

\* The page state becomes l under address u, and the effects run: selection
\* first, then the detail effect if something it read has changed (fresh: items
\* was assigned, so the selected summary is a new object).
Flush(l, u, fresh) ==
  LET u1     == Reselect(u, l)
      sel    == Selected(u1, l)
      redraw == \/ sel # Selected(url, list)
                \/ sel # None /\ (fresh \/ l.tree # list.tree)
                \/ sel = None /\ l.loading # list.loading
  IN /\ list' = [l EXCEPT !.last = IF ~l.loading /\ sel # None THEN Index(l.items, sel) ELSE @]
     /\ IF redraw /\ sel # None
        THEN FetchTraceDetail(sel, l.tree) /\ url' = u1 /\ UNCHANGED data
        ELSE /\ UNCHANGED details
             /\ IF redraw /\ ~l.loading
                THEN data' = None /\ url' = [u1 EXCEPT !.span = None]
                ELSE url' = u1 /\ UNCHANGED data

----------------------------------------------------------------------------
(* Mounting, unmounting and the drawer.                                    *)

\* Mounting runs the first list fetch.
Mount(u, s) ==
  /\ inst < MaxMounts
  /\ url' = u
  /\ inst' = inst + 1
  /\ seq' = s + 1
  /\ ops' = ops \cup {[seq |-> s + 1, kind |-> "fetch", tree |-> NoQuery, inst |-> inst + 1]}
  /\ list' = FreshList /\ data' = None /\ lost' = FALSE

\* A tab, a link, a bookmark or the back button leads to the page.
Open ==
  /\ ~Shown
  /\ seq < MaxSeq
  /\ \E t \in Traces \cup {None} :
       \E s \in IF t = None THEN {None} ELSE SpansOf(t) \cup {None} :
         Mount([page |-> "traces", id |-> t, span |-> s], seq)
  /\ UNCHANGED <<editor, details, deletes>>

\* Away from the page: list page and editor both cancelPendingListUpdates, no
\* later answer reaches them; the detail request goes on.
Leave ==
  /\ Shown
  /\ seq < MaxSeq
  /\ url' = Bare("other")
  /\ seq' = seq + 1
  /\ ops' = {} /\ list' = FreshList /\ data' = None /\ lost' = FALSE
  /\ UNCHANGED <<inst, editor, details, deletes>>

\* The drawer is a preference shared by all pages; closing it destroys the
\* SearchEditor, which cancels every pending update of the signal.
CollapseDrawer ==
  /\ Shown /\ editor
  /\ seq < MaxSeq
  /\ editor' = FALSE
  /\ seq' = seq + 1
  /\ ops' = {o \in ops : o.kind = "fetch"}
  /\ lost' = TRUE
  /\ UNCHANGED <<url, inst, list, data, details, deletes>>

ExpandDrawer ==
  /\ Shown /\ ~editor
  /\ editor' = TRUE
  /\ UNCHANGED <<url, inst, seq, ops, list, data, details, deletes, lost>>

----------------------------------------------------------------------------
(* List fetches and searches.                                              *)

FetchOp(s)        == [seq |-> s, kind |-> "fetch", tree |-> NoQuery, inst |-> inst]
SearchOp(s, tree) == [seq |-> s, kind |-> "search", tree |-> tree, inst |-> inst]

\* runListFetch up to its await: the list part of the state.
Loading(l) == [l EXCEPT !.loading = TRUE, !.error = FALSE]

\* The time range changes.
RunListFetch ==
  /\ Shown
  /\ seq < MaxSeq
  /\ seq' = seq + 1
  /\ ops' = ops \cup {FetchOp(seq + 1)}
  /\ lost' = FALSE
  /\ Flush(Loading(list), url, FALSE)
  /\ UNCHANGED <<inst, editor, deletes>>

\* handleRefresh: the cleared editor submits an empty search, then a list
\* fetch supersedes it.
HandleRefresh ==
  /\ Shown
  /\ seq + 1 < MaxSeq
  /\ seq' = seq + 2
  /\ ops' = ops \cup {FetchOp(seq + 2)} \cup (IF editor THEN {SearchOp(seq + 1, NoQuery)} ELSE {})
  /\ lost' = FALSE
  /\ Flush(Loading(list), url, FALSE)
  /\ UNCHANGED <<inst, editor, deletes>>

\* onSubmit with text that parses, or with none (fetchClean).
OnSubmit ==
  /\ Shown /\ editor
  /\ seq < MaxSeq
  /\ \E q \in Queries \cup {NoQuery} : ops' = ops \cup {SearchOp(seq + 1, q)}
  /\ seq' = seq + 1
  /\ lost' = FALSE
  /\ UNCHANGED <<url, inst, editor, list, data, details, deletes>>

\* A superseded list fetch, answered or failed, changes nothing.
StaleFetchEnds(o) ==
  /\ o.kind = "fetch" /\ o.seq # seq
  /\ ops' = ops \ {o}
  /\ UNCHANGED <<url, inst, editor, seq, list, data, details, deletes, lost>>

\* The newest list fetch is answered.
FetchReturns(o) ==
  /\ o.kind = "fetch" /\ o.seq = seq
  /\ ops' = ops \ {o}
  /\ \E rows \in SUBSET Traces :
       Flush([list EXCEPT !.items = rows, !.loading = FALSE, !.from = o.seq], url, TRUE)
  /\ UNCHANGED <<inst, editor, seq, deletes, lost>>

\* Mutant: loading is not reset when the fetch fails.
FetchFails_NoFinally(o) ==
  /\ o.kind = "fetch" /\ o.seq = seq
  /\ ops' = ops \ {o}
  /\ Flush([list EXCEPT !.error = TRUE], url, FALSE)
  /\ UNCHANGED <<inst, editor, seq, deletes, lost>>

FetchFails(o) ==
  /\ o.kind = "fetch" /\ o.seq = seq
  /\ ops' = ops \ {o}
  /\ Flush([list EXCEPT !.error = TRUE, !.loading = FALSE], url, FALSE)
  /\ UNCHANGED <<inst, editor, seq, deletes, lost>>

\* Mutant: results are applied without asking isLatestListUpdate.
HandleSearchResults_Unordered(o, rows) ==
  [list EXCEPT !.items = rows, !.loading = FALSE, !.error = FALSE, !.from = o.seq]

\* signal-list-page's handleSearchResults.
HandleSearchResults(o, rows) ==
  IF o.seq = seq
  THEN [list EXCEPT !.items = rows, !.loading = FALSE, !.error = FALSE, !.from = o.seq]
  ELSE list

\* A search is answered.  TracesPage's own handleSearchResults passes it to the
\* list page, then takes its query tree, newest or not.
SearchReturns(o) ==
  /\ o.kind = "search"
  /\ ops' = ops \ {o}
  /\ \E rows \in SUBSET Traces :
       Flush([HandleSearchResults(o, rows) EXCEPT !.tree = o.tree], url, o.seq = seq)
  /\ UNCHANGED <<inst, editor, seq, deletes, lost>>

\* It fails: the editor shows its error, the list page hears nothing.
SearchFails(o) ==
  /\ o.kind = "search"
  /\ ops' = ops \ {o}
  /\ lost' = (lost \/ o.seq = seq)
  /\ UNCHANGED <<url, inst, editor, seq, list, data, details, deletes>>

----------------------------------------------------------------------------
(* Selection, details and deletes.                                         *)

\* selectItem, selectByOffset, selectFirst, selectLast: a listed row.
SelectItem ==
  /\ Shown
  /\ \E t \in list.items : Flush(list, [url EXCEPT !.id = t, !.span = None], FALSE)
  /\ UNCHANGED <<inst, editor, seq, ops, deletes, lost>>

\* handleSelectSpan
SelectSpan ==
  /\ Shown /\ data # None
  /\ \E s \in SpansOf(data) : url' = [url EXCEPT !.span = s]
  /\ UNCHANGED <<inst, editor, seq, ops, list, data, details, deletes, lost>>

\* Back, forward, or a link to another trace while the page is shown.
PopState ==
  /\ Shown
  /\ \E t \in Traces \cup {None} :
       Flush(list, [url EXCEPT !.id = t, !.span = None], FALSE)
  /\ UNCHANGED <<inst, editor, seq, ops, deletes, lost>>

\* The span fetchTraceDetail wants selected once spans have arrived.
Desired(d, spans, match) ==
  IF d.tree # NoQuery THEN IF match # None THEN match ELSE First(spans)
  ELSE IF url.span \in spans THEN url.span ELSE First(spans)

\* searchSpans answers: the waterfall of the page that asked, and ?span= of
\* whatever page is shown now.
DetailReturns(d) ==
  /\ details' = details \ {d}
  /\ \E spans \in {{}, SpansOf(d.trace)} : \E match \in spans \cup {None} :
       url' = [url EXCEPT !.span = Desired(d, spans, match)]
  /\ data' = IF Shown /\ d.inst = inst THEN d.trace ELSE data
  /\ UNCHANGED <<inst, editor, seq, ops, list, deletes, lost>>

DetailFails(d) ==
  /\ details' = details \ {d}
  /\ url' = [url EXCEPT !.span = None]
  /\ data' = IF Shown /\ d.inst = inst THEN None ELSE data
  /\ UNCHANGED <<inst, editor, seq, ops, list, deletes, lost>>

\* deleteSelectedTrace, or handleDeleteAllTraces (trace None).
Delete ==
  /\ Shown
  /\ Cardinality(deletes) < MaxDeletes
  /\ \E t \in {data, None} : deletes' = deletes \cup {[inst |-> inst, trace |-> t]}
  /\ UNCHANGED <<url, inst, editor, seq, ops, list, data, details, lost>>

\* The delete is done: the selection is cleared if it was the deleted trace,
\* and the page that asked runs a list fetch even if it is gone by now.
DeleteReturns(x) ==
  LET live == Shown /\ x.inst = inst
      hit  == x.trace = None \/ (Shown /\ url.id = x.trace)
  IN
  /\ seq + (IF Shown THEN 0 ELSE 1) < MaxSeq
  /\ deletes' = deletes \ {x}
  /\ IF x.trace = None /\ ~Shown
     THEN Mount(Bare("traces"), seq + 1) /\ UNCHANGED <<details>>
     ELSE /\ seq' = seq + 1
          /\ lost' = (Shown /\ ~live)
          /\ UNCHANGED inst
          /\ LET u == IF hit THEN Bare("traces") ELSE url
             IN IF live
                THEN /\ ops' = ops \cup {FetchOp(seq + 1)}
                     /\ list' = Loading(list) /\ url' = u
                     /\ data' = IF hit THEN None ELSE data
                     /\ UNCHANGED details
                ELSE /\ UNCHANGED ops
                     /\ IF Shown THEN Flush(list, u, FALSE)
                                 ELSE UNCHANGED <<list, url, data, details>>
  /\ UNCHANGED editor

DeleteFails(x) ==
  /\ deletes' = deletes \ {x}
  /\ UNCHANGED <<url, inst, editor, seq, ops, list, data, details, lost>>

----------------------------------------------------------------------------
User == \/ Open \/ Leave \/ CollapseDrawer \/ ExpandDrawer
        \/ RunListFetch \/ HandleRefresh \/ OnSubmit
        \/ SelectItem \/ SelectSpan \/ PopState \/ Delete

ListAnswer(o) == \/ StaleFetchEnds(o) \/ FetchReturns(o) \/ FetchFails(o)
                 \/ SearchReturns(o) \/ SearchFails(o)

Next == \/ User
        \/ \E o \in ops : ListAnswer(o)
        \/ \E d \in details : DetailReturns(d) \/ DetailFails(d)
        \/ \E x \in deletes : DeleteReturns(x) \/ DeleteFails(x)

\* The server answers every list request, with rows or with an error.
Fairness == \A n \in 1 .. MaxSeq : WF_vars(\E o \in ops : o.seq = n /\ ListAnswer(o))

Spec == Init /\ [][Next]_vars /\ Fairness

----------------------------------------------------------------------------
(* Properties.                                                             *)

Tree == Queries \cup {NoQuery}
AllSpans == UNION {SpansOf(t) : t \in Traces}

\* Type invariant; at most one request per page is in flight for the details.
TypeOK ==
  /\ url \in [page : {"traces", "other"}, id : Traces \cup {None}, span : AllSpans \cup {None}]
  /\ inst \in 0 .. MaxMounts /\ editor \in BOOLEAN /\ seq \in 0 .. MaxSeq
  /\ ops \subseteq [seq : 1 .. MaxSeq, kind : {"fetch", "search"}, tree : Tree, inst : 1 .. MaxMounts]
  /\ list \in [items : SUBSET Traces, loading : BOOLEAN, error : BOOLEAN, tree : Tree,
               last : 0 .. Cardinality(Traces), from : 0 .. MaxSeq]
  /\ data \in Traces \cup {None}
  /\ details \subseteq [inst : 1 .. MaxMounts, trace : Traces, tree : Tree]
  /\ \A d, e \in details : d.inst = e.inst => d = e
  /\ deletes \subseteq [inst : 1 .. MaxMounts, trace : Traces \cup {None}]
  /\ lost \in BOOLEAN

\* Once nothing is in flight for the page, the list is the answer to the update
\* that was started last, whatever order the answers came in; otherwise that
\* update failed or was cancelled (signal-list-page.integration.test.ts:117,163).
ListIsNewest ==
  Shown /\ ops = {} => list.from = seq \/ list.error \/ lost

\* Once list and details have settled, the waterfall shows the selected trace
\* or nothing: no late answer paints another trace into the pane.
DetailMatchesSelection ==
  Shown /\ ~list.loading /\ list.items # {} /\ {d \in details : d.inst = inst} = {}
    => data \in {None, url.id}

\* When the page has come to rest it shows one answer throughout, in every order
\* of the answers: list, selection and waterfall are those of the newest request.
PageSettles == TypeOK /\ ListIsNewest /\ DetailMatchesSelection

\* The id of a shared link is not replaced before the list has loaded, except
\* by the user or by a delete (signal-list-page.svelte.ts, selection effect).
SharedLinkKept ==
  [][list.loading /\ list'.loading /\ Shown /\ deletes' = deletes /\ url'.id # url.id
       => Open \/ Leave \/ SelectItem \/ PopState]_vars

\* The loading state ends, unless the newest update was a search that failed or
\* was cancelled by closing the drawer or by a page that is already gone.
LoadingEnds == Shown /\ list.loading ~> ~list.loading \/ lost \/ ~Shown

\* Not so in the code (README, Disagreements).
\* query-params.ts:13, ?span= is "scoped to a selected trace" and "not shared
\* across signals".
SpanParamScoped == url.page = "other" => url.span = None

\* Not so in the code (README, Disagreements).
\* list-update-seq.ts:2-4, "completions apply only if their seq is still the
\* latest for that signal".
StaleCompletionsIgnored ==
  [][\A o \in ops : o.seq # seq /\ SearchReturns(o) => UNCHANGED list]_vars
=============================================================================
