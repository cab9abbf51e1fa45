----------------------------- MODULE LogsPage -----------------------------
(***************************************************************************)
(* The logs page over the time context and the router: the list and its    *)
(* fetch in two calls, the selection that follows the address, the         *)
(* debounced detail fetcher, the refresh badge and deletes.                *)
(*                                                                         *)
(* A log is named by its timestamp.  One user event, one answer or one     *)
(* timer is one action, with the effects that follow it (Flush).  Left     *)
(* out: searches and leaving the page (TracesPage), rendering.             *)
(***************************************************************************)
EXTENDS TimeContext

CONSTANTS MaxCalls, \* bound on list fetches in flight
          MaxEvents \* bound on events

ASSUME LogsPageAssumption == MaxCalls \in Nat \ {0} /\ MaxEvents \in Nat

VARIABLES
  server,  \* logs in the store
  list,    \* items, loading, failed, the selection they were fetched for, direction
  last,    \* lastValidIndex
  seq,     \* the latest list update
  fetches, \* list fetches in flight
  detail,  \* the detail fetcher: key, data, loading, error, timer
  gets,    \* getLog calls in flight, with the answer the server gave
  badge,   \* baselineLogCount, polledLogCount, refreshPulse
  deletes, \* deletes in flight
  events   \* how many events have happened

pageVars == <<server, list, last, seq, fetches, detail, gets, badge, deletes, events>>
vars == <<timeVars, pageVars>>

Cleared == [key |-> None, data |-> None, loading |-> FALSE, error |-> FALSE, timer |-> FALSE]
FirstList == [items |-> {}, loading |-> TRUE, failed |-> FALSE, for |-> Unstored, desc |-> TRUE]

Fresh(id) == IF id = None THEN Cleared ELSE [Cleared EXCEPT !.key = id, !.loading = TRUE, !.timer = TRUE]

\* fetchList: searchLogs answers for the window and the store as they are now;
\* getStats follows when it has.
Fetch(n, sel, t, logs) ==
  [seq |-> n, for |-> sel,
   items |-> {l \in logs : QueryRange(sel, t).start <= l /\ l <= QueryRange(sel, t).end}]

Init ==
  /\ TimeInit
  /\ server = {l \in Items : l < now} /\ list = FirstList /\ last = 0 /\ seq = 1
  /\ fetches = {Fetch(1, selection, now, server)} /\ detail = Fresh(Selected) /\ gets = {}
  /\ badge = [base |-> 0, polled |-> 0, pulse |-> FALSE] /\ deletes = {} /\ events = 0

----------------------------------------------------------------------------
(* The list's effects.                                                     *)

\* compareLogs on timestamps
Before(l, a, b) == IF l.desc THEN a > b ELSE a < b

\* The place of a listed item, and the item at a place.
Index(l, id) == Cardinality({i \in l.items : Before(l, i, id)})
At(l, n)     == CHOOSE id \in l.items : Index(l, id) = n

\* resolveFallbackIndex
Fallback(l) == LET top == Cardinality(l.items) - 1 IN At(l, IF last < top THEN last ELSE top)

\* The reselect effect: the item the address is given, None for the bare list.
Reselect(l, id) ==
  IF l.loading \/ id \in l.items THEN id
  ELSE IF l.items = {} THEN None ELSE Fallback(l)

\* lastValidIndex follows the selection while the list is not loading.
LastIndex(l, id) == IF l.loading \/ id \notin l.items THEN last ELSE Index(l, id)

\* The detail fetcher's effect: clear or schedule.
Key(id) ==
  IF id = detail.key THEN detail
  ELSE IF id = None THEN Cleared
  ELSE [detail EXCEPT !.key = id, !.loading = TRUE, !.error = FALSE, !.timer = TRUE]

\* Flush with list l, when the address names id: what the address names in the end.
Flush(l, id) ==
  /\ list' = l
  /\ last' = LastIndex(l, Reselect(l, id))
  /\ detail' = Key(Reselect(l, id))

\* runListFetch, with the selection and the clock of the new state
Begin(logs) ==
  /\ Cardinality(fetches) < MaxCalls
  /\ seq' = seq + 1
  /\ fetches' = fetches \cup {Fetch(seq + 1, selection', now', logs)}

Loading(l) == [l EXCEPT !.loading = TRUE, !.failed = FALSE]

Quiet == UNCHANGED <<server, gets, badge, deletes>>

----------------------------------------------------------------------------
(* The reader and the environment.                                         *)

\* A picker: the window and the address change, the list is fetched.
Pick ==
  /\ ApplyPreset \/ ApplyCustom \/ ApplyRecent
  /\ Begin(server) /\ Flush(Loading(list), Selected) /\ Quiet

\* Back and forward.  The reselect effect runs before the effect that fetches
\* for an adopted window, so it still sees the list of the old one.
Travel ==
  /\ \E p \in {pos - 1, pos + 1} \cap 1 .. Len(history) :
       LET id == Reselect(list, history[p].id) IN
       /\ Traverse(p, id)
       /\ IF selection' # selection THEN Begin(server) ELSE UNCHANGED <<seq, fetches>>
       /\ Flush(IF selection' # selection THEN Loading(list) ELSE list, id)
  /\ Quiet

SelectItem ==
  /\ \E id \in list.items : Push(id) /\ Flush(list, id)
  /\ UNCHANGED <<seq, fetches>> /\ Quiet

\* selectByOffset, selectFirst, selectLast replace the entry.
SelectByOffset ==
  /\ Selected \in list.items
  /\ \E i \in {Index(list, Selected) - 1, Index(list, Selected) + 1}
                \cap 0 .. Cardinality(list.items) - 1 :
       Routed(Put(At(list, i)), pos) /\ Flush(list, At(list, i))
  /\ UNCHANGED <<seq, fetches>> /\ Quiet

HandleSortChange ==
  /\ Flush([list EXCEPT !.desc = ~@], Selected)
  /\ UNCHANGED <<seq, fetches, timeVars>> /\ Quiet

HandleRefresh ==
  /\ UNCHANGED timeVars
  /\ Begin(server) /\ Flush(Loading(list), Selected) /\ Quiet

\* The page is loaded again at the current address.
ReloadPage ==
  /\ Reload
  /\ list' = FirstList /\ last' = 0 /\ seq' = 1 /\ fetches' = {Fetch(1, selection', now, server)}
  /\ detail' = Fresh(Selected)
  /\ gets' = {} /\ deletes' = {}
  /\ badge' = [base |-> 0, polled |-> 0, pulse |-> FALSE]
  /\ UNCHANGED server

Ingest ==
  /\ \E l \in Items \ server : l <= now /\ server' = server \cup {l}
  /\ UNCHANGED <<timeVars, list, last, seq, fetches, detail, gets, badge, deletes>>

PassTime == Tick /\ UNCHANGED <<server, list, last, seq, fetches, detail, gets, badge, deletes>>

\* handleDeleteLog of the log shown
Delete ==
  /\ Selected # None /\ deletes' = deletes \cup {Selected}
  /\ UNCHANGED <<timeVars, server, list, last, seq, fetches, detail, gets, badge>>

\* refreshFromStats
Pulse(b) == [b EXCEPT !.pulse = b.polled > b.base]

\* pollStats every three seconds
Poll ==
  /\ badge' = Pulse([badge EXCEPT !.polled = Cardinality(server)])
  /\ UNCHANGED <<timeVars, server, list, last, seq, fetches, detail, gets, deletes>>

----------------------------------------------------------------------------
(* Answers and timers.                                                     *)

\* Mutant: the sequence is not compared.
Latest_Any(f) == TRUE

\* isLatestListUpdate
Latest(f) == f.seq = seq

\* The list is applied, and the address reconciled with it.
Apply(l) ==
  /\ Routed(Put(Reselect(l, Selected)), pos)
  /\ Flush(l, Selected)

\* The baseline is assigned before the sequence is compared.
FetchReturns(f) ==
  LET counted == [badge EXCEPT !.base = Cardinality(server), !.polled = Cardinality(server)] IN
  /\ fetches' = fetches \ {f}
  /\ IF Latest(f)
     THEN /\ Apply([list EXCEPT !.items = f.items, !.for = f.for, !.loading = FALSE])
          /\ badge' = Pulse(counted)
     ELSE badge' = counted /\ UNCHANGED <<timeVars, list, last, detail>>
  /\ UNCHANGED <<server, seq, gets, deletes, events>>

\* Mutant: loading is reset on success only.
FetchFails_StaysLoading(f) ==
  /\ fetches' = fetches \ {f}
  /\ IF Latest(f) THEN Apply([list EXCEPT !.failed = TRUE])
     ELSE UNCHANGED <<timeVars, list, last, detail>>
  /\ UNCHANGED <<server, seq, gets, badge, deletes, events>>

FetchFails(f) ==
  /\ fetches' = fetches \ {f}
  /\ IF Latest(f) THEN Apply([list EXCEPT !.failed = TRUE, !.loading = FALSE])
     ELSE UNCHANGED <<timeVars, list, last, detail>>
  /\ UNCHANGED <<server, seq, gets, badge, deletes, events>>

\* The debounce ends: schedule's timer fires for the current key.
TimerFires ==
  /\ detail.timer
  /\ detail' = [detail EXCEPT !.timer = FALSE]
  /\ gets' = gets \cup {[key |-> detail.key, found |-> detail.key \in server]}
  /\ UNCHANGED <<timeVars, server, list, last, seq, fetches, badge, deletes, events>>

\* keysEqual(key, forKey)
Current(g) == g.key = detail.key

\* getLog answers with the log or fails (it may be gone).
GetReturns(g) ==
  /\ gets' = gets \ {g}
  /\ \E ok \in {g.found, FALSE} :
       detail' = IF ~Current(g) THEN detail
                 ELSE [detail EXCEPT !.loading = FALSE, !.data = IF ok THEN g.key ELSE None,
                                     !.error = ~ok \/ @]
  /\ UNCHANGED <<timeVars, server, list, last, seq, fetches, badge, deletes, events>>

\* handleDeleteLog goes on: the selection is dropped and the list fetched in one
\* turn, so the reselect effect finds it loading.
DeleteReturns(l) ==
  /\ deletes' = deletes \ {l} /\ server' = server \ {l}
  /\ Routed(Put(IF Selected = l THEN None ELSE Selected), pos)
  /\ Begin(server \ {l}) /\ Flush(Loading(list), IF Selected = l THEN None ELSE Selected)
  /\ UNCHANGED <<gets, badge, events>>

DeleteFails(l) ==
  /\ deletes' = deletes \ {l}
  /\ UNCHANGED <<timeVars, server, list, last, seq, fetches, detail, gets, badge, events>>

Event ==
  /\ events < MaxEvents /\ events' = events + 1
  /\ \/ Pick \/ Travel \/ SelectItem \/ SelectByOffset \/ HandleSortChange
     \/ HandleRefresh \/ ReloadPage \/ Ingest \/ PassTime \/ Delete \/ Poll

Answer ==
  \/ \E f \in fetches : FetchReturns(f) \/ FetchFails(f)
  \/ TimerFires
  \/ \E g \in gets : GetReturns(g)
  \/ \E l \in deletes : DeleteReturns(l) \/ DeleteFails(l)

Next == Event \/ Answer

\* Calls answer and timers fire.
Spec == Init /\ [][Next]_vars /\ WF_vars(Answer)

----------------------------------------------------------------------------
(* Properties.                                                             *)

TypeOK ==
  /\ TimeTypeOK
  /\ server \subseteq Items /\ list.items \subseteq Items /\ deletes \subseteq Items
  /\ detail.key \in Items \cup {None} /\ detail.data \in Items \cup {None}
  /\ \A f \in fetches : f.seq <= seq

\* "We'd paint A's content into B's pane" (debounced-detail-fetcher:12-16): a
\* panel that is not loading shows the log that is selected, an error or
\* nothing, in whatever order the answers of earlier keys arrive.
DetailMatchesKey == ~detail.loading /\ detail.data # None => detail.data = detail.key

\* Address, window and panel belong together in every state, answers still out
\* included (AddressMirrors is TimeContext's).
PageConsistent == TypeOK /\ AddressMirrors /\ DetailMatchesKey

Idle == fetches = {} /\ gets = {} /\ deletes = {} /\ ~detail.timer

\* When no call is in flight the page agrees with itself: the list was fetched
\* for the window now selected (or that fetch failed), the address names a row
\* of the list or the bare page, and the panel has the named log or an error.
RestIsConsistent ==
  Idle => /\ ~list.loading /\ (~list.failed => list.for = selection)
          /\ IF list.items = {} THEN Selected = None ELSE Selected \in list.items
          /\ detail.key = Selected
          /\ Selected # None => detail.data = Selected \/ detail.error

\* Every spinner ends once the reader pauses.
ComesToRest == <>[](~list.loading /\ ~detail.loading)

\* Not so in the code (README, Disagreements).
\* "Guarded behind mounted + !loading so a URL-provided id (shared link) is
\* never replaced before the list has finished fetching"
\* (signal-list-page.svelte.ts:150): going back or forward to an entry with
\* another window keeps the item it names.
TravelKeepsItem ==
  [][selection' # selection /\ pos' \in {pos - 1, pos + 1} /\ Len(history') = Len(history)
       => history'[pos'].id = history[pos'].id]_vars

=============================================================================
