---------------------------- MODULE TimeContext ----------------------------
(***************************************************************************)
(* The time context and the router: the window the reader looks at, its    *)
(* mirror in the address (one window per history entry), its copy in       *)
(* localStorage and the recently used ranges.                              *)
(*                                                                         *)
(* Times are small numbers and 0 is the epoch; an entry of the history is  *)
(* an item and a window.  LogsPage composes these steps with a list page.  *)
(* Left out: the time zone, the other parameters of the address            *)
(* (MetricView, TracesPage), the wording of a range.                       *)
(***************************************************************************)
EXTENDS Integers, FiniteSets, Sequences, SequencesExt

CONSTANTS Items,      \* item ids
          Durations,  \* lengths of the presets other than "All"
          MaxRecent,  \* MAX_RECENT_TIME_RANGES
          MaxNow,     \* bound on the clock
          MaxHistory  \* bound on history entries

None == 0

ASSUME TimeContextAssumption ==
  /\ Items \subseteq Nat \ {None} /\ IsFiniteSet(Items) /\ Durations \subseteq 1 .. MaxNow
  /\ {MaxRecent, MaxHistory} \subseteq Nat \ {0} /\ MaxNow \in Nat \ {0, 1}

VARIABLES
  history,   \* the browser's entries: item and window
  pos,       \* the current entry
  selection, \* the time selection: type, start, end
  snapshot,  \* urlWindowSnapshot
  stored,    \* localStorage "time-selection"
  recents,   \* localStorage "datetime-filter-recent"
  now        \* Date.now()

timeVars == <<history, pos, selection, snapshot, stored, recents, now>>

NoWindow == [start |-> 0, end |-> -1]
Unstored == [type |-> "none", start |-> 0, end |-> 0]
Window(s) == [start |-> s.start, end |-> s.end]
Custom(w) == [type |-> "custom", start |-> w.start, end |-> w.end]

\* loadTimeSelection: the stored selection, or all time until now.
LoadTimeSelection(raw) == IF raw = Unstored THEN [type |-> "preset", start |-> 0, end |-> now] ELSE raw

\* Precedence on load is address, then localStorage, then the default.
Opened(w) == IF w = NoWindow THEN LoadTimeSelection(stored) ELSE Custom(w)

\* The page is opened on its own, or by a link to an item and a window.
TimeInit ==
  /\ now = MaxNow - 1 /\ stored = Unstored /\ recents = <<>> /\ pos = 1
  /\ \E id \in Items \cup {None} : LET w == IF id = None THEN NoWindow ELSE [start |-> 0, end |-> now] IN
       history = <<[id |-> id, win |-> w]>> /\ snapshot = w /\ selection = Opened(w)

\* selectionToQueryRangeMs: a preset is a duration that ends now.
QueryRange(s, t) == IF s.type = "preset" THEN [start |-> t - (s.end - s.start), end |-> t] ELSE Window(s)

\* signalIdFromPath
Selected == history[pos].id

----------------------------------------------------------------------------
(* The router.                                                             *)

\* The route subscription: a window other than the one last written or adopted
\* came from outside.
Adopt(w, sel) == IF w \in {NoWindow, snapshot} THEN sel ELSE Custom(w)

\* Listeners run after every write of the history.
Routed(h, p) ==
  /\ history' = h /\ pos' = p
  /\ selection' = Adopt(h[p].win, selection)
  /\ snapshot' = IF h[p].win = NoWindow THEN snapshot ELSE h[p].win
  /\ UNCHANGED <<stored, recents, now>>

Put(id) == [history EXCEPT ![pos].id = id]

\* navigateToItem keeps the window of the current address.
Push(id) ==
  /\ pos < MaxHistory
  /\ Routed(Append(SubSeq(history, 1, pos), [history[pos] EXCEPT !.id = id]), pos + 1)

\* history traversal: popstate notifies the listeners
Traverse(p, id) == p \in 1 .. Len(history) /\ Routed([history EXCEPT ![p].id = id], p)

----------------------------------------------------------------------------
(* The pickers.                                                            *)

\* recordRecentTimeRange: the entry of the range, if there is one, is used now;
\* newest first (the sort is stable: entries of this instant that came before it
\* stay before it), at most MaxRecent.
Record(w, t) ==
  LET at   == SelectInSeq(recents, LAMBDA r : Window(r) = w)
      rest == IF at = 0 THEN recents ELSE RemoveAt(recents, at)
      n    == Cardinality({i \in 1 .. at - 1 : recents[i].usedAt = t})
      all  == InsertAt(rest, n + 1, [start |-> w.start, end |-> w.end, usedAt |-> t])
  IN SubSeq(all, 1, IF Len(all) < MaxRecent THEN Len(all) ELSE MaxRecent)

\* Mutant: the window written is not remembered.
SyncUrl_NoSnapshot(sel, t) ==
  /\ snapshot' = snapshot
  /\ history' = [history EXCEPT ![pos].win = QueryRange(sel, t)]

\* syncUrl: the window as it is at t, in place.
SyncUrl(sel, t) ==
  /\ snapshot' = QueryRange(sel, t)
  /\ history' = [history EXCEPT ![pos].win = QueryRange(sel, t)]

\* setSelection.  The clock is read again for the address, lag later.
SetSelection(sel, lag) ==
  /\ now + lag <= MaxNow
  /\ selection' = sel /\ stored' = sel
  /\ recents' = Record(Window(sel), now)
  /\ SyncUrl(sel, now + lag)
  /\ now' = now + lag /\ UNCHANGED pos

\* applyPreset: "All" starts at the epoch.
ApplyPreset ==
  \E lag \in {0, 1}, start \in {0} \cup {now - d : d \in Durations} :
    start >= 0 /\ SetSelection([type |-> "preset", start |-> start, end |-> now], lag)

\* applyCustom, when validateCustomRange accepts
ApplyCustom ==
  \E end \in 1 .. now : \E start \in 0 .. end - 1 :
    SetSelection(Custom([start |-> start, end |-> end]), 0)

\* applyRecentTimeRange
ApplyRecent ==
  \E r \in ToSet(recents) : SetSelection([type |-> "recent", start |-> r.start, end |-> r.end], 0)

\* createTimeContext: the page is loaded again at the current address.
Reload ==
  /\ selection' = Opened(history[pos].win)
  /\ snapshot' = history[pos].win
  /\ UNCHANGED <<history, pos, stored, recents, now>>

Tick ==
  /\ now < MaxNow /\ now' = now + 1
  /\ UNCHANGED <<history, pos, selection, snapshot, stored, recents>>

----------------------------------------------------------------------------

TimeTypeOK ==
  /\ pos \in 1 .. Len(history) /\ Len(history) <= MaxHistory
  /\ \A e \in ToSet(history) : e.id \in Items \cup {None}
  /\ selection.type \in {"preset", "custom", "recent"} /\ selection.start <= selection.end
  /\ Len(recents) <= MaxRecent
  /\ \A i, j \in 1 .. Len(recents) :
       i < j => Window(recents[i]) # Window(recents[j]) /\ recents[i].usedAt >= recents[j].usedAt

\* The router subscription "compares against this, not the live selection, to
\* tell external changes from our own writes" (time-context.svelte.ts:167): the
\* window in the address, when it has one, is the one the context last wrote or
\* adopted, and the selection is that very window or a preset of its length, so
\* that a link copied now reopens what is on screen.
AddressMirrors ==
  /\ history[pos].win \in {NoWindow, snapshot}
  /\ snapshot # NoWindow =>
       /\ selection.end - selection.start = snapshot.end - snapshot.start
       /\ selection.type # "preset" => Window(selection) = snapshot

=============================================================================
