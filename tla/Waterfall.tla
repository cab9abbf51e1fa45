----------------------------- MODULE Waterfall -----------------------------
(***************************************************************************)
(* The span waterfall of one trace: the tree drawn from the rows' depths,  *)
(* what the reader has collapsed (kept per trace outside the component),   *)
(* the search's own shape laid over it, the selection and the keyboard.    *)
(*                                                                         *)
(* One gesture, one arrival of spans or one remount is one action, with    *)
(* the effects that follow.  A span is named by its row.  The server's     *)
(* rows are a preorder walk; refetching a trace may bring another shape.   *)
(* The keyboard handler asks for dataset.spanID, which the attribute       *)
(* data-span-id does not set, so the row keys act on is the selected one.  *)
(* Timeline holds the columns, the ruler and the bars.                     *)
(***************************************************************************)
EXTENDS Timeline

CONSTANTS Traces,     \* trace ids
          Shapes,     \* depth sequences the server may answer with
          MaxTracked, \* MAX_TRACKED_TRACES
          PageStep,   \* GRID_PAGE_STEP
          Times,      \* shape -> its spans, a sequence of [start, end]
          Durations,  \* how long traces may be, for the ruler
          MaxEvents   \* bound on events

None == 0

IsPreorder(s) == \A i \in 1 .. Len(s) : s[i] \in 0 .. (IF i = 1 THEN 0 ELSE s[i - 1] + 1)

ASSUME WaterfallAssumption ==
  /\ \A s \in Shapes : s \in Seq(Nat) /\ IsPreorder(s) /\ Len(Times[s]) = Len(s)
  /\ Durations \subseteq Nat
  /\ {MaxTracked, PageStep} \subseteq Nat \ {0} /\ MaxEvents \in Nat

VARIABLES
  shown,     \* the response: trace, depth of each row, matched rows
  store,     \* collapsedByTrace, in insertion order
  overrides, \* searchOverrides: row -> collapsed
  selected,  \* selectedSpanID
  scroll,    \* lastScrolledSelection, and the row last scrolled to
  arranged,  \* history: what the reader last made of each trace outside a search
  events     \* how many events have happened

treeVars == <<shown, store, overrides, selected, scroll, arranged>>
vars == <<treeVars, columnVars, events>>

NoSpans == [trace |-> None, depth |-> <<>>, matched |-> {}]

Init ==
  /\ shown = NoSpans /\ store = <<>> /\ overrides = <<>> /\ selected = None
  /\ scroll = [last |-> None, to |-> None]
  /\ arranged = [t \in Traces |-> {}] /\ events = 0
  /\ pane \in PaneWidths /\ cols = InitialWidths(pane) /\ resizing = {} /\ fitted = pane

Rows(r) == 1 .. Len(r.depth)

----------------------------------------------------------------------------
(* The rendered tree.                                                      *)

\* buildStructuralMaps: the nearest preceding row one level up.
ParentIn(d, i) ==
  LET up == {j \in 1 .. i - 1 : d[j] = d[i] - 1 /\ \A k \in j + 1 .. i - 1 : d[k] > d[j]}
  IN IF up = {} THEN None ELSE CHOOSE j \in up : TRUE

ParentOf == [d \in Shapes \cup {<<>>} |-> [i \in 1 .. Len(d) |-> ParentIn(d, i)]]

\* ancestorIdsOf, nearest first
AncestorsOf ==
  [d \in Shapes \cup {<<>>} |->
     LET up[i \in 1 .. Len(d)] ==
           IF ParentOf[d][i] = None THEN <<>> ELSE <<ParentOf[d][i]>> \o up[ParentOf[d][i]]
     IN [i \in 1 .. Len(d) |-> up[i]]]

Parent(r, i) == ParentOf[r.depth][i]
Ancestors(r, i) == IF i \in Rows(r) THEN AncestorsOf[r.depth][i] ELSE <<>>
Children(r, i) == {j \in Rows(r) : Parent(r, j) = i}
Descendants(r, i) == {j \in Rows(r) : i \in ToSet(Ancestors(r, j))}

Collapsible(r) == {i \in Rows(r) : Children(r, i) # {}}

\* childrenCounts: a stack of the open rows, by depth.
ChildrenCounts(r) ==
  LET walk[i \in 0 .. Len(r.depth)] ==
        IF i = 0 THEN [stack |-> <<>>, counts |-> [j \in Rows(r) |-> 0]]
        ELSE LET stack == walk[i - 1].stack
                 open == SubSeq(stack, 1, Least(r.depth[i], Len(stack)))
             IN [stack |-> Append(open, i),
                 counts |-> IF r.depth[i] > 0 /\ open # <<>>
                            THEN [walk[i - 1].counts EXCEPT ![Last(open)] = @ + 1] ELSE walk[i - 1].counts]
  IN walk[Len(r.depth)].counts

IsLastChild(r, i) ==
  LET next == {j \in i + 1 .. Len(r.depth) : r.depth[j] <= r.depth[i]}
  IN next = {} \/ r.depth[CHOOSE j \in next : \A k \in next : j <= k] < r.depth[i]

\* ancestorContinuationFlags: the ancestor at depth d has another child below row i.
AncestorContinues(r, i, d) ==
  \E j \in i + 1 .. Len(r.depth) :
     r.depth[j] = d + 1 /\ \A k \in i + 1 .. j : r.depth[k] > d

\* segmentAt
Segment(r, i, d) ==
  IF d = r.depth[i] - 1 THEN IF IsLastChild(r, i) THEN "elbow" ELSE "tee"
  ELSE IF AncestorContinues(r, i, d) THEN "passthrough" ELSE "none"

----------------------------------------------------------------------------
(* What is collapsed, and what is visible.                                 *)

Tracked(t) == \E n \in 1 .. Len(store) : store[n].trace = t

\* collapsedForTrace
CollapsedFor(t) ==
  IF Tracked(t) THEN store[CHOOSE n \in 1 .. Len(store) : store[n].trace = t].rows ELSE {}

\* setCollapsedForTrace: the oldest are evicted for a trace that is not in it.
SetCollapsed(t, S) ==
  IF Tracked(t)
  THEN [n \in 1 .. Len(store) |-> IF store[n].trace = t THEN [store[n] EXCEPT !.rows = S] ELSE store[n]]
  ELSE LET over == Len(store) - MaxTracked + 1
       IN Append(SubSeq(store, IF over > 0 THEN over + 1 ELSE 1, Len(store)), [trace |-> t, rows |-> S])

\* hasActiveSearch
Searching(r) == r.matched # {} /\ r.matched # Rows(r)

\* computeAncestorsOfMatched
AncestorsOfMatched(r) == UNION {ToSet(Ancestors(r, i)) : i \in r.matched}

\* Mutant: a row is kept open for its own match only.
SearchShape_MatchedOnly(r) == {i \in Collapsible(r) : i \notin r.matched \/ Descendants(r, i) \cap r.matched = {}}

\* computeSearchCollapsedParents
SearchShape(r) ==
  LET relevant == r.matched \cup AncestorsOfMatched(r)
  IN {i \in Collapsible(r) : \/ i \notin relevant
                             \/ i \in r.matched /\ Descendants(r, i) \cap relevant = {}}

\* effectiveCollapsed
Collapsed(r, over, user) ==
  IF ~Searching(r) THEN user
  ELSE {i \in SearchShape(r) \cup DOMAIN over : IF i \in DOMAIN over THEN over[i] ELSE TRUE}

CollapsedNow == Collapsed(shown, overrides, CollapsedFor(shown.trace))

\* hasCollapsedAncestor, rowVisibilityMap
Visible(r, collapsed) == {i \in Rows(r) : ToSet(Ancestors(r, i)) \cap collapsed = {}}

VisibleNow == Visible(shown, CollapsedNow)

\* visibleRows, in order
VisibleRows ==
  LET visible == VisibleNow
      rows[i \in 0 .. Len(shown.depth)] ==
        IF i = 0 THEN <<>> ELSE IF i \in visible THEN Append(rows[i - 1], i) ELSE rows[i - 1]
  IN rows[Len(shown.depth)]

----------------------------------------------------------------------------
(* The selection and the scroll that follows it.                           *)

\* revealAndScrollToSpan: the row itself, or its nearest visible ancestor.
RevealRow(r, collapsed, i) ==
  LET up == SelectSeq(<<i>> \o Ancestors(r, i), LAMBDA j : j \in Visible(r, collapsed))
  IN IF up = <<>> THEN None ELSE up[1]

\* the scroll effects: once for each new selection, forgotten with it
Scrolled(s, r, collapsed, id) ==
  IF id = None THEN [s EXCEPT !.last = None]
  ELSE IF id = s.last THEN s
  ELSE [last |-> id, to |-> IF RevealRow(r, collapsed, id) = None THEN s.to
                            ELSE RevealRow(r, collapsed, id)]

\* onSelectSpan
SelectSpan(id) ==
  /\ selected' = id
  /\ scroll' = Scrolled(scroll, shown, CollapsedNow, id)

Click ==
  /\ \E i \in VisibleNow : SelectSpan(i)
  /\ UNCHANGED <<shown, store, overrides, arranged>>

----------------------------------------------------------------------------
(* The writers of the collapse state.                                      *)

\* Mutant: a toggle made during a search is the reader's.
Write_Through(rows, over) ==
  /\ store' = SetCollapsed(shown.trace, rows)
  /\ arranged' = IF Searching(shown) THEN arranged ELSE [arranged EXCEPT ![shown.trace] = rows]
  /\ overrides' = IF Searching(shown) THEN over ELSE overrides

\* the overlay during a search, the reader's own set otherwise
Write(rows, over) ==
  IF Searching(shown)
  THEN overrides' = over /\ UNCHANGED <<store, arranged>>
  ELSE /\ store' = SetCollapsed(shown.trace, rows)
       /\ arranged' = [arranged EXCEPT ![shown.trace] = rows]
       /\ UNCHANGED overrides

ToggleCollapse(i) ==
  Write((CollapsedFor(shown.trace) \cup {i}) \ (CollapsedFor(shown.trace) \cap {i}),
        [j \in DOMAIN overrides \cup {i} |-> IF j = i THEN i \notin CollapsedNow ELSE overrides[j]])

\* the button of a row with children
ToggleRow ==
  /\ \E i \in VisibleNow \cap Collapsible(shown) : ToggleCollapse(i)
  /\ UNCHANGED <<shown, selected, scroll>>

SetAll ==
  /\ Collapsible(shown) # {}
  /\ \E b \in BOOLEAN : Write(IF b THEN Collapsible(shown) ELSE {}, [i \in Collapsible(shown) |-> b])
  /\ UNCHANGED <<shown, selected, scroll>>

\* handleTreeKeys
RightKey ==
  /\ VisibleNow # {} /\ selected \in Rows(shown)
  /\ ChildrenCounts(shown)[selected] > 0 /\ selected \in CollapsedNow
  /\ ToggleCollapse(selected)
  /\ UNCHANGED <<shown, selected, scroll>>

LeftKey ==
  /\ VisibleNow # {} /\ selected \in Rows(shown)
  /\ IF ChildrenCounts(shown)[selected] > 0 /\ selected \notin CollapsedNow
     THEN ToggleCollapse(selected) /\ UNCHANGED <<shown, selected, scroll>>
     ELSE /\ Parent(shown, selected) # None
          /\ SelectSpan(Parent(shown, selected))
          /\ UNCHANGED <<shown, store, overrides, arranged>>

Between(lo, x, hi) == IF x < lo THEN lo ELSE IF x > hi THEN hi ELSE x

\* Mutant: the step is taken among all rows.
KeyTarget_AllRows(delta, rows, from) ==
  Between(1, (IF from = None THEN 0 ELSE from) + delta, Len(shown.depth))

\* KEY_DELTAS, resolveNextPos and navigateVisibleRow: the row a movement key
\* goes to.  Home and End are steps of the whole length.
KeyTarget(delta, rows, from) ==
  IF from \notin ToSet(rows) THEN rows[1]
  ELSE rows[Between(1, (CHOOSE p \in 1 .. Len(rows) : rows[p] = from) + delta, Len(rows))]

Deltas == {-1, 1, -PageStep, PageStep, -Len(shown.depth), Len(shown.depth)}

\* handleGridKeydown
MoveKey(delta) ==
  /\ VisibleNow # {}
  /\ KeyTarget(delta, VisibleRows, selected) # selected
  /\ SelectSpan(KeyTarget(delta, VisibleRows, selected))
  /\ UNCHANGED <<shown, store, overrides, arranged>>

----------------------------------------------------------------------------
(* The page: responses, and the component's remounts.                      *)

\* A new response resets the overlay.  A refetch leaves the selection; another
\* trace brings its own, or none.
Arrive ==
  \E t \in Traces, s \in Shapes : \E hits \in SUBSET (1 .. Len(s)) :
    LET r == [trace |-> t, depth |-> s, matched |-> hits] IN
    /\ shown' = r /\ overrides' = <<>>
    /\ IF t = shown.trace THEN selected' = selected ELSE selected' \in {None, 1, Len(s)}
    /\ scroll' = Scrolled(scroll, r, Collapsed(r, <<>>, CollapsedFor(t)), selected')
    /\ UNCHANGED <<store, arranged>>

\* The page's loading state recreates the component: only the store is kept.
Remount ==
  /\ overrides' = <<>>
  /\ scroll' = Scrolled([last |-> None, to |-> None], shown,
                        Collapsed(shown, <<>>, CollapsedFor(shown.trace)), selected)
  /\ cols' = InitialWidths(pane) /\ resizing' = {} /\ fitted' = pane
  /\ UNCHANGED <<shown, store, selected, arranged, pane>>

TreeStep ==
  \/ Arrive \/ Click \/ ToggleRow \/ SetAll \/ RightKey \/ LeftKey
  \/ \E delta \in Deltas : MoveKey(delta)

Next ==
  /\ events < MaxEvents
  /\ events' = events + 1
  /\ \/ TreeStep /\ UNCHANGED columnVars
     \/ Remount
     \/ ColumnStep /\ UNCHANGED treeVars

Spec == Init /\ [][Next]_vars

----------------------------------------------------------------------------
(* Properties.                                                             *)

TypeOK ==
  /\ shown = NoSpans \/ (shown.trace \in Traces /\ shown.depth \in Shapes)
  /\ shown.matched \subseteq Rows(shown)
  /\ Len(store) <= MaxTracked
  /\ \A m, n \in 1 .. Len(store) : store[m].trace = store[n].trace => m = n
  /\ DOMAIN overrides \subseteq Collapsible(shown)

\* "Clearing the search puts the reader's own arrangement back exactly, because
\* it was never touched" and "returning to a trace finds it as it was left"
\* (WaterfallView.svelte:496, waterfall-collapse-store.ts:15): outside a search
\* a trace that was not evicted is collapsed exactly as the reader last left it,
\* whatever searches, refetches, remounts and other traces came in between.
ArrangementRestored ==
  ~Searching(shown) /\ Tracked(shown.trace) => CollapsedNow = arranged[shown.trace]

\* The store that remembers it tracks each trace once and no more than it may.
CollapseKept == TypeOK /\ ArrangementRestored

\* A search folds away the branches with no match and only those: until the
\* reader touches the overlay every matched row is on screen.
MatchesShown == Searching(shown) /\ overrides = <<>> => shown.matched \subseteq VisibleNow

\* What the gutter draws below a row, and above one, in column d.
LineBelow(i, d) ==
  IF d = shown.depth[i] THEN Children(shown, i) # {} /\ i \notin CollapsedNow
  ELSE d < shown.depth[i] /\ Segment(shown, i, d) \in {"tee", "passthrough"}
LineAbove(i, d) == d < shown.depth[i] /\ Segment(shown, i, d) # "none"

\* The connectors are computed from all rows and drawn between the visible ones:
\* under any collapse state each line that leaves a row enters the next visible
\* row in the same column and no other does, the last row's lines end, and the
\* child count on a row's button is that of the tree that collapses.
GutterLinesMeet ==
  LET rows == VisibleRows IN
  /\ \A p \in 1 .. Len(rows) : \A d \in 0 .. Len(shown.depth) :
       LineBelow(rows[p], d) <=> p < Len(rows) /\ LineAbove(rows[p + 1], d)
  /\ \A i \in Rows(shown) : ChildrenCounts(shown)[i] = Cardinality(Children(shown, i))

\* What is folded away hides no match and tears no line.
TreeDrawnWhole == MatchesShown /\ GutterLinesMeet

\* Clicks and keys never select a row the reader cannot see, whatever is folded
\* away and wherever the selection was hidden; the one exception is the left key
\* on a hidden selection, which goes to its parent (handleGridKeydown).
SelectionMovesOnScreen ==
  [][(selected' # selected /\ UNCHANGED <<shown, store, overrides>>) =>
       \/ selected' \in VisibleNow
       \/ selected \in Rows(shown) \ VisibleNow /\ selected' = Parent(shown, selected)]_vars

\* No column is ever below its least width; and however the pane was stretched
\* and the columns dragged, unless its last change came in the middle of a drag,
\* they are together never narrower than the pane, a pixel of rounding apiece
\* aside (column-resize.ts: dragging moves width between two columns, "both are
\* clamped at their min").
ColumnsFill ==
  /\ \A i \in DOMAIN cols : cols[i] >= Columns[i].min
  /\ fitted = pane => Added(cols) + Len(cols) >= pane

\* Not so in the code (README, Disagreements).
\* redistributeWidths' comment has the difference "spread across
\* flex columns proportionally ..., respecting minimums" (column-resize.ts:34), but
\* what a column at its least cannot give is counted and then dropped, and the
\* columns outgrow a pane that had room for them all.
PaneHoldsColumns ==
  fitted = pane /\ pane >= Added([i \in DOMAIN Columns |-> Columns[i].min])
    => Added(cols) <= pane

\* About as many ticks as labels fit, never cut short by the cap, in whole units.
AxisReads ==
  [n \in TickSteps |-> \A d \in Durations :
     LET axis == WaterfallTimeAxis(d, n)
         count == Len(axis.ticks)
     IN /\ d >= n => n < 2 * count /\ count <= 2 * n
        /\ axis.step % axis.unit = 0
        /\ axis.ticks[count] <= d /\ d < axis.ticks[count] + axis.step]

\* A bar lies on its side of every grid line.
BarsMeetTheGrid ==
  [s \in Shapes, n \in TickSteps |->
     LET spans == Times[s]
         whole == Duration(spans)
     IN \A i \in DOMAIN spans :
          /\ Bar(spans, i).left \in 0 .. 10000
          /\ \A at \in ToSet(WaterfallTimeAxis(whole, n).ticks) :
               /\ Bar(spans, i).left < Percent(at, whole)
                    => spans[i].start - TraceBounds(spans).start < at
               /\ Bar(spans, i).left + Bar(spans, i).width + 1 < Percent(at, whole)
                    => spans[i].end - TraceBounds(spans).start < at]

\* The ruler of every trace at every width: about as many ticks as labels fit,
\* never cut short by the cap, in whole units of one size; and under it a bar
\* starts left of a grid line only if its span starts before that instant,
\* though the two are rounded on their own, and ends left of it likewise, give or
\* take a hundredth of a percent; no bar starts off the timeline.
RulerTellsTime ==
  /\ AxisReads[TargetTickCount]
  /\ shown # NoSpans => BarsMeetTheGrid[shown.depth, TargetTickCount]
=============================================================================
