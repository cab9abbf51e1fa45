----------------------------- MODULE WaterfallMC -----------------------------
(***************************************************************************)
(* A small instance of Waterfall: a tree of depth two, and the same spans  *)
(* before the second one's parent arrived (an orphan is a root), on their  *)
(* clocks; the columns as the page has them, and three units of time a     *)
(* thousand and sixty apart.                                               *)
(***************************************************************************)
EXTENDS Waterfall

Sp(s, e) == [start |-> s, end |-> e]

MCShapes == {<<0, 1, 2, 1>>, <<0, 1, 0, 1>>}
MCTimes ==
  (<<0, 1, 2, 1>> :> <<Sp(7, 3509), Sp(8, 2007), Sp(1000, 1000), Sp(2007, 3508)>>)
    @@ (<<0, 1, 0, 1>> :> <<Sp(7, 3509), Sp(8, 2007), Sp(5, 1000), Sp(2007, 4100)>>)
MCUnits == <<1, 1000, 60000>>
MCColumns == <<[min |-> 140, flex |-> 2], [min |-> 100, flex |-> 1], [min |-> 240, flex |-> 4]>>
MCDurations == {0, 1, 5, 11, 20, 999, 1200, 6999, 20999, 59999, 80000, 720000}
MCDrags == {-400, 0, 400}

=============================================================================
