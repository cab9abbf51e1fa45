---------------------------- MODULE TelemetryView ----------------------------
(***************************************************************************)
(* What the store promises its readers.  Telemetry rows appear and         *)
(* disappear; a row is shown with everything that was sent with it from    *)
(* the moment it appears, and is never altered while it stays.  The        *)
(* dictionary, its cache and its sweeps do not exist at this level.        *)
(***************************************************************************)
VARIABLE view    \* records [key, sent, shown]

Init == view = {}

\* An appender or an upsert commits: complete rows under new keys.
Publish ==
  /\ view \subseteq view'
  /\ \A v \in view' \ view : /\ v.shown = v.sent
                             /\ \A w \in view : w.key # v.key

\* A delete, a clear or retention removes rows.
Retract == view' \subseteq view

Next == Publish \/ Retract

Spec == Init /\ [][Next]_view
=============================================================================
