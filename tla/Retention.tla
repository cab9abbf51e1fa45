------------------------------ MODULE Retention ------------------------------
(***************************************************************************)
(* The retention loop of the duckdb extension over the store it prunes.    *)
(*                                                                         *)
(* Telemetry is counted per signal and timestamp; every row weighs one     *)
(* unit of the store's size.  So do a shared dictionary row, whether       *)
(* anything refers to it or not, and a deleted row until the next          *)
(* checkpoint.  One action is one section under Store.mu: StoreLocks shows *)
(* such sections do not overlap, so what interleaves here is what the lock *)
(* lets in between them: ingests, clears and deletes-by-id, between any    *)
(* two rounds of a pass.                                                   *)
(***************************************************************************)
EXTENDS Integers, FiniteSets

CONSTANTS Times,      \* timestamps telemetry can carry
          Burst,      \* rows one export puts at one timestamp
          Ulp,        \* the gap between neighbouring doubles of a timestamp's size
          MaxBytes,   \* the cap, in units
          MaxExports, \* bound on exports
          MaxDeletes  \* bound on deletes and clears

RetentionSignals == {"spans", "logs", "datapoints"}

\* pruneFraction is 1/10 and maxPruneRounds 3.
PruneDenominator == 10
MaxPruneRounds   == 3

ASSUME RetentionAssumption ==
  /\ Times \subseteq Nat /\ IsFiniteSet(Times)
  /\ Burst \in Nat \ {0} /\ MaxBytes \in Nat \ {0} /\ Ulp \in Nat \ {0}
  /\ MaxExports \in Nat /\ MaxDeletes \in Nat

VARIABLES
  rows,     \* rows[s][t]: rows of signal s stored at time t
  bare,     \* metric_ingests rows that never had a datapoint (summaries)
  dict,     \* dictionary rows: one per <<signal, time>> ever written and unswept
  dead,     \* rows deleted since the last checkpoint
  phase,       \* retention loop: waiting for its ticker, sweeping, or pruning
  round,    \* prune rounds done in this pass
  touched,  \* rows were deleted outside the pass since its last checkpoint
  ingests, deletes

retentionVars == <<rows, bare, dict, dead, phase, round, touched, ingests, deletes>>
budget == <<ingests, deletes>>

\* The rows of signal s up to time t, as pairs of a time and a number.
UpTo(s, t) == {r \in Times \X (1 .. MaxExports * Burst) : r[1] <= t /\ r[2] <= rows[s][r[1]]}

Newest   == CHOOSE t \in Times : \A u \in Times : u <= t
Count(s) == Cardinality(UpTo(s, Newest))
Live     == Count("spans") + Count("logs") + Count("datapoints")
Pinned   == {d \in dict : rows[d[1]][d[2]] > 0}

\* sizeBytes: the file plus its WAL, or duckdb_memory().
Size == Live + bare + Cardinality(dict) + dead

RetentionInit ==
  /\ rows = [s \in RetentionSignals |-> [t \in Times |-> 0]]
  /\ bare = 0 /\ dict = {} /\ dead = 0
  /\ phase = "wait" /\ round = 0 /\ touched = FALSE
  /\ ingests = 0 /\ deletes = 0

----------------------------------------------------------------------------
(* What the rest of the system does to the store.                          *)

\* An export: a burst of rows that share a timestamp, as every datapoint of
\* one metric collection does.
IngestBurst ==
  /\ ingests < MaxExports
  /\ \E s \in RetentionSignals, t \in Times :
       /\ rows' = [rows EXCEPT ![s][t] = @ + Burst]
       /\ dict' = dict \cup {<<s, t>>}
  /\ ingests' = ingests + 1
  /\ UNCHANGED <<bare, dead, phase, round, touched, deletes>>

\* A summary metric: a metric_ingests row and no datapoint.
IngestSummary ==
  /\ ingests < MaxExports
  /\ bare' = bare + 1
  /\ ingests' = ingests + 1
  /\ UNCHANGED <<rows, dict, dead, phase, round, touched, deletes>>

\* deleteSpanByID, deleteSpansByTraceID, deleteLogByID: neither a sweep nor a
\* checkpoint.
DeleteByID ==
  /\ deletes < MaxDeletes
  /\ \E s \in RetentionSignals \ {"datapoints"}, t \in Times :
       /\ rows[s][t] > 0
       /\ rows' = [rows EXCEPT ![s][t] = @ - 1]
  /\ dead' = dead + 1
  /\ touched' = TRUE
  /\ deletes' = deletes + 1
  /\ UNCHANGED <<bare, dict, phase, round, ingests>>

\* deleteMetricStream: the metric_ingests rows of one stream and the datapoints
\* under them, any part of what is there; neither a sweep nor a checkpoint.
DeleteStream ==
  /\ deletes < MaxDeletes
  /\ \E left \in [Times -> 0 .. MaxExports * Burst] :
       /\ \A t \in Times : left[t] <= rows["datapoints"][t]
       /\ rows' = [rows EXCEPT !["datapoints"] = left]
  /\ bare' \in 0 .. bare
  /\ <<rows', bare'>> # <<rows, bare>>
  /\ dead' = dead + (Live + bare) - (Live' + bare')
  /\ touched' = TRUE
  /\ deletes' = deletes + 1
  /\ UNCHANGED <<dict, phase, round, ingests>>

\* clearTraces, clearLogs, clearMetrics: the rows and, by SweepOrphans, every
\* dictionary row nothing refers to any more; no checkpoint.
Clear ==
  /\ deletes < MaxDeletes
  /\ \E s \in RetentionSignals :
       /\ rows' = [rows EXCEPT ![s] = [t \in Times |-> 0]]
       /\ bare' = IF s = "datapoints" THEN 0 ELSE bare
       /\ dict' = {d \in Pinned : d[1] # s}
       /\ dead' = dead + Count(s) + (bare - bare') + Cardinality(dict \ dict')
  /\ touched' = TRUE
  /\ deletes' = deletes + 1
  /\ UNCHANGED <<phase, round, ingests>>

----------------------------------------------------------------------------
(* The retention pass.                                                     *)

\* Mutant: the round counter survives from one pass to the next.
Tick_KeepsRound ==
  /\ phase = "wait"
  /\ phase' = "sweep"
  /\ UNCHANGED <<rows, bare, dict, dead, round, touched, budget>>

\* runRetentionLoop's ticker starts EnforceRetention.
Tick ==
  /\ phase = "wait"
  /\ phase' = "sweep"
  /\ round' = 0
  /\ UNCHANGED <<rows, bare, dict, dead, touched, budget>>

\* Mutant: no checkpoint after the sweep, so the second measurement finds the
\* size unchanged.
RetentionSweep_NoCheckpoint ==
  /\ phase = "sweep"
  /\ Size > MaxBytes
  /\ dict' = Pinned
  /\ dead' = dead + Cardinality(dict \ Pinned)
  /\ touched' = FALSE
  /\ phase' = "prune"
  /\ UNCHANGED <<rows, bare, round, budget>>

\* sweepIfOverCap over the cap: SweepOrphans, checkpoint, measure again.
RetentionSweep ==
  /\ phase = "sweep"
  /\ Size > MaxBytes
  /\ dict' = Pinned
  /\ dead' = 0
  /\ touched' = FALSE
  /\ phase' = IF Live + bare + Cardinality(Pinned) <= MaxBytes THEN "wait" ELSE "prune"
  /\ UNCHANGED <<rows, bare, round, budget>>

\* sweepIfOverCap or enforceRound under the cap: nothing is done, the pass ends.
Fits ==
  /\ phase \in {"sweep", "prune"}
  /\ Size <= MaxBytes
  /\ phase' = "wait"
  /\ UNCHANGED <<rows, bare, dict, dead, round, touched, budget>>

\* The n-th smallest timestamp of a signal.
Nth(s, n) == CHOOSE t \in Times : /\ Cardinality(UpTo(s, t)) >= n
                                  /\ \A u \in Times : u < t => Cardinality(UpTo(s, u)) < n

\* The times of the two rows around the percentile.
TenthStarts(s) == Nth(s, ((Count(s) - 1) \div PruneDenominator) + 1)
TenthEnds(s)   == IF (Count(s) - 1) % PruneDenominator = 0 THEN TenthStarts(s)
                  ELSE Nth(s, ((Count(s) - 1) \div PruneDenominator) + 2)

\* A timestamp as a double: the nearest one, at a tie the even one.
Double(t) ==
  LET over == t % Ulp
  IN IF 2 * over < Ulp \/ (2 * over = Ulp /\ (t \div Ulp) % 2 = 0) THEN t - over ELSE t - over + Ulp

\* pruneCutoff: cast(quantile_cont(time, pruneFraction) as bigint).  The column
\* is a bigint and the aggregate works in doubles: it casts the row at the
\* percentile, or interpolates between the casts of the two rows around it, a sum
\* of rounded products that ends at most two gaps from the exact value.
PruneCutoff(s) ==
  LET part == (Count(s) - 1) % PruneDenominator
      lo   == Double(TenthStarts(s))
      hi   == Double(TenthEnds(s))
      gaps == (PruneDenominator * lo + part * (hi - lo)) \div (PruneDenominator * Ulp)
  IN IF part = 0 THEN {lo} ELSE {Ulp * k : k \in gaps - 1 .. gaps + 2}

\* What the prune of a signal, one of sigs, may leave of its rows; an empty table
\* returns at once.
Left(s, sigs) ==
  IF s \notin sigs \/ Count(s) = 0 THEN {rows[s]}
  ELSE {[t \in Times |-> IF t < cutoff THEN 0 ELSE rows[s][t]] : cutoff \in PruneCutoff(s)}

\* The rows the prunes of the signals sigs may leave.
Pruned(sigs) ==
  {[s \in RetentionSignals |-> CASE s = "spans" -> spans [] s = "logs" -> logs [] OTHER -> datapoints] :
     spans \in Left("spans", sigs), logs \in Left("logs", sigs), datapoints \in Left("datapoints", sigs)}

\* pruneOldestDatapoints also drops every metric_ingests row without a
\* datapoint, unless it returned at once because there is no datapoint.
BareAfter(sigs) == IF "datapoints" \in sigs /\ Count("datapoints") > 0 THEN 0 ELSE bare

\* Mutant: one round too many.
PruneRound_OneMore ==
  /\ phase = "prune"
  /\ Size > MaxBytes
  /\ rows' \in Pruned(RetentionSignals)
  /\ bare' = BareAfter(RetentionSignals)
  /\ dict' = {d \in dict : rows'[d[1]][d[2]] > 0}
  /\ dead' = 0
  /\ touched' = FALSE
  /\ round' = round + 1
  /\ phase' = IF round' <= MaxPruneRounds THEN "prune" ELSE "wait"
  /\ UNCHANGED budget

\* enforceRound over the cap: three prunes, SweepOrphans, checkpoint.
PruneRound ==
  /\ phase = "prune"
  /\ round < MaxPruneRounds
  /\ Size > MaxBytes
  /\ rows' \in Pruned(RetentionSignals)
  /\ bare' = BareAfter(RetentionSignals)
  /\ dict' = {d \in dict : rows'[d[1]][d[2]] > 0}
  /\ dead' = 0
  /\ touched' = FALSE
  /\ round' = round + 1
  /\ phase' = IF round' < MaxPruneRounds THEN "prune" ELSE "wait"
  /\ UNCHANGED budget

\* A statement of the pass fails: the signals pruned so far stay pruned, the
\* sweep that follows them may have run in part or in full, nothing is
\* checkpointed, and the pass returns.
PassFails ==
  /\ phase \in {"sweep", "prune"}
  /\ Size > MaxBytes
  /\ deletes < MaxDeletes
  /\ \E sigs \in {{}, {"spans"}, {"spans", "logs"}, RetentionSignals} :
       /\ phase = "sweep" => sigs = {}
       /\ rows' \in Pruned(sigs)
       /\ bare' = BareAfter(sigs)
       /\ dict' \in SUBSET dict
       /\ {d \in dict : rows'[d[1]][d[2]] > 0} \subseteq dict'
       /\ phase = "prune" /\ sigs # RetentionSignals => dict' = dict
  /\ dead' = dead + (Live + bare) - (Live' + bare') + Cardinality(dict \ dict')
  /\ phase' = "wait"
  /\ deletes' = deletes + 1
  /\ UNCHANGED <<round, touched, ingests>>

----------------------------------------------------------------------------
Pass == Tick \/ RetentionSweep \/ Fits \/ PruneRound

RetentionNext ==
  IngestBurst \/ IngestSummary \/ DeleteByID \/ DeleteStream \/ Clear \/ Pass \/ PassFails

\* The ticker fires every retentionInterval and a pass runs to its end.
RetentionSpec == RetentionInit /\ [][RetentionNext]_retentionVars /\ WF_retentionVars(Pass)

----------------------------------------------------------------------------
(* Properties.                                                             *)

\* Type invariant: counts, loop state and the bound on rounds.
RetentionTypeOK ==
  /\ rows \in [RetentionSignals -> [Times -> Nat]]
  /\ bare \in Nat /\ dead \in Nat
  /\ dict \subseteq RetentionSignals \X Times
  /\ phase \in {"wait", "sweep", "prune"}
  /\ round \in 0 .. MaxPruneRounds
  /\ touched \in BOOLEAN
  /\ ingests \in 0 .. MaxExports /\ deletes \in 0 .. MaxDeletes

\* Telemetry is dropped by this step and the retention loop did it.
Prunes == phase = "prune" /\ deletes' = deletes /\ Live' < Live

\* What the store would weigh with every orphan swept and every deleted row
\* reclaimed.
Needed == Live + bare + Cardinality(Pinned)

\* ARCHITECTURE.md:200, "no round deletes real telemetry to make room for rows
\* nothing references", as the code keeps it: unless a delete or a clear came
\* between the pass's last checkpoint and this round.
PruneOnlyForTelemetry == [][Prunes /\ ~touched => Needed > MaxBytes]_retentionVars

\* Not so in the code (README, Disagreements).
\* The same sentence without the exception.
NoRoundPrunesForGarbage == [][Prunes => Needed > MaxBytes]_retentionVars

\* retention.go:84-85, "each round deletes the oldest pruneFraction of every
\* signal", as the code keeps it: a deleted row is older than the row the oldest
\* tenth ends at, give or take three gaps between doubles (under a microsecond),
\* however the arithmetic of the cutoff was rounded.
OldestTenthOnly ==
  [][Prunes => \A s \in RetentionSignals, t \in Times :
                 rows'[s][t] # rows[s][t] => t < TenthEnds(s) + 3 * Ulp]_retentionVars

\* Not so in the code (README, Disagreements).
\* The same sentence exactly: the newest row of a signal is not among its oldest
\* tenth.  A cutoff rounded up past it deletes it.
NewestSurvives ==
  [][Prunes => \A s \in RetentionSignals :
                 Count(s) > 0 => rows'[s][Nth(s, Count(s))] = rows[s][Nth(s, Count(s))]]_retentionVars

\* What a round may delete: nothing unless there is too much of it, and nothing
\* but the oldest of it.
PrunesSafely == PruneOnlyForTelemetry /\ OldestTenthOnly

\* A round may remove nothing more.
Exhausted == /\ rows \in Pruned(RetentionSignals)
             /\ bare = 0 \/ Count("datapoints") = 0

\* Once exports stop, passes bring the store under its cap or to the point
\* where no round removes anything, however passes fail or deletes interleave.
Converges == <>[](Size <= MaxBytes \/ Exhausted)

\* Not so in the code (README, Disagreements).
\* retention.go:16-20: a round deletes a pruneFraction share of the oldest rows.
RoundPrunesShare ==
  [][phase = "prune" /\ round' = round + 1 =>
       \A s \in RetentionSignals : Count(s) >= PruneDenominator => Count(s)' < Count(s)]_retentionVars

\* Not so in the code (README, Disagreements).
\* retention.go:266-271: a round leaves no metric_ingests row without datapoints.
RoundSweepsBareIngests == [][phase = "prune" /\ round' = round + 1 => bare' = 0]_retentionVars
=============================================================================
