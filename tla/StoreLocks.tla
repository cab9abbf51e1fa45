------------------------------ MODULE StoreLocks ------------------------------
(***************************************************************************)
(* The locking of store.Store: ingestMu, the read/write mutex mu, and the  *)
(* db/conn pair that Close sets to nil.                                    *)
(*                                                                         *)
(* mu is Go's sync.RWMutex, modelled from its documented behaviour         *)
(* (external): Lock first takes an inner mutex among writers and announces *)
(* itself, after which new RLock calls park; it then waits for the readers *)
(* already inside; Unlock lets every parked reader in before another       *)
(* writer may announce.                                                    *)
(***************************************************************************)
CONSTANTS Ingesters,   \* exporter consumers, one per signal: WithConn
          Readers,     \* RPC queries and SizeBytes: WithDBRead
          Writers,     \* clear, delete and retention rounds: WithDBWrite
          Closer       \* the extension's Shutdown: Close

NoOne == "nobody"

Shared == Ingesters \cup Readers
Procs  == Shared \cup Writers \cup {Closer}

ASSUME ProcsAssumption ==
  /\ Ingesters \cap Readers = {} /\ Shared \cap Writers = {}
  /\ Closer \notin Shared \cup Writers
  /\ NoOne \notin Procs

VARIABLES
  stage,         \* where each caller is
  ingestMu,   \* holder of ingestMu
  readers,    \* holders of the read side of mu
  parked,     \* RLock callers parked behind an announced writer
  announced,  \* writer that owns mu's inner mutex
  writing,    \* the announced writer holds the write side
  open        \* db and conn are not nil

lockVars == <<stage, ingestMu, readers, parked, announced, writing, open>>

Goto(p, l) == stage' = [stage EXCEPT ![p] = l]

LocksInit ==
  /\ stage = [p \in Procs |-> "idle"]
  /\ ingestMu = NoOne
  /\ readers = {} /\ parked = {}
  /\ announced = NoOne /\ writing = FALSE
  /\ open = TRUE

----------------------------------------------------------------------------
(* WithConn: ingestMu, then the read side of mu.                           *)

CallWithConn(p) ==
  /\ stage[p] = "idle"
  /\ Goto(p, "wantIngestMu")
  /\ UNCHANGED <<ingestMu, readers, parked, announced, writing, open>>

\* Mutant: WithConn without ingestMu.
LockIngestMu_Skipped(p) ==
  /\ stage[p] = "wantIngestMu"
  /\ Goto(p, "wantR")
  /\ UNCHANGED <<ingestMu, readers, parked, announced, writing, open>>

LockIngestMu(p) ==
  /\ stage[p] = "wantIngestMu"
  /\ ingestMu = NoOne
  /\ ingestMu' = p
  /\ Goto(p, "wantR")
  /\ UNCHANGED <<readers, parked, announced, writing, open>>

\* WithDBRead takes only the read side.
CallWithDBRead(p) ==
  /\ stage[p] = "idle"
  /\ Goto(p, "wantR")
  /\ UNCHANGED <<ingestMu, readers, parked, announced, writing, open>>

\* Mutant: a reader arriving behind a writer queues for ingestMu.
RLock_QueuesOnIngestMu(p) ==
  /\ stage[p] = "wantR"
  /\ IF announced = NoOne
     THEN readers' = readers \cup {p} /\ Goto(p, "check") /\ UNCHANGED <<parked, ingestMu>>
     ELSE parked' = parked \cup {p} /\ Goto(p, "parked") /\ ingestMu' = p /\ UNCHANGED readers
  /\ UNCHANGED <<announced, writing, open>>

RLock(p) ==
  /\ stage[p] = "wantR"
  /\ IF announced = NoOne
     THEN readers' = readers \cup {p} /\ Goto(p, "check") /\ UNCHANGED parked
     ELSE parked' = parked \cup {p} /\ Goto(p, "parked") /\ UNCHANGED readers
  /\ UNCHANGED <<ingestMu, announced, writing, open>>

\* ErrStoreConnectionClosed if Close has run, otherwise the callback.
CheckOpen(p) ==
  /\ stage[p] = "check"
  /\ Goto(p, IF open THEN "body" ELSE "leaveR")
  /\ UNCHANGED <<ingestMu, readers, parked, announced, writing, open>>

\* Mutant: the callback calls SizeBytes, which takes the read side again.
ReadBody_NestedRLock(p) ==
  /\ stage[p] = "body"
  /\ announced = NoOne
  /\ Goto(p, "leaveR")
  /\ UNCHANGED <<ingestMu, readers, parked, announced, writing, open>>

\* The callback of a read or an ingest returns.  None takes a lock of the
\* store: getStats measures through SizeBytesWithDB.
ReadBody(p) ==
  /\ stage[p] = "body"
  /\ Goto(p, "leaveR")
  /\ UNCHANGED <<ingestMu, readers, parked, announced, writing, open>>

RUnlock(p) ==
  /\ stage[p] = "leaveR"
  /\ readers' = readers \ {p}
  /\ Goto(p, IF p \in Ingesters THEN "leaveIngestMu" ELSE "idle")
  /\ UNCHANGED <<ingestMu, parked, announced, writing, open>>

UnlockIngestMu(p) ==
  /\ stage[p] = "leaveIngestMu"
  /\ ingestMu' = NoOne
  /\ Goto(p, "idle")
  /\ UNCHANGED <<readers, parked, announced, writing, open>>

----------------------------------------------------------------------------
(* WithDBWrite and Close: the write side of mu.                            *)

CallWithDBWrite(p) ==
  /\ stage[p] = "idle"
  /\ Goto(p, "wantW")
  /\ UNCHANGED <<ingestMu, readers, parked, announced, writing, open>>

\* Mutant: Close drops db and conn without taking the write side.
CloseUnlocked(p) ==
  /\ stage[p] = "idle"
  /\ open
  /\ open' = FALSE
  /\ UNCHANGED <<stage, ingestMu, readers, parked, announced, writing>>

\* Close runs once; the extension does not call it again.
CallClose(p) ==
  /\ stage[p] = "idle"
  /\ open
  /\ Goto(p, "wantW")
  /\ UNCHANGED <<ingestMu, readers, parked, announced, writing, open>>

Announce(p) ==
  /\ stage[p] = "wantW"
  /\ announced = NoOne
  /\ announced' = p
  /\ Goto(p, "drain")
  /\ UNCHANGED <<ingestMu, readers, parked, writing, open>>

\* Mutant: Lock does not wait for the readers already inside.
Drain_NoWait(p) ==
  /\ stage[p] = "drain"
  /\ writing' = TRUE
  /\ Goto(p, "wbody")
  /\ UNCHANGED <<ingestMu, readers, parked, announced, open>>

Drain(p) ==
  /\ stage[p] = "drain"
  /\ readers = {}
  /\ writing' = TRUE
  /\ Goto(p, "wbody")
  /\ UNCHANGED <<ingestMu, readers, parked, announced, open>>

\* The callback of a write-locked operation returns (or was refused because
\* the store is closed); Close clears conn and db.
WriteBody(p) ==
  /\ stage[p] = "wbody"
  /\ open' = (open /\ p # Closer)
  /\ Goto(p, "leaveW")
  /\ UNCHANGED <<ingestMu, readers, parked, announced, writing>>

Unlock(p) ==
  /\ stage[p] = "leaveW"
  /\ readers' = readers \cup parked
  /\ parked' = {}
  /\ announced' = NoOne
  /\ writing' = FALSE
  /\ stage' = [q \in Procs |-> IF q = p THEN "idle"
                            ELSE IF q \in parked THEN "check" ELSE stage[q]]
  /\ UNCHANGED <<ingestMu, open>>

----------------------------------------------------------------------------
SharedStep(p) == RLock(p) \/ CheckOpen(p) \/ ReadBody(p) \/ RUnlock(p)
IngestStep(p) == LockIngestMu(p) \/ SharedStep(p) \/ UnlockIngestMu(p)
WriteStep(p)  == Announce(p) \/ Drain(p) \/ WriteBody(p) \/ Unlock(p)

LocksNext ==
  \/ \E p \in Ingesters : CallWithConn(p) \/ IngestStep(p)
  \/ \E p \in Readers : CallWithDBRead(p) \/ SharedStep(p)
  \/ \E p \in Writers : CallWithDBWrite(p) \/ WriteStep(p)
  \/ CallClose(Closer) \/ WriteStep(Closer)

LocksSpec == LocksInit /\ [][LocksNext]_lockVars

\* A caller that can move does (goroutines are scheduled, callbacks return:
\* an ingest has its IngestTimeout deadline).  Strong fairness where a Go mutex
\* is contended: a waiter that starves for 1ms is handed the mutex.
Fairness ==
  /\ \A p \in Ingesters : WF_lockVars(IngestStep(p)) /\ SF_lockVars(LockIngestMu(p))
  /\ \A p \in Readers : WF_lockVars(SharedStep(p))
  /\ \A p \in Writers \cup {Closer} : WF_lockVars(WriteStep(p)) /\ SF_lockVars(Announce(p))

LocksFairSpec == LocksSpec /\ Fairness

----------------------------------------------------------------------------
(* Properties.                                                             *)

Labels == {"idle", "wantIngestMu", "wantR", "parked", "check", "body", "leaveR",
           "leaveIngestMu", "wantW", "drain", "wbody", "leaveW"}

\* Type invariant: callers, lock holders and the open flag keep their types.
LocksTypeOK ==
  /\ stage \in [Procs -> Labels]
  /\ ingestMu \in Ingesters \cup {NoOne}
  /\ readers \subseteq Shared
  /\ parked \subseteq Shared
  /\ announced \in Writers \cup {Closer, NoOne}
  /\ writing \in BOOLEAN
  /\ open \in BOOLEAN

\* While a clear, delete, retention round or Close is inside, no query and no
\* ingest is, and no second writer: a multi-statement delete or sweep is never
\* seen half done.
WriteExcludes ==
  \A p \in Writers \cup {Closer} : stage[p] = "wbody" =>
    \A q \in Procs \ {p} : stage[q] \notin {"check", "body", "wbody"}

\* At most one ingest is between Flush and CloseAppenders at a time.
IngestsSerialized ==
  \A p, q \in Ingesters : stage[p] = "body" /\ stage[q] = "body" => p = q

\* Sections that must not overlap do not: a write-locked one beside any other, an
\* ingest beside an ingest (WithConn and WithDBWrite, store.go).
SectionsExclude == WriteExcludes /\ IngestsSerialized

\* A callback never runs on a connection Close has already dropped: the check
\* under the lock stays true until the lock is released.
NeverUsedClosed == \A p \in Shared : stage[p] = "body" => open

\* Not so in the code (README, Disagreements).
\* What the comments at spans.go:29-32 and logs.go:39-42 say: no query runs while
\* an ingest is inside its batch.
NothingReadsMidBatch ==
  \A p \in Ingesters, q \in Readers : ~(stage[p] = "body" /\ stage[q] = "body")

\* Every call returns: no lock order, parked reader or pending writer can hold
\* a query, an ingest, a retention round or the shutdown for ever.
EveryCallReturns == \A p \in Procs : stage[p] # "idle" ~> stage[p] = "idle"
=============================================================================
