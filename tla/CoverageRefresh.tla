-------------------------- MODULE CoverageRefresh --------------------------
(***************************************************************************)
(* The coverage snapshot of the data service (service.py,                  *)
(* DataServiceState): writers that adopt the coverage of what they wrote   *)
(* and force a refresh, health requests that refresh an expired snapshot,  *)
(* and the background threads that read the warehouse without the lock and *)
(* publish what they read under `_coverage_lock`.                          *)
(*                                                                         *)
(* The data is its version: the number of writes the warehouse has seen.   *)
(* Reading the whole warehouse takes long, so a read that began at version *)
(* f and ended at version d shows any version between the two.  A read of   *)
(* the warehouse that fails falls back to the cache, which is written       *)
(* before it and so shows as much; when neither can be read the coverage is *)
(* empty, version 0.                                                        *)
(***************************************************************************)
EXTENDS Naturals, FiniteSets

CONSTANTS
  Writers,       \* request threads that write data (routes and AI tools)
  AiWriters,     \* those of them that skip the synchronous coverage (AI tools)
  Refreshers,    \* background refresh threads (a thread id is free when idle)
  MaxWrites      \* bound: writes of a behaviour

ASSUME WriterAssumption == AiWriters \subseteq Writers
ASSUME BoundAssumption  == MaxWrites \in Nat

Version == 0 .. MaxWrites

VARIABLES
  disk,          \* version of the warehouse
  snapshot,      \* version _coverage_snapshot shows (0: no symbols)
  fresh,         \* _coverage_refreshed_at is less than the TTL ago
  refreshing,    \* _coverage_refreshing
  dirty,         \* _coverage_refresh_dirty
  thread,        \* thread[r]: the refresh thread r
  writer,        \* writer[w]: the request w
  forced,        \* history: the newest write whose refresh was forced
  best           \* history: the newest version a published read began at

coverageVars == <<disk, snapshot, fresh, refreshing, dirty, thread, writer, forced, best>>

Thread == [at : {"idle", "round", "reading", "publish", "finally"}, from : Version, got : Version]
Writer == [at : {"idle", "written", "adopt", "force"}, own : Version, got : Version]

Newer(a, b) == IF a < b THEN b ELSE a

CoverageInit ==
  /\ disk = 0 /\ snapshot = 0 /\ fresh = FALSE
  /\ refreshing = FALSE /\ dirty = FALSE
  /\ thread = [r \in Refreshers |-> [at |-> "idle", from |-> 0, got |-> 0]]
  /\ writer = [w \in Writers |-> [at |-> "idle", own |-> 0, got |-> 0]]
  /\ forced = 0 /\ best = 0

-----------------------------------------------------------------------------
(* A request that writes.                                                  *)

\* The rows land; only then is the coverage of the response computed.
Write(w) ==
  /\ writer[w].at = "idle" /\ disk < MaxWrites
  /\ disk' = disk + 1
  /\ writer' = [writer EXCEPT ![w].own = disk + 1,
                              ![w].at = IF w \in AiWriters THEN "force" ELSE "written"]
  /\ UNCHANGED <<snapshot, fresh, refreshing, dirty, thread, forced, best>>

\* The write raises after some of its rows landed: the request ends without a
\* coverage and without a forced refresh.
WriteRaises(w) ==
  /\ writer[w].at = "idle" /\ disk < MaxWrites
  /\ disk' = disk + 1
  /\ UNCHANGED <<snapshot, fresh, refreshing, dirty, thread, writer, forced, best>>

ComputeCoverage(w) ==
  /\ writer[w].at = "written"
  /\ \E v \in (writer[w].own .. disk) \cup {0} :
       writer' = [writer EXCEPT ![w].at = "adopt", ![w].got = v]
  /\ UNCHANGED <<disk, snapshot, fresh, refreshing, dirty, thread, forced, best>>

SetCoverageSnapshot(w) ==
  /\ writer[w].at = "adopt"
  /\ snapshot' = writer[w].got
  /\ fresh' = TRUE
  /\ writer' = [writer EXCEPT ![w].at = "force"]
  /\ UNCHANGED <<disk, refreshing, dirty, thread, forced, best>>

\* The part of start_coverage_refresh that starts a thread.
Begin ==
  /\ ~refreshing
  /\ refreshing' = TRUE /\ dirty' = FALSE
  /\ \E r \in Refreshers : thread[r].at = "idle" /\ thread' = [thread EXCEPT ![r].at = "round"]

\* start_coverage_refresh(force=True): a running refresh is only marked dirty.
ForceMarksNothing(w) ==          \* mutant: a running refresh is taken to be enough
  /\ writer[w].at = "force"
  /\ Begin \/ (refreshing /\ UNCHANGED <<refreshing, dirty, thread>>)
  /\ writer' = [writer EXCEPT ![w].at = "idle"]
  /\ forced' = Newer(forced, writer[w].own)
  /\ UNCHANGED <<disk, snapshot, fresh, best>>

ForceRefresh(w) ==
  /\ writer[w].at = "force"
  /\ Begin \/ (refreshing /\ dirty' = TRUE /\ UNCHANGED <<refreshing, thread>>)
  /\ writer' = [writer EXCEPT ![w].at = "idle"]
  /\ forced' = Newer(forced, writer[w].own)
  /\ UNCHANGED <<disk, snapshot, fresh, best>>

-----------------------------------------------------------------------------
(* Health requests and the clock.                                          *)

HasFreshSnapshot == snapshot > 0 /\ fresh

HealthRaisesFlag ==              \* mutant: the flag goes up before the freshness test
  /\ ~refreshing
  /\ IF HasFreshSnapshot
       THEN refreshing' = TRUE /\ UNCHANGED <<dirty, thread>>
       ELSE Begin
  /\ UNCHANGED <<disk, snapshot, fresh, writer, forced, best>>

Health ==
  /\ ~HasFreshSnapshot /\ Begin
  /\ UNCHANGED <<disk, snapshot, fresh, writer, forced, best>>

Expire ==                        \* HEALTH_COVERAGE_REFRESH_TTL_SECONDS pass
  /\ fresh /\ fresh' = FALSE
  /\ UNCHANGED <<disk, snapshot, refreshing, dirty, thread, writer, forced, best>>

-----------------------------------------------------------------------------
(* A refresh thread.                                                       *)

StartRead(r) ==
  /\ thread[r].at = "round"
  /\ thread' = [thread EXCEPT ![r].at = "reading", ![r].from = disk]
  /\ UNCHANGED <<disk, snapshot, fresh, refreshing, dirty, writer, forced, best>>

EndRead(r) ==
  /\ thread[r].at = "reading"
  /\ \E v \in (thread[r].from .. disk) \cup {0} :
       thread' = [thread EXCEPT ![r].at = "publish", ![r].got = v]
  /\ UNCHANGED <<disk, snapshot, fresh, refreshing, dirty, writer, forced, best>>

\* Under the lock: publish, then another round if a force came in, or the flag
\* goes down together with that decision.
Publish(r) ==
  /\ thread[r].at = "publish"
  /\ snapshot' = thread[r].got
  /\ fresh' = TRUE
  /\ best' = Newer(best, thread[r].from)
  /\ dirty' = FALSE
  /\ IF dirty
       THEN thread' = [thread EXCEPT ![r].at = "round"] /\ UNCHANGED refreshing
       ELSE thread' = [thread EXCEPT ![r].at = "finally"] /\ refreshing' = FALSE
  /\ UNCHANGED <<disk, writer, forced>>

\* The finally block takes the lock once more and lowers the flag again.
Finally(r) ==
  /\ thread[r].at = "finally"
  /\ refreshing' = FALSE
  /\ thread' = [thread EXCEPT ![r] = [at |-> "idle", from |-> 0, got |-> 0]]
  /\ UNCHANGED <<disk, snapshot, fresh, dirty, writer, forced, best>>

Step(r)    == StartRead(r) \/ EndRead(r) \/ Publish(r) \/ Finally(r)
Request(w) == Write(w) \/ WriteRaises(w) \/ ComputeCoverage(w) \/ SetCoverageSnapshot(w) \/ ForceRefresh(w)

Quiet == /\ \A r \in Refreshers : thread[r].at = "idle"
         /\ \A w \in Writers : writer[w].at = "idle"

\* The bound on writes is the only end of a behaviour.
Finished == disk = MaxWrites /\ Quiet /\ HasFreshSnapshot /\ UNCHANGED coverageVars

CoverageNext ==
  \/ \E w \in Writers : Request(w)
  \/ \E r \in Refreshers : Step(r)
  \/ Health \/ Expire \/ Finished

CoverageSpec == CoverageInit /\ [][CoverageNext]_coverageVars
\* Threads run: each refresh thread and each started request goes on.
CoverageFairSpec ==
  /\ CoverageSpec
  /\ \A r \in Refreshers : WF_coverageVars(Step(r))
  /\ \A w \in Writers : WF_coverageVars(ForceRefresh(w)) /\ WF_coverageVars(SetCoverageSnapshot(w))
                        /\ WF_coverageVars(ComputeCoverage(w))

-----------------------------------------------------------------------------
(* Properties                                                              *)

CoverageTypeOK ==
  /\ disk \in Version /\ snapshot \in Version
  /\ fresh \in BOOLEAN /\ refreshing \in BOOLEAN /\ dirty \in BOOLEAN
  /\ thread \in [Refreshers -> Thread]
  /\ writer \in [Writers -> Writer]
  /\ forced \in Version /\ best \in Version

\* The flag never stays up without a thread that will lower it (the service would
\* never refresh again), and a dirty mark never stays without a thread to see it.
FlagHasThread ==
  refreshing \/ dirty => \E r \in Refreshers : thread[r].at \notin {"idle", "finally"}

\* After a write there is always one refresh whose input is the data after it
\* (service.py:289-294): a published round (its read, or
\* what a failed read falls back to) that began at or after the write.
ForcedWriteIsRead ==
  \A v \in Version : forced = v ~> best >= v

\* service.py:289 and :317, "force must never be answered by a snapshot read from
\* before that write", "never take pre-write data as the final snapshot": when
\* nothing runs, the snapshot shows every forced write.
FinalSnapshotIsCurrent == Quiet => snapshot >= forced

=============================================================================
