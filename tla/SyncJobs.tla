------------------------------ MODULE SyncJobs ------------------------------
(***************************************************************************)
(* The data-sync job manager (data/sync.py, SyncJobManager): admission     *)
(* with de-duplication and a concurrency budget, reaping of stalled jobs,  *)
(* pruning of finished ones, cancellation, polling, and the worker thread  *)
(* behind every job.  One action is one critical section of `_lock` (or    *)
(* one lock-free stretch of a thread), so that everything two threads may  *)
(* do between two acquisitions of the lock is a behaviour of the model.    *)
(*                                                                         *)
(* Clocks are ages: the code only compares `now - stamp` with a threshold, *)
(* so an age that stops growing at the largest threshold it is compared    *)
(* with distinguishes exactly what the code distinguishes.                 *)
(***************************************************************************)
EXTENDS Naturals, Integers, FiniteSets

CONSTANTS
  Jobs,          \* job ids (uuid4): an id is taken again only when nothing refers to it
  Signatures,    \* `_signature`: mode, symbol set and effective dates of a request
  FlowSigs,      \* the signatures whose mode is capital_flow_backfill
  EmptySigs,     \* the signatures whose range holds no trading day
  NoSig,         \* "no entry in _signatures"
  Budget,        \* max_concurrent_jobs
  MaxKeep,       \* TERMINAL_JOB_MAX_KEEP
  Retention,     \* TERMINAL_JOB_RETENTION_SECONDS, in ticks
  ReadStale,     \* JOB_READ_STALE_SECONDS, in ticks
  RunStale,      \* RUNNING_JOB_STALE_SECONDS, in ticks
  Prompt,        \* stages of a thread that take no tick (adjacent statements, no I/O)
  MaxBatches     \* bound: batches of one job (_chunks of its symbols)

ASSUME JobsAssumption == IsFiniteSet(Jobs)
ASSUME SigAssumption  == /\ FlowSigs \subseteq Signatures
                         /\ EmptySigs \subseteq Signatures
                         /\ NoSig \notin Signatures
ASSUME LimitAssumption == /\ Budget \in Nat \ {0}
                          /\ MaxKeep \in Nat
                          /\ Retention \in Nat \ {0}
                          /\ ReadStale \in Nat \ {0}
                          /\ RunStale \in Nat \ {0}
                          /\ ReadStale <= RunStale
                          /\ MaxBatches \in Nat \ {0}

VARIABLES
  job,      \* job[j]: everything the manager's dictionaries hold under the id j
  worker    \* worker[j]: the thread (handler, then worker) that serves j

vars == <<job, worker>>

-----------------------------------------------------------------------------
Running   == {"running", "cancelling"}
Completed == {"completed", "completed_with_errors"}
Terminal  == Completed \cup {"cancelled", "failed"}
Status    == Running \cup Terminal \cup {"none"}

NotFinished == -1                \* no entry in _finished_at

Record == [status : Status,                     \* _jobs[j].status, "none": no record
           failures : BOOLEAN,                  \* _jobs[j].failed_symbols > 0
           sig : Signatures \cup {NoSig},       \* _signatures
           flagged : BOOLEAN,                   \* j \in _cancelled
           finAge : (0 .. Retention) \cup {NotFinished},  \* now - _finished_at
           readAge : 0 .. RunStale,             \* now - _last_read (0.0 when absent)
           progAge : 0 .. RunStale]             \* now - _last_progress_at

Absent == [status |-> "none", failures |-> FALSE, sig |-> NoSig, flagged |-> FALSE,
           finAge |-> NotFinished, readAge |-> RunStale, progAge |-> RunStale]

Stages == {"none", "admitted", "start", "check", "batch", "flush", "lastCheck",
           "cancelGet", "cancelStore", "cancelFlush", "endGet", "endStore",
           "finalGet", "finalStore", "failGet", "failStore"}

Thread == [at : Stages,                    \* where the thread is
           sig : Signatures \cup {NoSig},  \* the request it serves
           left : 0 .. MaxBatches,         \* batches not fetched yet
           pending : BOOLEAN,              \* frames fetched and not written yet
           failures : BOOLEAN,             \* failed_symbols of the copy it holds
           reaped : BOOLEAN]               \* history: its record was reaped under it

NoThread == [at |-> "none", sig |-> NoSig, left |-> 0, pending |-> FALSE, failures |-> FALSE,
             reaped |-> FALSE]

InFlight(r)   == r.status \in Running
Finished(r)   == r.status \in Terminal
Present(r)    == r.status # "none"
Touch(r)      == IF Present(r) THEN [r EXCEPT !.readAge = 0] ELSE r       \* get_job
InFlightJobs  == {j \in Jobs : InFlight(job[j])}

Older(a, b)   == IF a < b THEN b ELSE a
Grow(age, cap) == IF age < cap THEN age + 1 ELSE cap

-----------------------------------------------------------------------------
(* Helpers that run with `_lock` held.                                     *)

FinishAge(r) ==                               \* _finished_at.setdefault(j, now)
  IF r.finAge = NotFinished THEN 0 ELSE r.finAge

Put(r, st) ==                                                  \* _put_locked
  IF st \in Running
    THEN [r EXCEPT !.status = st, !.finAge = NotFinished, !.progAge = 0]
    ELSE [r EXCEPT !.status = st, !.progAge = RunStale,
                   !.finAge = FinishAge(r)]

Stalled(r) == InFlight(r) /\ r.progAge >= RunStale /\ r.readAge >= RunStale

Reap(r) ==                                       \* _reap_stale_running_locked
  IF Stalled(r)
    THEN [r EXCEPT !.status = "failed", !.flagged = FALSE,   \* progAge is saturated
                   !.finAge = FinishAge(r)]
    ELSE r

Expired(r) == r.finAge >= Retention
Unread(r)  == r.readAge >= ReadStale
DropRead(r) == Absent         \* mutant: a record somebody still reads is dropped too
Drop(r)    == IF Unread(r) THEN Absent ELSE r                 \* _drop_locked

\* The set of record tables that `_prune_locked` may leave: the table is reaped,
\* its expired terminal records dropped, then the oldest beyond MaxKeep (records
\* that finished at the same instant are ordered by their random ids).
Pruned ==
  LET reaped  == [j \in Jobs |-> Reap(job[j])]
      ended   == {j \in Jobs : Finished(reaped[j]) /\ reaped[j].finAge # NotFinished}
      expired == {j \in ended : Expired(reaped[j])}
      remain  == {j \in ended : ~(j \in expired /\ Unread(reaped[j]))}
      excess  == {old \in SUBSET remain :
                    /\ Cardinality(remain \ old) =
                         (IF Cardinality(remain) > MaxKeep THEN MaxKeep ELSE Cardinality(remain))
                    /\ \A a \in old, b \in remain \ old : reaped[a].finAge >= reaped[b].finAge}
  IN {[j \in Jobs |-> IF j \in expired \cup old THEN Drop(reaped[j]) ELSE reaped[j]] : old \in excess}

\* The threads, with a mark on those whose record the same prune reaps.
Marked == [j \in Jobs |-> [worker[j] EXCEPT !.reaped = @ \/ Stalled(job[j])]]

-----------------------------------------------------------------------------
Init == /\ job = [j \in Jobs |-> Absent]
        /\ worker = [j \in Jobs |-> NoThread]

(* The three outcomes of `_admit`, each after the prune it starts with.    *)

Reuse(table, s) ==
  \E j \in Jobs :
    /\ table[j].sig = s /\ InFlight(table[j])
    /\ job' = [table EXCEPT ![j].readAge = 0]
    /\ worker' = Marked

NoRunningTwin(table, s) ==        \* mutant: a twin that is being cancelled is not seen
  \A j \in Jobs : ~(table[j].sig = s /\ table[j].status = "running")
NoTwin(table, s) == \A j \in Jobs : ~(table[j].sig = s /\ InFlight(table[j]))
Busy(table)      == Cardinality({j \in Jobs : InFlight(table[j])}) >= Budget

Refuse(table, s) ==                                      \* SyncCapacityError
  /\ NoTwin(table, s) /\ Busy(table)
  /\ job' = table
  /\ worker' = Marked

Create(table, s) ==
  /\ NoTwin(table, s) /\ ~Busy(table)
  /\ \E j \in Jobs :
       /\ job[j] = Absent /\ worker[j].at = "none"
       /\ job' = [table EXCEPT ![j] = [Put(Absent, "running") EXCEPT !.sig = s, !.readAge = 0]]
       /\ \E n \in 1 .. MaxBatches :
            worker' = [Marked EXCEPT ![j] = [NoThread EXCEPT !.at = "admitted", !.sig = s, !.left = n]]

Request(s) == \E table \in Pruned : Reuse(table, s) \/ Refuse(table, s) \/ Create(table, s)

GetJob(j) ==                                  \* a client's poll: GET /sync/jobs/j
  /\ Present(job[j])
  /\ job' = [job EXCEPT ![j].readAge = 0]
  /\ UNCHANGED worker

CancelAny(j) ==                   \* mutant: cancels whatever the status is
  /\ Present(job[j])
  /\ job' = [job EXCEPT ![j].readAge = 0, ![j].status = "cancelling", ![j].flagged = TRUE]
  /\ UNCHANGED worker

CancelJob(j) ==
  /\ Present(job[j])
  /\ job' = [job EXCEPT ![j] =
       IF @.status = "running"
         THEN [@ EXCEPT !.readAge = 0, !.status = "cancelling", !.flagged = TRUE]
         ELSE [@ EXCEPT !.readAge = 0]]
  /\ UNCHANGED worker

Tick ==
  /\ \A j \in Jobs : worker[j].at \notin Prompt
  /\ job' = [j \in Jobs |->
            [job[j] EXCEPT !.readAge = Grow(@, RunStale),
                           !.progAge = Grow(@, RunStale),
                           !.finAge  = IF @ = NotFinished THEN @ ELSE Grow(@, Retention)]]
  /\ UNCHANGED worker

-----------------------------------------------------------------------------
(* The thread behind job j.  Goto moves it; Done ends it.                  *)

Goto(j, st) == worker' = [worker EXCEPT ![j].at = st]
Done(j)     == worker' = [worker EXCEPT ![j] = NoThread]
Full(j)     == worker[j].sig \notin FlowSigs

\* start_*: no trading day in the range, the handler itself stores the result ...
StoreEmpty(j) ==
  /\ worker[j].at = "admitted" /\ worker[j].sig \in EmptySigs
  /\ job' = [job EXCEPT ![j] = Touch(Put([@ EXCEPT !.failures = FALSE], "completed"))]
  /\ Done(j)

\* ... otherwise it starts the worker thread; both read the record to answer.
StartThread(j) ==
  /\ worker[j].at = "admitted" /\ worker[j].sig \notin EmptySigs
  /\ Goto(j, "start")
  /\ job' = [job EXCEPT ![j] = Touch(@)]

\* What a worker does before its first batch and may fail at: a full-market job
\* reads the completeness snapshot, a capital-flow job wants a cache and a fetcher.
Begin(j) ==
  /\ worker[j].at = "start"
  /\ \E next \in {"check", "failGet"} : Goto(j, next)
  /\ UNCHANGED job

CheckQuits(j) ==                  \* mutant: a cancelled worker just returns
  /\ worker[j].at = "check"
  /\ IF job[j].flagged THEN Done(j)
     ELSE Goto(j, IF worker[j].left > 0 THEN "batch" ELSE IF Full(j) THEN "flush" ELSE "finalGet")
  /\ UNCHANGED job

CheckNoFlush(j) ==                \* mutant: the loop ends without the last flush
  /\ worker[j].at = "check"
  /\ IF job[j].flagged THEN Goto(j, "cancelGet")
     ELSE Goto(j, IF worker[j].left > 0 THEN "batch" ELSE "finalGet")
  /\ UNCHANGED job

\* _finish_cancelled, its first half, before a batch or after the last one.
\* A full-market job has frames to write before it ends.
Check(j) ==
  /\ worker[j].at = "check"
  /\ IF job[j].flagged THEN Goto(j, "cancelGet")
     ELSE IF worker[j].left > 0 THEN Goto(j, "batch")
     ELSE Goto(j, IF Full(j) THEN "flush" ELSE "finalGet")
  /\ UNCHANGED job

\* One batch: fetch and record the outcome through get_job (a read) and _mutate.
\* A full-market job skips the bookkeeping of a record that is gone, and keeps
\* its frames pending, writes them, or fails to (the rest of the batch is lost);
\* a capital-flow job writes what it fetched, and runs into the KeyError of
\* _mutate when the record is gone.
Batch(j) ==
  /\ worker[j].at = "batch"
  /\ IF Present(job[j])
       THEN \/ job' = [job EXCEPT ![j] = Put(Touch(@), @.status)]
            \/ job' = [job EXCEPT ![j] = Put([Touch(@) EXCEPT !.failures = TRUE], @.status)]
       ELSE UNCHANGED job
  /\ \/ /\ Full(j)
        /\ \E p \in BOOLEAN :
             worker' = [worker EXCEPT ![j].at = "check", ![j].left = @ - 1, ![j].pending = p]
     \/ /\ Full(j)
        /\ worker' = [worker EXCEPT ![j].at = "failGet", ![j].pending = TRUE]
     \/ /\ ~Full(j) /\ Present(job[j])
        /\ worker' = [worker EXCEPT ![j].at = "check", ![j].left = @ - 1]
     \/ ~Full(j) /\ ~Present(job[j]) /\ Goto(j, "failGet")

\* The frames still pending are written (three attempts at the lock), or not.
Flush(j) ==
  /\ worker[j].at = "flush"
  /\ \/ worker' = [worker EXCEPT ![j].at = "lastCheck", ![j].pending = FALSE]
     \/ worker[j].pending /\ Goto(j, "failGet")
  /\ UNCHANGED job

\* _finish_cancelled once more, after the loop, also after one that a cancellation cut
\* short: by now a reaping or a drop may have discarded the flag that cut it.
LastCheck(j) ==
  /\ worker[j].at = "lastCheck"
  /\ Goto(j, IF job[j].flagged THEN "endGet" ELSE "finalGet")
  /\ UNCHANGED job

\* get_job, to overwrite the copy's status and store it: `next` is where the
\* thread goes with a copy, `gone` where it goes when the record was dropped.
Copy(j, from, next, gone) ==
  /\ worker[j].at = from
  /\ IF Present(job[j])
       THEN /\ job' = [job EXCEPT ![j].readAge = 0]
            /\ worker' = [worker EXCEPT ![j].at = next, ![j].failures = job[j].failures]
       ELSE /\ UNCHANGED job
            /\ IF gone = "none" THEN Done(j) ELSE Goto(j, gone)

AfterCancel(j) == IF Full(j) THEN "cancelFlush" ELSE "none"

CancelGet(j) == Copy(j, "cancelGet", "cancelStore", AfterCancel(j))
EndGet(j)    == Copy(j, "endGet", "endStore", "none")
FinalGet(j)  == Copy(j, "finalGet", "finalStore", "none")
FailGet(j)   == Copy(j, "failGet", "failStore", "none")

\* _store of the copy with the status st (the record may be gone by now).
Store(j, st) ==
  job' = [job EXCEPT ![j] = Put([@ EXCEPT !.failures = worker[j].failures], st)]

CancelStoreAsIs(j) ==             \* mutant: stores the copy without the new status
  /\ worker[j].at = "cancelStore"
  /\ UNCHANGED job
  /\ IF Full(j) THEN Goto(j, "cancelFlush") ELSE Done(j)

CancelStore(j) ==
  /\ worker[j].at = "cancelStore"
  /\ Store(j, "cancelled")
  /\ IF Full(j) THEN Goto(j, "cancelFlush") ELSE Done(j)

\* The loop of a cancelled full-market job ends with a flush, and its thread goes on.
CancelFlush(j) ==
  /\ worker[j].at = "cancelFlush"
  /\ \/ worker' = [worker EXCEPT ![j].at = "lastCheck", ![j].pending = FALSE]
     \/ worker[j].pending /\ Goto(j, "failGet")
  /\ UNCHANGED job

EndStore(j) ==
  /\ worker[j].at = "endStore"
  /\ Store(j, "cancelled")
  /\ Done(j)

FinalStore(j) ==
  /\ worker[j].at = "finalStore"
  /\ Store(j, IF worker[j].failures THEN "completed_with_errors" ELSE "completed")
  /\ Done(j)

FailStore(j) ==
  /\ worker[j].at = "failStore"
  /\ Store(j, "failed")
  /\ Done(j)

Work(j) == \/ StoreEmpty(j) \/ StartThread(j) \/ Begin(j) \/ Check(j) \/ Batch(j)
           \/ Flush(j) \/ CancelGet(j) \/ CancelStore(j) \/ CancelFlush(j)
           \/ LastCheck(j) \/ EndGet(j) \/ EndStore(j)
           \/ FinalGet(j) \/ FinalStore(j) \/ FailGet(j) \/ FailStore(j)

Next == \/ Tick
        \/ \E s \in Signatures : Request(s)
        \/ \E j \in Jobs : GetJob(j) \/ CancelJob(j) \/ Work(j)

Spec == Init /\ [][Next]_vars

\* No worker hangs: every thread that can move eventually does.
FairSpec == Spec /\ \A j \in Jobs : WF_vars(Work(j))

-----------------------------------------------------------------------------
(* Properties                                                              *)

TypeOK == /\ job \in [Jobs -> Record]
          /\ worker \in [Jobs -> Thread]

\* Two requests for the same work never run as two jobs (`_admit`: the decision
\* and the write happen under one lock).
NoDuplicateWork ==
  \A i, j \in Jobs : i # j /\ InFlight(job[i]) /\ InFlight(job[j]) => job[i].sig # job[j].sig

\* Jobs in flight never exceed max_concurrent_jobs, whatever workers of reaped or
\* dropped jobs still store.
WithinBudget == Cardinality(InFlightJobs) <= Budget

\* A job in flight has a thread that will end it, and a cancellation that was
\* acknowledged is visible to that thread until the job has ended.
InFlightIsServed ==
  \A j \in Jobs : InFlight(job[j]) =>
    /\ worker[j].at # "none"
    /\ job[j].status = "cancelling" => job[j].flagged

\* "completed" is said when every frame was written and every batch fetched, by a
\* thread that does nothing afterwards.  Only a thread whose record was reaped under
\* it, and which was cut short by a cancellation, says it with batches left.
CompletedMeansWritten ==
  \A j \in Jobs :
    /\ worker[j].at \in {"lastCheck", "finalGet", "finalStore"} => ~worker[j].pending
    /\ worker[j].at = "finalStore" => worker[j].left = 0 \/ worker[j].reaped
    /\ job[j].status \in Completed => worker[j].at = "none"

\* sync.py:549-550, "the terminal state of a cancelled job must be cancelled, it must
\* not be overwritten by completed": a job whose loop a cancellation cut short is
\* never stored as completed.
CutIsNotCompleted ==
  \A j \in Jobs : worker[j].at = "finalStore" => worker[j].left = 0

\* A completed job stays completed until its record is dropped, whoever still
\* cancels, reads or prunes.
CompletedIsFinal ==
  [][\A j \in Jobs : job[j].status \in Completed =>
       job'[j].status \in {job[j].status, "none"}]_vars

\* A record read within JOB_READ_STALE_SECONDS is not dropped: a client that
\* polls does not get not_found for a job it follows.
ReadRecordSurvives ==
  [][\A j \in Jobs : Present(job[j]) /\ job[j].readAge < ReadStale => Present(job'[j])]_vars

\* What a client that polls is told of the end of its job is true and stays: the work
\* was done, if the job was not taken for dead meanwhile, and the record does not change
\* or go while it is followed.
AnswersStand == []CompletedMeansWritten /\ CompletedIsFinal /\ ReadRecordSurvives

\* Every job ends, when no worker hangs.
JobsEnd == \A j \in Jobs : InFlight(job[j]) ~> ~InFlight(job[j])

\* sync.py:549-550, "the terminal state of a cancelled job must be cancelled, it
\* must not be overwritten by completed".
CancelSticks ==
  [][\A j \in Jobs : job[j].status = "cancelling" => job'[j].status \notin Completed]_vars

=============================================================================
