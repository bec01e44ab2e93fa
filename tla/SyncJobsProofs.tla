--------------------------- MODULE SyncJobsProofs ---------------------------
(***************************************************************************)
(* The job manager keeps its promises for any number of jobs, requests and *)
(* batches, any budget and any thresholds.  The inductive invariant adds   *)
(* to the promises what the stages of a thread know of its job.            *)
(***************************************************************************)
EXTENDS SyncJobs, FiniteSetTheorems, TLAPS

\* The stages of a thread that has not ended its job.
Early == {"admitted", "start", "check", "batch", "flush", "cancelGet", "cancelStore"}

\* What a thread at the stage st, with `left` batches to fetch, knows of its record r that
\* nobody reaped: the job is in flight until the thread ends it, and a loop that was cut
\* short leaves the cancellation flagged, or the record dropped, until the flag is tested
\* again.
Knows(r, st, left) ==
  /\ st \in Early => InFlight(r)
  /\ st \in {"cancelGet", "cancelStore"} => r.flagged
  /\ st = "cancelFlush" => r.flagged \/ ~Present(r)
  /\ st = "lastCheck" => left = 0 \/ r.flagged \/ ~Present(r)
  /\ st = "finalGet" => left = 0 \/ ~Present(r)
  /\ st = "finalStore" => left = 0

\* What is always true of a job's record r and of its thread t: the two properties
\* InFlightIsServed and CompletedMeansWritten, and what makes them inductive (a batch
\* is fetched only while some are left, all are fetched before the last flush, nothing
\* is pending after a flush, and a capital-flow job has no frames to write).
RowInv(r, t) ==
  /\ InFlight(r) => t.at # "none"
  /\ r.status = "cancelling" => r.flagged
  /\ r.status \in Completed => t.at = "none"
  /\ t.at = "batch" => t.left > 0
  /\ t.at = "flush" => t.left = 0
  /\ t.at \in {"lastCheck", "finalGet", "finalStore"} => ~t.pending
  /\ t.sig \in FlowSigs => ~t.pending
  /\ t.reaped \/ Knows(r, t.at, t.left)

IInv == /\ TypeOK
        /\ \A j \in Jobs : RowInv(job[j], worker[j])
        /\ NoDuplicateWork
        /\ WithinBudget

\* No job enters the in-flight states and no job in flight changes its signature.
NoneEnters ==
  \A j \in Jobs : InFlight(job'[j]) => InFlight(job[j]) /\ job'[j].sig = job[j].sig

-----------------------------------------------------------------------------
(* Lemmas about the helpers.                                               *)

LEMMA RowUpdate ==
  ASSUME NEW r \in Record, NEW st \in Status, NEW f \in (0 .. Retention) \cup {NotFinished},
         NEW p \in 0 .. RunStale
  PROVE  /\ [r EXCEPT !.status = st, !.finAge = f, !.progAge = p] \in Record
         /\ [r EXCEPT !.status = st, !.progAge = p, !.finAge = f] \in Record
  BY DEF Record

LEMMA RowReaped ==
  ASSUME NEW r \in Record, NEW st \in Status, NEW f \in (0 .. Retention) \cup {NotFinished}
  PROVE  [r EXCEPT !.status = st, !.flagged = FALSE, !.finAge = f] \in Record
  BY DEF Record

LEMMA FinishAgeType ==
  ASSUME NEW r \in Record
  PROVE  FinishAge(r) \in (0 .. Retention) \cup {NotFinished}
  BY LimitAssumption DEF FinishAge, Record

LEMMA RowCancelled ==
  ASSUME NEW r \in Record, NEW st \in Status, NEW a \in 0 .. RunStale
  PROVE  [r EXCEPT !.readAge = a, !.status = st, !.flagged = TRUE] \in Record
  BY DEF Record

LEMMA RowAdmitted ==
  ASSUME NEW r \in Record, NEW s \in Signatures, NEW a \in 0 .. RunStale
  PROVE  /\ [r EXCEPT !.sig = s, !.readAge = a] \in Record
         /\ [r EXCEPT !.sig = s, !.readAge = a].status = r.status
         /\ [r EXCEPT !.sig = s, !.readAge = a].sig = s
  BY DEF Record

LEMMA Zero == 0 \in 0 .. RunStale
  BY LimitAssumption

LEMMA PutFacts ==
  ASSUME NEW r \in Record, NEW st \in Status \ {"none"}
  PROVE  /\ Put(r, st) \in Record
         /\ Put(r, st).status = st
         /\ Put(r, st).sig = r.sig
         /\ Put(r, st).flagged = r.flagged
<1>1. 0 \in 0 .. RunStale /\ RunStale \in 0 .. RunStale
  BY LimitAssumption
<1>2. Put(r, st) \in Record
  BY <1>1, RowUpdate, FinishAgeType DEF Put
<1> QED
  BY <1>2 DEF Put, Record

LEMMA TouchFacts ==
  ASSUME NEW r \in Record
  PROVE  /\ Touch(r) \in Record
         /\ Touch(r).status = r.status
         /\ Touch(r).sig = r.sig
         /\ Touch(r).flagged = r.flagged
  BY LimitAssumption DEF Touch, Record

LEMMA AbsentFacts == Absent \in Record /\ ~InFlight(Absent) /\ Absent.status \notin Completed
  BY LimitAssumption DEF Absent, Record, Status, InFlight, Running, Completed

\* A pruned table is made of reaped rows and absent ones.
LEMMA PrunedRows ==
  ASSUME NEW table \in Pruned
  PROVE  /\ table = [j \in Jobs |-> table[j]]
         /\ \A j \in Jobs : table[j] \in {Reap(job[j]), Absent}
  BY DEF Pruned, Drop

\* Pruning never makes a job in flight, nor one completed, and leaves the rows in
\* flight as they were.
LEMMA PrunedFacts ==
  ASSUME TypeOK, NEW table \in Pruned
  PROVE  /\ table \in [Jobs -> Record]
         /\ \A j \in Jobs : InFlight(table[j]) => table[j] = job[j]
         /\ \A j \in Jobs : table[j].status \in Completed => table[j].status = job[j].status
<1>1. ASSUME NEW j \in Jobs
      PROVE  /\ Reap(job[j]) \in Record
             /\ InFlight(Reap(job[j])) => Reap(job[j]) = job[j]
             /\ Reap(job[j]).status \in Completed => Reap(job[j]).status = job[j].status
  <2>1. job[j] \in Record
    BY DEF TypeOK
  <2>2. Reap(job[j]) \in Record
    <3>1. "failed" \in Status
      BY DEF Status, Terminal
    <3> QED
      BY <2>1, <3>1, RowReaped, FinishAgeType DEF Reap
  <2>3. CASE Stalled(job[j])
    <3>1. Reap(job[j]).status = "failed"
      BY <2>1, <2>3 DEF Reap, Record
    <3> QED
      BY <2>2, <3>1 DEF InFlight, Running, Completed
  <2>4. CASE ~Stalled(job[j])
    BY <2>2, <2>4 DEF Reap
  <2> QED
    BY <2>3, <2>4
<1> QED
  BY <1>1, PrunedRows, AbsentFacts

\* A job in flight that is not stalled comes out of a prune as it was.
LEMMA PrunedSpares ==
  ASSUME TypeOK, NEW table \in Pruned, NEW j \in Jobs, InFlight(job[j]), ~Stalled(job[j])
  PROVE  table[j] = job[j]
<1>1. Reap(job[j]) = job[j] /\ ~Finished(job[j])
  BY DEF Reap, InFlight, Finished, Running, Terminal, Completed
<1> QED
  BY <1>1 DEF Pruned

\* The mark of a reaped record is all that a prune changes in a thread.
LEMMA MarkedFacts ==
  ASSUME TypeOK
  PROVE  /\ Marked \in [Jobs -> Thread]
         /\ \A j \in Jobs : /\ Marked[j].at = worker[j].at /\ Marked[j].sig = worker[j].sig
                             /\ Marked[j].left = worker[j].left
                             /\ Marked[j].pending = worker[j].pending
                             /\ (worker[j].reaped \/ Stalled(job[j]) => Marked[j].reaped)
<1>1. \A j \in Jobs : Stalled(job[j]) \in BOOLEAN
  BY DEF Stalled, InFlight
<1> QED
  BY <1>1 DEF Marked, TypeOK, Thread

LEMMA ThreadFacts ==
  ASSUME NEW t \in Thread, NEW st \in Stages
  PROVE  /\ [t EXCEPT !.at = st] \in Thread
         /\ [t EXCEPT !.at = st].at = st
         /\ [t EXCEPT !.at = st].sig = t.sig
         /\ [t EXCEPT !.at = st].left = t.left
         /\ [t EXCEPT !.at = st].pending = t.pending
         /\ [t EXCEPT !.at = st].reaped = t.reaped
  BY DEF Thread

LEMMA NoThreadFacts ==
  NoThread \in Thread /\ NoThread.at = "none" /\ NoThread.sig = NoSig /\ ~NoThread.pending
  BY LimitAssumption DEF NoThread, Thread, Stages

-----------------------------------------------------------------------------
(* Steps that put no job in flight keep the two global invariants.         *)

LEMMA InFlightFinite == IsFiniteSet(InFlightJobs)
  BY JobsAssumption, FS_Subset DEF InFlightJobs

LEMMA NoneEntersKeeps ==
  ASSUME IInv, NoneEnters
  PROVE  NoDuplicateWork' /\ WithinBudget'
<1>1. NoDuplicateWork'
  BY DEF IInv, NoneEnters, NoDuplicateWork
<1>2. InFlightJobs' \subseteq InFlightJobs
  BY DEF InFlightJobs, NoneEnters
<1>3. WithinBudget'
  <2>1. IsFiniteSet(InFlightJobs') /\ Cardinality(InFlightJobs') <= Cardinality(InFlightJobs)
    BY <1>2, InFlightFinite, FS_Subset
  <2>2. Cardinality(InFlightJobs') \in Nat /\ Cardinality(InFlightJobs) \in Nat
    BY <2>1, InFlightFinite, FS_CardinalityType
  <2> QED
    BY <2>1, <2>2, LimitAssumption DEF IInv, WithinBudget
<1> QED
  BY <1>1, <1>3

\* A step that changes one job: its new record r and thread t are all that counts.
LEMMA OneRow ==
  ASSUME IInv, NEW j \in Jobs, NEW r \in Record, NEW t \in Thread,
         job' = [job EXCEPT ![j] = r], worker' = [worker EXCEPT ![j] = t],
         InFlight(r) => InFlight(job[j]) /\ r.sig = job[j].sig,
         RowInv(r, t)
  PROVE  IInv'
<1>1. TypeOK'
  BY DEF IInv, TypeOK
<1>2. \A i \in Jobs : /\ job'[i] = IF i = j THEN r ELSE job[i]
                      /\ worker'[i] = IF i = j THEN t ELSE worker[i]
  BY DEF IInv, TypeOK
<1>3. \A i \in Jobs : RowInv(job'[i], worker'[i])
  BY <1>2 DEF IInv
<1>4. NoneEnters
  BY <1>2 DEF NoneEnters
<1> QED
  BY <1>1, <1>3, <1>4, NoneEntersKeeps DEF IInv

-----------------------------------------------------------------------------
(* One lemma per action.  Each names the new record and thread of its job. *)

LEMMA Rows ==
  ASSUME IInv, NEW j \in Jobs
  PROVE  /\ job[j] \in Record /\ worker[j] \in Thread /\ RowInv(job[j], worker[j])
         /\ job = [job EXCEPT ![j] = job[j]]
         /\ worker = [worker EXCEPT ![j] = worker[j]]
  BY DEF IInv, TypeOK

LEMMA GetJobStep ==
  ASSUME IInv, NEW j \in Jobs, GetJob(j)
  PROVE  IInv'
<1> DEFINE r == [job[j] EXCEPT !.readAge = 0]
<1>1. r \in Record /\ r.status = job[j].status /\ r.sig = job[j].sig /\ r.flagged = job[j].flagged
  BY Rows, LimitAssumption DEF Record
<1>2. job' = [job EXCEPT ![j] = r] /\ worker' = [worker EXCEPT ![j] = worker[j]]
  BY Rows DEF GetJob
<1>3. RowInv(r, worker[j])
  BY <1>1, Rows DEF RowInv, Knows, InFlight, Present
<1> QED
  BY <1>1, <1>2, <1>3, Rows, OneRow DEF InFlight

LEMMA CancelJobStep ==
  ASSUME IInv, NEW j \in Jobs, CancelJob(j)
  PROVE  IInv'
<1>1. CASE job[j].status = "running"
  <2> DEFINE r == [job[j] EXCEPT !.readAge = 0, !.status = "cancelling", !.flagged = TRUE]
  <2>1. r \in Record /\ r.status = "cancelling" /\ r.sig = job[j].sig /\ r.flagged
    <3>1. "cancelling" \in Status
      BY DEF Status, Running
    <3> QED
      BY <3>1, Rows, Zero, RowCancelled DEF Record
  <2>2. job' = [job EXCEPT ![j] = r] /\ worker' = [worker EXCEPT ![j] = worker[j]]
    BY <1>1, Rows DEF CancelJob
  <2>3. InFlight(job[j])
    BY <1>1 DEF InFlight, Running
  <2>4. RowInv(r, worker[j])
    <3>1. InFlight(r) /\ Present(job[j])
      BY <1>1, <2>1 DEF InFlight, Running, Present
    <3> QED
      BY <2>1, <2>3, <3>1, Rows DEF RowInv, Knows, Completed
  <2> QED
    BY <2>1, <2>2, <2>3, <2>4, Rows, OneRow
<1>2. CASE job[j].status # "running"
  BY <1>2, GetJobStep DEF CancelJob, GetJob
<1> QED
  BY <1>1, <1>2

LEMMA TickStep ==
  ASSUME IInv, Tick
  PROVE  IInv'
<1>1. ASSUME NEW j \in Jobs
      PROVE  /\ job'[j] \in Record
             /\ job'[j].status = job[j].status
             /\ job'[j].sig = job[j].sig
             /\ job'[j].flagged = job[j].flagged
  <2>1. /\ \A a \in 0 .. RunStale : Grow(a, RunStale) \in 0 .. RunStale
        /\ \A a \in 0 .. Retention : Grow(a, Retention) \in 0 .. Retention
    BY LimitAssumption DEF Grow
  <2> DEFINE f == IF job[j].finAge = NotFinished THEN job[j].finAge ELSE Grow(job[j].finAge, Retention)
  <2>2. f \in (0 .. Retention) \cup {NotFinished}
    BY <2>1, Rows DEF Record
  <2>3. job'[j] = [job[j] EXCEPT !.readAge = Grow(job[j].readAge, RunStale),
                                 !.progAge = Grow(job[j].progAge, RunStale), !.finAge = f]
    BY DEF Tick
  <2>4. job[j].readAge \in 0 .. RunStale /\ job[j].progAge \in 0 .. RunStale
    BY Rows DEF Record
  <2>5. Grow(job[j].readAge, RunStale) \in 0 .. RunStale /\ Grow(job[j].progAge, RunStale) \in 0 .. RunStale
    BY <2>1, <2>4
  <2> HIDE DEF f
  <2> QED
    BY <2>2, <2>3, <2>5, Rows DEF Record
<1>2. TypeOK'
  BY <1>1 DEF IInv, TypeOK, Tick
<1>3. \A j \in Jobs : RowInv(job'[j], worker'[j])
  BY <1>1, ZenonT(40) DEF IInv, RowInv, Knows, InFlight, Present, Tick
<1>4. NoneEnters
  BY <1>1 DEF NoneEnters, InFlight
<1> QED
  BY <1>2, <1>3, <1>4, NoneEntersKeeps DEF IInv

LEMMA RequestStep ==
  ASSUME IInv, NEW s \in Signatures, Request(s)
  PROVE  IInv'
<1>0. /\ Marked \in [Jobs -> Thread]
      /\ \A j \in Jobs : /\ Marked[j].at = worker[j].at /\ Marked[j].sig = worker[j].sig
                          /\ Marked[j].left = worker[j].left
                          /\ Marked[j].pending = worker[j].pending
                          /\ (worker[j].reaped \/ Stalled(job[j]) => Marked[j].reaped)
  BY MarkedFacts DEF IInv
<1>1. PICK table \in Pruned : Reuse(table, s) \/ Refuse(table, s) \/ Create(table, s)
  BY DEF Request
<1>2. /\ table \in [Jobs -> Record]
      /\ \A j \in Jobs : InFlight(table[j]) => table[j] = job[j]
      /\ \A j \in Jobs : table[j].status \in Completed => table[j].status = job[j].status
  BY <1>1, PrunedFacts DEF IInv
<1>3. \A j \in Jobs : RowInv(table[j], Marked[j])
  <2> TAKE j \in Jobs
  <2>1. table[j].status = "cancelling" => InFlight(table[j])
    BY DEF InFlight, Running
  <2> DEFINE t == Marked[j]
  <2>2. /\ t.at = worker[j].at /\ t.sig = worker[j].sig
        /\ t.left = worker[j].left /\ t.pending = worker[j].pending
        /\ worker[j].reaped \/ Stalled(job[j]) => t.reaped
    BY <1>0
  <2> HIDE DEF t
  <2>3. ASSUME ~t.reaped PROVE Knows(table[j], worker[j].at, worker[j].left)
    <3>1. ~worker[j].reaped /\ ~Stalled(job[j])
      BY <2>2, <2>3
    <3>2. Knows(job[j], worker[j].at, worker[j].left)
      BY <3>1, Rows DEF RowInv
    <3>3. table[j] = job[j] \/ table[j] = Absent
      BY <1>1, <3>1, PrunedRows DEF Reap
    <3>4. InFlight(job[j]) => table[j] = job[j]
      BY <1>1, <3>1, PrunedSpares DEF IInv
    <3>5. CASE table[j] = job[j]
      BY <3>2, <3>5
    <3>6. CASE table[j] = Absent /\ ~InFlight(job[j])
      BY <3>2, <3>6 DEF Knows, Early, Present, Absent
    <3> QED
      BY <3>3, <3>4, <3>5, <3>6
  <2>4. RowInv(table[j], t)
    BY <1>2, <2>1, <2>2, <2>3, Rows DEF RowInv
  <2> QED
    BY <2>4 DEF t
<1>4. CASE Refuse(table, s)
  <2>1. TypeOK'
    BY <1>0, <1>2, <1>4 DEF Refuse, TypeOK, IInv
  <2>2. NoneEnters
    BY <1>2, <1>4 DEF Refuse, NoneEnters
  <2>3. \A j \in Jobs : RowInv(job'[j], worker'[j])
    BY <1>3, <1>4 DEF Refuse
  <2> QED
    BY <2>1, <2>2, <2>3, NoneEntersKeeps DEF IInv
<1>5. CASE Reuse(table, s)
  <2>1. PICK j \in Jobs : job' = [table EXCEPT ![j].readAge = 0]
    BY <1>5 DEF Reuse
  <2> DEFINE r == [table[j] EXCEPT !.readAge = 0]
  <2>2. r \in Record /\ r.status = table[j].status /\ r.sig = table[j].sig /\ r.flagged = table[j].flagged
    BY <1>2, LimitAssumption DEF Record
  <2>3. \A i \in Jobs : job'[i] = IF i = j THEN r ELSE table[i]
    BY <1>2, <2>1
  <2>4. TypeOK'
    BY <1>0, <1>2, <1>5, <2>1, <2>2 DEF Reuse, TypeOK, IInv
  <2>5. NoneEnters
    BY <1>2, <2>2, <2>3 DEF NoneEnters, InFlight
  <2>6. \A i \in Jobs : RowInv(job'[i], worker'[i])
    BY <1>3, <1>5, <2>2, <2>3 DEF Reuse, RowInv, Knows, InFlight, Present
  <2> QED
    BY <2>4, <2>5, <2>6, NoneEntersKeeps DEF IInv
<1>6. CASE Create(table, s)
  <2> DEFINE r == [Put(Absent, "running") EXCEPT !.sig = s, !.readAge = 0]
  <2>1. PICK j \in Jobs, n \in 1 .. MaxBatches :
          /\ worker[j].at = "none"
          /\ job' = [table EXCEPT ![j] = r]
          /\ worker' = [Marked EXCEPT ![j] = [NoThread EXCEPT !.at = "admitted", !.sig = s, !.left = n]]
    BY <1>6 DEF Create
  <2> DEFINE t == [NoThread EXCEPT !.at = "admitted", !.sig = s, !.left = n]
  <2>2. r \in Record /\ r.status = "running" /\ r.sig = s
    <3>1. "running" \in Status \ {"none"}
      BY DEF Status, Running
    <3>2. Put(Absent, "running") \in Record /\ Put(Absent, "running").status = "running"
      BY <3>1, AbsentFacts, PutFacts
    <3>3. \A p \in Record : /\ [p EXCEPT !.sig = s, !.readAge = 0] \in Record
                            /\ [p EXCEPT !.sig = s, !.readAge = 0].status = p.status
                            /\ [p EXCEPT !.sig = s, !.readAge = 0].sig = s
      BY Zero, RowAdmitted, ZenonT(40)
    <3> QED
      BY <3>2, <3>3
  <2>3. t \in Thread /\ t.at = "admitted" /\ ~t.pending
    <3>1. n \in 0 .. MaxBatches /\ "admitted" \in Stages
      BY LimitAssumption DEF Stages
    <3>2. t \in Thread /\ t.at = "admitted"
      BY <3>1, NoThreadFacts DEF Thread
    <3>3. t.pending = FALSE
      BY DEF NoThread
    <3> QED
      BY <3>2, <3>3
  <2>4. \A i \in Jobs : /\ job'[i] = IF i = j THEN r ELSE table[i]
                        /\ worker'[i] = IF i = j THEN t ELSE Marked[i]
    BY <1>0, <1>2, <2>1 DEF IInv, TypeOK
  <2>5. TypeOK'
    BY <1>0, <1>2, <2>1, <2>2, <2>3 DEF TypeOK, IInv
  <2>6. \A i \in Jobs : RowInv(job'[i], worker'[i])
    <3>1. RowInv(r, t)
      BY <2>2, <2>3 DEF RowInv, Knows, InFlight, Running, Completed
    <3> QED
      BY <1>3, <2>4, <3>1
  <2>7. NoDuplicateWork'
    <3>1. \A i \in Jobs \ {j} : InFlight(job'[i]) => job'[i] = job[i] /\ InFlight(job[i]) /\ job[i].sig # s
      BY <1>2, <1>6, <2>4 DEF Create, NoTwin
    <3>2. job'[j].sig = s
      BY <2>2, <2>4
    <3>3. \A i \in Jobs \ {j} : InFlight(job'[i]) => job'[i].sig # job'[j].sig
      BY <3>1, <3>2
    <3>4. \A i, k \in Jobs \ {j} :
            i # k /\ InFlight(job'[i]) /\ InFlight(job'[k]) => job'[i].sig # job'[k].sig
      BY <3>1 DEF NoDuplicateWork, IInv
    <3> QED
      BY <3>3, <3>4 DEF NoDuplicateWork
  <2>8. WithinBudget'
    <3> DEFINE A == {i \in Jobs : InFlight(table[i])}
    <3>1. InFlightJobs' \subseteq A \cup {j}
      BY <2>4 DEF InFlightJobs
    <3>2. IsFiniteSet(A) /\ Cardinality(A) \in Nat
      BY JobsAssumption, FS_Subset, FS_CardinalityType
    <3>3. Cardinality(A) < Budget
      BY <1>6, <3>2, LimitAssumption DEF Create, Busy
    <3>4. IsFiniteSet(A \cup {j}) /\ Cardinality(A \cup {j}) <= Cardinality(A) + 1
      <4>1. Cardinality(A \cup {j}) = IF j \in A THEN Cardinality(A) ELSE Cardinality(A) + 1
        BY <3>2, FS_AddElement
      <4>2. IsFiniteSet(A \cup {j})
        BY <3>2, FS_AddElement
      <4> HIDE DEF A
      <4> QED
        BY <3>2, <4>1, <4>2
    <3>5. IsFiniteSet(InFlightJobs') /\ Cardinality(InFlightJobs') <= Cardinality(A \cup {j})
      BY <3>1, <3>4, FS_Subset
    <3>6. Cardinality(InFlightJobs') \in Nat /\ Cardinality(A \cup {j}) \in Nat
      BY <3>4, <3>5, FS_CardinalityType
    <3> HIDE DEF A
    <3> QED
      BY <3>2, <3>3, <3>4, <3>5, <3>6, LimitAssumption DEF WithinBudget
  <2> QED
    BY <2>5, <2>6, <2>7, <2>8 DEF IInv
<1> QED
  BY <1>1, <1>4, <1>5, <1>6

-----------------------------------------------------------------------------
(* The steps of a thread.                                                  *)

\* A thread that moves to another stage and leaves its job alone, or touches it.
Moves(j, st) ==
  /\ worker[j].at # "none" /\ st \in Stages \ {"none"}
  /\ st = "batch" => worker[j].left > 0
  /\ st = "flush" => worker[j].left = 0
  /\ st \in {"lastCheck", "finalGet", "finalStore"} => ~worker[j].pending
  /\ worker[j].reaped \/ Knows(job[j], st, worker[j].left)

LEMMA MoveRow ==
  ASSUME IInv, NEW j \in Jobs, NEW st, Moves(j, st)
  PROVE  /\ [worker[j] EXCEPT !.at = st] \in Thread
         /\ RowInv(job[j], [worker[j] EXCEPT !.at = st])
<1>1. worker[j] \in Thread /\ RowInv(job[j], worker[j])
  BY Rows
<1>2. st \in Stages /\ st # "none"
  BY DEF Moves
<1>3. /\ [worker[j] EXCEPT !.at = st] \in Thread
      /\ [worker[j] EXCEPT !.at = st].at = st
      /\ [worker[j] EXCEPT !.at = st].sig = worker[j].sig
      /\ [worker[j] EXCEPT !.at = st].left = worker[j].left
      /\ [worker[j] EXCEPT !.at = st].pending = worker[j].pending
      /\ [worker[j] EXCEPT !.at = st].reaped = worker[j].reaped
  BY <1>1, <1>2, ThreadFacts
<1> QED
  BY <1>1, <1>2, <1>3 DEF RowInv, Moves

LEMMA GotoStep ==
  ASSUME IInv, NEW j \in Jobs, NEW st, Goto(j, st), job' = job, Moves(j, st)
  PROVE  IInv'
<1>1. job' = [job EXCEPT ![j] = job[j]]
  BY Rows
<1>2. worker' = [worker EXCEPT ![j] = [worker[j] EXCEPT !.at = st]]
  BY DEF Goto
<1> QED
  BY <1>1, <1>2, Rows, MoveRow, OneRow

LEMMA TouchGotoStep ==
  ASSUME IInv, NEW j \in Jobs, NEW st, NEW f \in BOOLEAN, Moves(j, st),
         job' = [job EXCEPT ![j] = Touch(job[j])],
         worker' = [worker EXCEPT ![j] = [[worker[j] EXCEPT !.at = st] EXCEPT !.failures = f]]
  PROVE  IInv'
<1> DEFINE t == [worker[j] EXCEPT !.at = st]
<1> DEFINE u == [t EXCEPT !.failures = f]
<1>1. t \in Thread /\ RowInv(job[j], t)
  BY MoveRow
<1>2. /\ u \in Thread /\ u.at = t.at /\ u.sig = t.sig /\ u.left = t.left /\ u.pending = t.pending
      /\ u.reaped = t.reaped
  <2> HIDE DEF t
  <2> QED
    BY <1>1 DEF Thread
<1>3. /\ Touch(job[j]) \in Record /\ Touch(job[j]).status = job[j].status
      /\ Touch(job[j]).sig = job[j].sig /\ Touch(job[j]).flagged = job[j].flagged
  BY Rows, TouchFacts
<1>4. RowInv(Touch(job[j]), u)
  <2> HIDE DEF t, u
  <2> QED
    BY <1>1, <1>2, <1>3 DEF RowInv, Knows, InFlight, Present
<1> HIDE DEF u
<1> QED
  BY <1>2, <1>3, <1>4, OneRow DEF InFlight, u, t

\* A thread that ends: its job is not in flight (any more).
LEMMA DoneStep ==
  ASSUME IInv, NEW j \in Jobs, NEW r \in Record, Done(j),
         job' = [job EXCEPT ![j] = r], ~InFlight(r)
  PROVE  IInv'
<1>1. NoThread \in Thread
  BY NoThreadFacts
<1>2. RowInv(r, NoThread)
  BY NoThreadFacts, SigAssumption DEF RowInv, Knows, Early, InFlight, Running
<1> QED
  BY <1>1, <1>2, OneRow DEF Done

\* Storing a terminal status: neither the record nor its job is in flight.
LEMMA PutTerminal ==
  ASSUME IInv, NEW j \in Jobs, NEW f \in BOOLEAN, NEW st \in Terminal
  PROVE  /\ Put([job[j] EXCEPT !.failures = f], st) \in Record
         /\ Put([job[j] EXCEPT !.failures = f], st).status = st
         /\ Put([job[j] EXCEPT !.failures = f], st).flagged = job[j].flagged
         /\ ~InFlight(Put([job[j] EXCEPT !.failures = f], st))
<1> DEFINE c == [job[j] EXCEPT !.failures = f]
<1>1. c \in Record /\ c.flagged = job[j].flagged
  BY Rows DEF Record
<1>2. st \in Status \ {"none"} /\ st \notin Running
  BY DEF Status, Terminal, Completed, Running
<1> HIDE DEF c
<1>3. Put(c, st) \in Record /\ Put(c, st).status = st /\ Put(c, st).flagged = c.flagged
  BY <1>1, <1>2, PutFacts
<1> QED
  BY <1>1, <1>2, <1>3 DEF InFlight, c

LEMMA CopyStep ==
  ASSUME IInv, NEW j \in Jobs, NEW from, NEW next, NEW gone, Copy(j, from, next, gone),
         Present(job[j]) => Moves(j, next),
         gone # "none" /\ ~Present(job[j]) => Moves(j, gone)
  PROVE  IInv'
<1>1. CASE Present(job[j])
  <2>1. job[j].failures \in BOOLEAN
    BY Rows DEF Record
  <2>2. job' = [job EXCEPT ![j] = Touch(job[j])]
    BY <1>1 DEF Copy, Touch
  <2>3. worker' = [worker EXCEPT ![j] = [[worker[j] EXCEPT !.at = next] EXCEPT !.failures = job[j].failures]]
    BY <1>1, Rows DEF Copy
  <2> QED
    BY <1>1, <2>1, <2>2, <2>3, TouchGotoStep
<1>2. CASE ~Present(job[j])
  <2>1. ~InFlight(job[j]) /\ job' = job
    BY <1>2 DEF Present, InFlight, Running, Copy
  <2>2. CASE gone = "none"
    <3>1. Done(j)
      BY <1>2, <2>2 DEF Copy
    <3> QED
      BY <2>1, <3>1, Rows, DoneStep
  <2>3. CASE gone # "none"
    <3>1. Goto(j, gone)
      BY <1>2, <2>3 DEF Copy
    <3> QED
      BY <1>2, <2>1, <2>3, <3>1, GotoStep
  <2> QED
    BY <2>2, <2>3
<1> QED
  BY <1>1, <1>2

LEMMA BatchStep ==
  ASSUME IInv, NEW j \in Jobs, Batch(j)
  PROVE  IInv'
<1>1. worker[j].at = "batch" /\ worker[j] \in Thread
  BY Rows DEF Batch
<1>2. PICK r \in Record :
        /\ job' = [job EXCEPT ![j] = r]
        /\ r.status = job[j].status /\ r.sig = job[j].sig /\ r.flagged = job[j].flagged
  <2>1. CASE ~Present(job[j])
    BY <2>1, Rows DEF Batch
  <2>2. CASE Present(job[j])
    <3>1. PICK c \in {Touch(job[j]), [Touch(job[j]) EXCEPT !.failures = TRUE]} :
            job' = [job EXCEPT ![j] = Put(c, job[j].status)]
      BY <2>2 DEF Batch
    <3>2. job[j].status \in Status \ {"none"}
      BY <2>2, Rows DEF Present, Record
    <3>3. Touch(job[j]) \in Record /\ Touch(job[j]).sig = job[j].sig /\ Touch(job[j]).flagged = job[j].flagged
      BY Rows, TouchFacts
    <3>4. c \in Record /\ c.sig = job[j].sig /\ c.flagged = job[j].flagged
      <4> DEFINE d == Touch(job[j])
      <4>1. d \in Record
        BY <3>3
      <4> HIDE DEF d
      <4>2. /\ [d EXCEPT !.failures = TRUE] \in Record
            /\ [d EXCEPT !.failures = TRUE].sig = d.sig
            /\ [d EXCEPT !.failures = TRUE].flagged = d.flagged
        BY <4>1 DEF Record
      <4> QED
        BY <3>3, <4>2 DEF d
    <3> DEFINE p == Put(c, job[j].status)
    <3>5. p \in Record /\ p.status = job[j].status /\ p.sig = c.sig /\ p.flagged = c.flagged
      BY <3>2, <3>4, PutFacts
    <3>6. job' = [job EXCEPT ![j] = p]
      BY <3>1
    <3> HIDE DEF p
    <3> QED
      BY <3>4, <3>5, <3>6
  <2> QED
    BY <2>1, <2>2
<1>3. PICK t \in Thread : worker' = [worker EXCEPT ![j] = t] /\ RowInv(job[j], t)
  <2>1. /\ worker[j].sig \in FlowSigs => ~worker[j].pending
        /\ job[j].status \notin Completed
        /\ worker[j].reaped \/ InFlight(job[j])
    BY <1>1, Rows DEF RowInv, Knows, Early
  <2>2. job[j].status = "cancelling" => job[j].flagged
    BY Rows DEF RowInv
  <2>3. worker[j].left - 1 \in 0 .. MaxBatches
    <3>1. worker[j].left \in 0 .. MaxBatches
      BY <1>1 DEF Thread
    <3>2. worker[j].left > 0
      BY <1>1, Rows DEF RowInv
    <3> QED
      BY <3>1, <3>2, LimitAssumption
  <2>4. CASE /\ Full(j)
             /\ \E p \in BOOLEAN :
                  worker' = [worker EXCEPT ![j].at = "check", ![j].left = @ - 1, ![j].pending = p]
    <3>1. PICK p \in BOOLEAN :
            worker' = [worker EXCEPT ![j] = [worker[j] EXCEPT !.at = "check", !.left = worker[j].left - 1, !.pending = p]]
      BY <2>4
    <3> DEFINE t == [worker[j] EXCEPT !.at = "check", !.left = worker[j].left - 1, !.pending = p]
    <3>2. t \in Thread /\ t.at = "check" /\ t.sig = worker[j].sig /\ t.reaped = worker[j].reaped
      BY <1>1, <2>3 DEF Thread, Stages
    <3> HIDE DEF t
    <3>3. RowInv(job[j], t)
      BY <2>1, <2>2, <2>4, <3>2 DEF RowInv, Knows, Early, Full
    <3> QED
      BY <3>1, <3>2, <3>3 DEF t
  <2>5. CASE Full(j) /\ worker' = [worker EXCEPT ![j].at = "failGet", ![j].pending = TRUE]
    <3> DEFINE t == [worker[j] EXCEPT !.at = "failGet", !.pending = TRUE]
    <3>1. worker' = [worker EXCEPT ![j] = t]
      BY <2>5
    <3>2. t \in Thread /\ t.at = "failGet" /\ t.sig = worker[j].sig /\ t.reaped = worker[j].reaped
      BY <1>1 DEF Thread, Stages
    <3> HIDE DEF t
    <3>3. RowInv(job[j], t)
      BY <2>1, <2>2, <2>5, <3>2 DEF RowInv, Knows, Early, Full
    <3> QED
      BY <3>1, <3>2, <3>3
  <2>6. CASE ~Full(j) /\ worker' = [worker EXCEPT ![j].at = "check", ![j].left = @ - 1]
    <3> DEFINE t == [worker[j] EXCEPT !.at = "check", !.left = worker[j].left - 1]
    <3>1. worker' = [worker EXCEPT ![j] = t]
      BY <2>6
    <3>2. /\ t \in Thread /\ t.at = "check" /\ t.sig = worker[j].sig /\ t.pending = worker[j].pending
          /\ t.reaped = worker[j].reaped
      BY <1>1, <2>3 DEF Thread, Stages
    <3> HIDE DEF t
    <3>3. RowInv(job[j], t)
      BY <2>1, <2>2, <3>2 DEF RowInv, Knows, Early
    <3> QED
      BY <3>1, <3>2, <3>3
  <2>7. CASE Goto(j, "failGet")
    <3>1. Moves(j, "failGet")
      BY <1>1 DEF Moves, Stages, Knows, Early
    <3> QED
      BY <2>7, <3>1, MoveRow DEF Goto
  <2> QED
    BY <2>4, <2>5, <2>6, <2>7 DEF Batch
<1> QED
  BY <1>2, <1>3, OneRow DEF RowInv, Knows, InFlight, Present

LEMMA StoreEmptyStep ==
  ASSUME IInv, NEW j \in Jobs, StoreEmpty(j)
  PROVE  IInv'
<1> DEFINE p == Put([job[j] EXCEPT !.failures = FALSE], "completed")
<1>1. p \in Record /\ ~InFlight(p)
  <2>1. "completed" \in Terminal
    BY DEF Terminal, Completed
  <2> QED
    BY <2>1, PutTerminal
<1>2. job' = [job EXCEPT ![j] = Touch(p)]
  BY DEF StoreEmpty
<1> HIDE DEF p
<1>3. Touch(p) \in Record /\ ~InFlight(Touch(p))
  BY <1>1, TouchFacts DEF InFlight
<1> QED
  BY <1>2, <1>3, DoneStep DEF StoreEmpty

LEMMA StartThreadStep ==
  ASSUME IInv, NEW j \in Jobs, StartThread(j)
  PROVE  IInv'
<1>1. Moves(j, "start")
  BY Rows DEF StartThread, Moves, Stages, RowInv, Knows, Early
<1>2. /\ Touch(job[j]) \in Record /\ Touch(job[j]).status = job[j].status
      /\ Touch(job[j]).sig = job[j].sig /\ Touch(job[j]).flagged = job[j].flagged
  BY Rows, TouchFacts
<1> DEFINE t == [worker[j] EXCEPT !.at = "start"]
<1>3. t \in Thread /\ RowInv(job[j], t)
  BY <1>1, MoveRow
<1>4. job' = [job EXCEPT ![j] = Touch(job[j])] /\ worker' = [worker EXCEPT ![j] = t]
  BY DEF StartThread, Goto
<1> HIDE DEF t
<1>5. RowInv(Touch(job[j]), t)
  BY <1>2, <1>3 DEF RowInv, Knows, InFlight, Present
<1> QED
  BY <1>2, <1>3, <1>4, <1>5, OneRow DEF InFlight

\* Begin, Check, Flush and LastCheck leave the job alone.
LEMMA BeginStep ==
  ASSUME IInv, NEW j \in Jobs, Begin(j)
  PROVE  IInv'
<1>1. PICK next \in {"check", "failGet"} : Goto(j, next)
  BY DEF Begin
<1>2. Moves(j, next) /\ job' = job
  BY Rows DEF Begin, Moves, Stages, RowInv, Knows, Early
<1> QED
  BY <1>1, <1>2, GotoStep

LEMMA CheckStep ==
  ASSUME IInv, NEW j \in Jobs, Check(j)
  PROVE  IInv'
<1>1. /\ worker[j].at = "check" /\ job' = job /\ worker[j].left \in 0 .. MaxBatches
      /\ worker[j].reaped \/ InFlight(job[j])
  BY Rows DEF Check, Thread, RowInv, Knows, Early
<1>2. CASE job[j].flagged /\ Goto(j, "cancelGet")
  BY <1>1, <1>2, GotoStep DEF Moves, Stages, Knows
<1>3. CASE worker[j].left > 0 /\ Goto(j, "batch")
  BY <1>1, <1>3, GotoStep DEF Moves, Stages, Knows
<1>4. CASE worker[j].left = 0 /\ Full(j) /\ Goto(j, "flush")
  BY <1>1, <1>4, GotoStep DEF Moves, Stages, Knows
<1>5. CASE worker[j].left = 0 /\ ~Full(j) /\ Goto(j, "finalGet")
  <2>1. ~worker[j].pending
    BY <1>5, Rows DEF RowInv, Full
  <2> QED
    BY <1>1, <1>5, <2>1, GotoStep DEF Moves, Stages, Knows, Early
<1>6. worker[j].left > 0 \/ worker[j].left = 0
  BY <1>1, LimitAssumption
<1> QED
  BY <1>2, <1>3, <1>4, <1>5, <1>6 DEF Check

\* A flush leaves nothing pending; then the flag is tested once more.
LEMMA FlushedStep ==
  ASSUME IInv, NEW j \in Jobs, worker[j].at \in {"flush", "cancelFlush"}, job' = job,
         worker' = [worker EXCEPT ![j].at = "lastCheck", ![j].pending = FALSE],
         worker[j].reaped \/ Knows(job[j], "lastCheck", worker[j].left)
  PROVE  IInv'
<1> DEFINE t == [worker[j] EXCEPT !.at = "lastCheck", !.pending = FALSE]
<1>1. worker' = [worker EXCEPT ![j] = t]
  OBVIOUS
<1>2. /\ t \in Thread /\ t.at = "lastCheck" /\ t.left = worker[j].left /\ t.pending = FALSE
      /\ t.reaped = worker[j].reaped
  BY Rows DEF Thread, Stages
<1>3. job[j].status \notin Completed
  BY Rows DEF RowInv
<1> HIDE DEF t
<1>4. RowInv(job[j], t)
  BY <1>2, <1>3, Rows DEF RowInv
<1> QED
  BY <1>1, <1>2, <1>4, Rows, OneRow

LEMMA FlushStep ==
  ASSUME IInv, NEW j \in Jobs, Flush(j)
  PROVE  IInv'
<1>1. worker[j].at = "flush" /\ job' = job /\ worker[j] \in Thread
  BY Rows DEF Flush
<1>2. CASE Goto(j, "failGet")
  BY <1>1, <1>2, GotoStep DEF Moves, Stages, Knows, Early
<1>3. CASE worker' = [worker EXCEPT ![j].at = "lastCheck", ![j].pending = FALSE]
  <2>1. worker[j].left = 0
    BY <1>1, Rows DEF RowInv
  <2> QED
    BY <1>1, <1>3, <2>1, FlushedStep DEF Knows, Early
<1> QED
  BY <1>2, <1>3 DEF Flush

LEMMA LastCheckStep ==
  ASSUME IInv, NEW j \in Jobs, LastCheck(j)
  PROVE  IInv'
<1>1. worker[j].at = "lastCheck" /\ job' = job
  BY DEF LastCheck
<1>2. /\ ~worker[j].pending
      /\ worker[j].reaped \/ Knows(job[j], "lastCheck", worker[j].left)
  BY <1>1, Rows DEF RowInv
<1>3. CASE job[j].flagged /\ Goto(j, "endGet")
  BY <1>1, <1>2, <1>3, GotoStep DEF Moves, Stages, Knows, Early
<1>4. CASE ~job[j].flagged /\ Goto(j, "finalGet")
  BY <1>1, <1>2, <1>4, GotoStep DEF Moves, Stages, Knows, Early
<1> QED
  BY <1>3, <1>4 DEF LastCheck

\* The four copies and the five stores.
LEMMA GetStep ==
  ASSUME IInv, NEW j \in Jobs, CancelGet(j) \/ EndGet(j) \/ FinalGet(j) \/ FailGet(j)
  PROVE  IInv'
<1>1. CASE CancelGet(j)
  <2>1. /\ worker[j].at = "cancelGet"
        /\ worker[j].reaped \/ (InFlight(job[j]) /\ job[j].flagged)
    BY <1>1, Rows DEF CancelGet, Copy, RowInv, Knows, Early
  <2>2. Moves(j, "cancelStore")
    BY <2>1 DEF Moves, Stages, Knows
  <2>3. AfterCancel(j) # "none" => Moves(j, AfterCancel(j))
    BY <2>1 DEF Moves, Stages, AfterCancel, Knows, Early
  <2> QED
    BY <1>1, <2>2, <2>3, CopyStep DEF CancelGet
<1>2. CASE FinalGet(j)
  <2>1. worker[j].at = "finalGet"
    BY <1>2 DEF FinalGet, Copy
  <2>2. /\ ~worker[j].pending
        /\ worker[j].reaped \/ worker[j].left = 0 \/ ~Present(job[j])
    BY <2>1, Rows DEF RowInv, Knows
  <2>3. Present(job[j]) => Moves(j, "finalStore")
    BY <2>1, <2>2 DEF Moves, Stages, Knows, Early
  <2> QED
    BY <1>2, <2>3, CopyStep DEF FinalGet
<1>3. CASE FailGet(j)
  <2>1. worker[j].at = "failGet"
    BY <1>3 DEF FailGet, Copy
  <2>2. Moves(j, "failStore")
    BY <2>1 DEF Moves, Stages, Knows, Early
  <2> QED
    BY <1>3, <2>2, CopyStep DEF FailGet
<1>4. CASE EndGet(j)
  <2>1. worker[j].at = "endGet"
    BY <1>4 DEF EndGet, Copy
  <2>2. Moves(j, "endStore")
    BY <2>1 DEF Moves, Stages, Knows, Early
  <2> QED
    BY <1>4, <2>2, CopyStep DEF EndGet
<1> QED
  BY <1>1, <1>2, <1>3, <1>4

LEMMA StoreStep ==
  ASSUME IInv, NEW j \in Jobs, CancelStore(j) \/ EndStore(j) \/ FinalStore(j) \/ FailStore(j)
  PROVE  IInv'
<1>1. worker[j].failures \in BOOLEAN
  BY Rows DEF Thread
<1>2. ASSUME NEW st \in Terminal, Store(j, st), Done(j)
      PROVE  IInv'
  <2> DEFINE r == Put([job[j] EXCEPT !.failures = worker[j].failures], st)
  <2>1. r \in Record /\ ~InFlight(r)
    BY <1>1, <1>2, PutTerminal
  <2>2. job' = [job EXCEPT ![j] = r]
    BY <1>2 DEF Store
  <2> HIDE DEF r
  <2> QED
    BY <1>2, <2>1, <2>2, DoneStep
<1>3. CASE CancelStore(j) /\ Full(j)
  <2> DEFINE r == Put([job[j] EXCEPT !.failures = worker[j].failures], "cancelled")
  <2>1. r \in Record /\ r.status = "cancelled" /\ r.flagged = job[j].flagged /\ ~InFlight(r)
    <3>1. "cancelled" \in Terminal
      BY DEF Terminal
    <3> QED
      BY <1>1, <3>1, PutTerminal
  <2>2. job' = [job EXCEPT ![j] = r]
    BY <1>3 DEF CancelStore, Store
  <2> DEFINE t == [worker[j] EXCEPT !.at = "cancelFlush"]
  <2>3. worker' = [worker EXCEPT ![j] = t]
    BY <1>3 DEF CancelStore, Goto
  <2>4. /\ t \in Thread /\ t.at = "cancelFlush" /\ t.sig = worker[j].sig
        /\ t.pending = worker[j].pending /\ t.reaped = worker[j].reaped
    BY Rows DEF Thread, Stages
  <2>6. worker[j].reaped \/ job[j].flagged
    BY <1>3, Rows DEF CancelStore, RowInv, Knows
  <2> HIDE DEF r, t
  <2>5. RowInv(r, t)
    BY <2>1, <2>4, <2>6, Rows DEF RowInv, Knows, Early, Completed
  <2> QED
    BY <2>1, <2>2, <2>3, <2>4, <2>5, OneRow
<1>4. CASE CancelStore(j) /\ ~Full(j)
  BY <1>2, <1>4 DEF CancelStore, Terminal
<1>5. CASE FinalStore(j)
  BY <1>2, <1>5 DEF FinalStore, Terminal, Completed
<1>6. CASE FailStore(j)
  BY <1>2, <1>6 DEF FailStore, Terminal
<1>7. CASE EndStore(j)
  BY <1>2, <1>7 DEF EndStore, Terminal
<1> QED
  BY <1>3, <1>4, <1>5, <1>6, <1>7

LEMMA CancelFlushStep ==
  ASSUME IInv, NEW j \in Jobs, CancelFlush(j)
  PROVE  IInv'
<1>1. worker[j].at = "cancelFlush" /\ job' = job
  BY DEF CancelFlush
<1>2. CASE worker' = [worker EXCEPT ![j].at = "lastCheck", ![j].pending = FALSE]
  <2>1. worker[j].reaped \/ Knows(job[j], "lastCheck", worker[j].left)
    BY <1>1, Rows DEF RowInv, Knows, Early
  <2> QED
    BY <1>1, <1>2, <2>1, FlushedStep
<1>3. CASE Goto(j, "failGet")
  BY <1>1, <1>3, GotoStep DEF Moves, Stages, Knows, Early
<1> QED
  BY <1>2, <1>3 DEF CancelFlush

-----------------------------------------------------------------------------
(* What a client was told of a job stands.                                 *)

\* A step that turns the record r into q takes back no answer: a completed record
\* stays as it is or is dropped, and one that was read lately is not dropped.
Stands(r, q) == /\ r.status \in Completed => q.status \in {r.status, "none"}
                /\ Present(r) /\ r.readAge < ReadStale => Present(q)

\* A record that stays present, with its status if that is a completed one.
LEMMA StaysPresent ==
  ASSUME NEW r, NEW q, Present(q), r.status \in Completed => q.status = r.status
  PROVE  Stands(r, q)
  BY DEF Stands, Present

LEMMA SameRowStands == \A r : Stands(r, r)
  BY DEF Stands

\* Pruning reaps running records, which become failed, and drops unread ones.
LEMMA PrunedStands ==
  ASSUME IInv, NEW table \in Pruned, NEW j \in Jobs
  PROVE  /\ Stands(job[j], table[j])
         /\ job[j] = Absent => table[j].status \in {"none", "failed"}
<1>1. job[j] \in Record
  BY Rows
<1>2. Stands(job[j], Reap(job[j])) /\ Reap(job[j]).readAge = job[j].readAge
  <2>1. CASE Stalled(job[j])
    <3>1. Reap(job[j]).status = "failed" /\ Reap(job[j]).readAge = job[j].readAge
      BY <1>1, <2>1 DEF Reap, Record
    <3>2. job[j].status \notin Completed
      BY <2>1 DEF Stalled, InFlight, Running, Completed
    <3> QED
      BY <3>1, <3>2, StaysPresent DEF Present
  <2>2. CASE ~Stalled(job[j])
    BY <2>2, SameRowStands DEF Reap
  <2> QED
    BY <2>1, <2>2
<1>3. Reap(job[j]) \in Record
  BY <1>1, RowReaped, FinishAgeType DEF Reap, Status, Terminal
<1>4. CASE table[j] = Reap(job[j])
  <2>1. job[j] = Absent => ~Stalled(job[j])
    BY AbsentFacts DEF Stalled
  <2>2. job[j] = Absent => Reap(job[j]).status = "none"
    BY <2>1 DEF Reap, Absent
  <2> QED
    BY <1>2, <1>4, <2>2
<1>5. CASE table[j] # Reap(job[j])
  <2>1. Unread(Reap(job[j])) /\ table[j] = Absent
    BY <1>5 DEF Pruned, Drop
  <2>2. ~(job[j].readAge < ReadStale)
    BY <1>1, <1>2, <2>1, LimitAssumption DEF Unread, Record
  <2> QED
    BY <2>1, <2>2 DEF Stands, Absent
<1> QED
  BY <1>4, <1>5

LEMMA RequestStands ==
  ASSUME IInv, NEW s \in Signatures, Request(s), NEW i \in Jobs
  PROVE  Stands(job[i], job'[i])
<1>1. PICK table \in Pruned : Reuse(table, s) \/ Refuse(table, s) \/ Create(table, s)
  BY DEF Request
<1>2. table \in [Jobs -> Record] /\ Stands(job[i], table[i])
  BY <1>1, PrunedFacts, PrunedStands DEF IInv
<1>3. CASE Refuse(table, s)
  BY <1>2, <1>3 DEF Refuse
<1>4. CASE Reuse(table, s)
  <2>1. PICK j \in Jobs : InFlight(table[j]) /\ job' = [table EXCEPT ![j].readAge = 0]
    BY <1>4 DEF Reuse
  <2>2. job'[i].status = table[i].status
    BY <1>2, <2>1 DEF Record
  <2> QED
    BY <1>2, <2>2 DEF Stands, Present
<1>5. CASE Create(table, s)
  <2>1. PICK j \in Jobs :
          /\ job[j] = Absent
          /\ job' = [table EXCEPT ![j] = [Put(Absent, "running") EXCEPT !.sig = s, !.readAge = 0]]
    BY <1>5 DEF Create
  <2>2. CASE i = j
    BY <2>1, <2>2, AbsentFacts DEF Stands, Present, Absent
  <2>3. CASE i # j
    BY <1>2, <2>1, <2>3
  <2> QED
    BY <2>2, <2>3
<1> QED
  BY <1>1, <1>3, <1>4, <1>5

\* The thread of a job changes only the record of that job, never a completed one,
\* and leaves a present one present.
LEMMA WorkStands ==
  ASSUME IInv, NEW j \in Jobs, Work(j), NEW k \in Jobs
  PROVE  Stands(job[k], job'[k])
<1>1. job[j] \in Record /\ job \in [Jobs -> Record]
  BY Rows DEF IInv, TypeOK
<1>2. worker[j].at # "none"
  BY DEF Work, StoreEmpty, StartThread, Begin, Check, Batch, Flush, LastCheck, CancelGet, CancelStore,
         CancelFlush, EndGet, EndStore, FinalGet, FinalStore, FailGet, FailStore, Copy
<1>3. job[j].status \notin Completed
  BY <1>2, Rows DEF RowInv
<1>4. /\ \A i \in Jobs : i # j => job'[i] = job[i]
      /\ Present(job[j]) => Present(job'[j])
  <2>1. CASE UNCHANGED job
    BY <2>1
  <2>2. CASE StoreEmpty(j)
    <3> DEFINE r == Put([job[j] EXCEPT !.failures = FALSE], "completed")
    <3>1. r \in Record /\ r.status = "completed"
      BY PutTerminal DEF Terminal, Completed
    <3>2. job' = [job EXCEPT ![j] = Touch(r)]
      BY <2>2 DEF StoreEmpty
    <3> HIDE DEF r
    <3>3. Touch(r).status = "completed"
      BY <3>1, TouchFacts
    <3> QED
      BY <1>1, <3>2, <3>3 DEF Present
  <2>3. CASE StartThread(j)
    BY <1>1, <2>3, TouchFacts DEF StartThread, Present
  <2>4. CASE Batch(j) /\ Present(job[j])
    <3>1. PICK c \in {Touch(job[j]), [Touch(job[j]) EXCEPT !.failures = TRUE]} :
            job' = [job EXCEPT ![j] = Put(c, job[j].status)]
      BY <2>4 DEF Batch
    <3>2. c \in Record /\ job[j].status \in Status \ {"none"}
      BY <1>1, <2>4, TouchFacts DEF Present, Record
    <3>3. Put(c, job[j].status).status = job[j].status
      BY <3>2, PutFacts
    <3> QED
      BY <1>1, <3>1, <3>3 DEF Present
  <2>5. CASE job' = [job EXCEPT ![j].readAge = 0]
    BY <1>1, <2>5 DEF Present, Record
  <2>6. ASSUME NEW st \in Terminal, Store(j, st)
        PROVE  /\ \A i \in Jobs : i # j => job'[i] = job[i]
               /\ Present(job[j]) => Present(job'[j])
    <3>1. Put([job[j] EXCEPT !.failures = worker[j].failures], st).status = st
      BY PutTerminal, Rows DEF Thread
    <3>2. st # "none"
      BY DEF Terminal, Completed
    <3> QED
      BY <1>1, <2>6, <3>1, <3>2 DEF Store, Present
  <2>7. {"completed", "completed_with_errors", "cancelled", "failed"} \subseteq Terminal
    BY DEF Terminal, Completed
  <2>8. CASE CancelStore(j) \/ EndStore(j) \/ FinalStore(j) \/ FailStore(j)
    BY <2>6, <2>7, <2>8 DEF CancelStore, EndStore, FinalStore, FailStore
  <2> QED
    BY <2>1, <2>2, <2>3, <2>4, <2>5, <2>8
       DEF Work, Batch, Begin, Check, Flush, LastCheck, CancelGet, CancelFlush, EndGet, FinalGet,
           FailGet, Copy
<1> QED
  BY <1>3, <1>4, SameRowStands DEF Stands

\* A client's poll, its cancellation and the clock keep every status.
LEMMA OutsideStands ==
  ASSUME IInv, NEW i \in Jobs, Tick \/ \E j \in Jobs : GetJob(j) \/ CancelJob(j)
  PROVE  Stands(job[i], job'[i])
<1>1. \A j \in Jobs : job[j] \in Record
  BY Rows
<1>2. CASE Tick
  BY <1>1, <1>2 DEF Tick, Stands, Present, Record
<1>3. ASSUME NEW j \in Jobs, GetJob(j) PROVE Stands(job[i], job'[i])
  <2>1. job'[i].status = job[i].status
    BY <1>1, <1>3 DEF GetJob, Record, IInv, TypeOK
  <2> QED
    BY <2>1 DEF Stands, Present
<1>4. ASSUME NEW j \in Jobs, CancelJob(j) PROVE Stands(job[i], job'[i])
  <2>1. job'[i].status = job[i].status \/ (job[i].status = "running" /\ job'[i].status = "cancelling")
    BY <1>1, <1>4 DEF CancelJob, Record, IInv, TypeOK
  <2> QED
    BY <2>1 DEF Stands, Present, Completed
<1> QED
  BY <1>2, <1>3, <1>4

-----------------------------------------------------------------------------
(* The theorems.                                                           *)

\* The manager starts with no record and no thread.
LEMMA InitIInv == Init => IInv
<1> SUFFICES ASSUME Init PROVE IInv
  OBVIOUS
<1>1. TypeOK
  BY AbsentFacts, NoThreadFacts DEF Init, TypeOK
<1>2. \A j \in Jobs : RowInv(job[j], worker[j])
  BY AbsentFacts, NoThreadFacts, SigAssumption DEF Init, RowInv, Knows, Early, InFlight, Running
<1>3. \A j \in Jobs : ~InFlight(job[j])
  BY AbsentFacts DEF Init
<1>4. NoDuplicateWork
  BY <1>3 DEF NoDuplicateWork
<1>5. WithinBudget
  <2>1. InFlightJobs = {}
    BY <1>3 DEF InFlightJobs
  <2> QED
    BY <2>1, FS_EmptySet, LimitAssumption DEF WithinBudget
<1> QED
  BY <1>1, <1>2, <1>4, <1>5 DEF IInv

\* Every step keeps the inductive invariant.
LEMMA NextIInv == IInv /\ [Next]_vars => IInv'
<1> SUFFICES ASSUME IInv, [Next]_vars PROVE IInv'
  OBVIOUS
<1>1. CASE Tick
  BY <1>1, TickStep
<1>2. ASSUME NEW s \in Signatures, Request(s) PROVE IInv'
  BY <1>2, RequestStep
<1>3. ASSUME NEW j \in Jobs, GetJob(j) PROVE IInv'
  BY <1>3, GetJobStep
<1>4. ASSUME NEW j \in Jobs, CancelJob(j) PROVE IInv'
  BY <1>4, CancelJobStep
<1>5. ASSUME NEW j \in Jobs, Work(j) PROVE IInv'
  BY <1>5, StoreEmptyStep, StartThreadStep, BeginStep, CheckStep, BatchStep, FlushStep,
     LastCheckStep, GetStep, StoreStep, CancelFlushStep DEF Work
<1>6. CASE UNCHANGED vars
  BY <1>6 DEF vars, IInv, TypeOK, RowInv, Knows, NoDuplicateWork, WithinBudget, InFlightJobs
<1> QED
  BY <1>1, <1>2, <1>3, <1>4, <1>5, <1>6 DEF Next

THEOREM Invariance == Spec => []IInv
  BY InitIInv, NextIInv, PTL DEF Spec

\* Records and threads keep their types (TypeOK of the runs).
THEOREM TypeCorrect == Spec => []TypeOK
<1>1. IInv => TypeOK
  BY DEF IInv
<1> QED
  BY <1>1, Invariance, PTL

\* No two jobs in flight share a signature, for any number of requests and jobs.
THEOREM DeduplicationCorrect == Spec => []NoDuplicateWork
<1>1. IInv => NoDuplicateWork
  BY DEF IInv
<1> QED
  BY <1>1, Invariance, PTL

\* The in-flight records never exceed the budget, whatever late workers store.
THEOREM BudgetCorrect == Spec => []WithinBudget
<1>1. IInv => WithinBudget
  BY DEF IInv
<1> QED
  BY <1>1, Invariance, PTL

\* A job in flight has its thread, and that thread can see its cancellation.
THEOREM InFlightServed == Spec => []InFlightIsServed
<1>1. IInv => InFlightIsServed
  BY DEF IInv, RowInv, InFlightIsServed
<1> QED
  BY <1>1, Invariance, PTL

\* Completed is only said of a job whose frames are written and, unless its record was
\* reaped under its thread, whose batches are all fetched (sync.py:545-557).
THEOREM CompletedCorrect == Spec => []CompletedMeansWritten
<1>1. IInv => CompletedMeansWritten
  BY DEF IInv, RowInv, Knows, CompletedMeansWritten
<1> QED
  BY <1>1, Invariance, PTL

\* What a polling client is told of the end of a job that was not taken for dead is
\* true, and of any job it does not change and is not dropped while the client polls:
\* whoever cancels, reaps, prunes or still stores (sync.py, get_job, _prune_locked and
\* _store).
THEOREM AnswersCorrect == Spec => AnswersStand
<1>1. IInv => CompletedMeansWritten
  BY DEF IInv, RowInv, Knows, CompletedMeansWritten
<1>2. ASSUME IInv, [Next]_vars, NEW i \in Jobs PROVE Stands(job[i], job'[i])
  <2>1. CASE UNCHANGED vars
    BY <2>1, SameRowStands DEF vars
  <2> QED
    BY <1>2, <2>1, RequestStands, WorkStands, OutsideStands DEF Next
<1>3. IInv /\ [Next]_vars => [\A j \in Jobs : job[j].status \in Completed =>
                                job'[j].status \in {job[j].status, "none"}]_vars
  BY <1>2 DEF Stands
<1>4. IInv /\ [Next]_vars => [\A j \in Jobs : Present(job[j]) /\ job[j].readAge < ReadStale
                                => Present(job'[j])]_vars
  BY <1>2 DEF Stands
<1> QED
  BY <1>1, <1>3, <1>4, Invariance, PTL DEF Spec, AnswersStand, CompletedIsFinal, ReadRecordSurvives

=============================================================================
