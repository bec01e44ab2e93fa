--------------------------- MODULE WarehouseProofs ---------------------------
(***************************************************************************)
(* What is written to the warehouse.  Its write path, for any number of    *)
(* writers, processes, year partitions and attempts: locks are held by the *)
(* writes that work under them, what was read is still there when it is    *)
(* replaced, so the partitions behave like PartitionStore.  And the        *)
(* full-market import, for any number of stocks, workers and crashes and   *)
(* any batch size, failure limit and cooldown longer than a call: one      *)
(* probe at a time, and progress lines that are true of the warehouse.     *)
(***************************************************************************)
EXTENDS Warehouse, DailyImport, TLAPS

-----------------------------------------------------------------------------
(* The write path.                                                          *)


\* A write between taking a lock and giving it up holds that of its year.
Holding(w) == write[w].at \in {"read", "replace"} =>
                write[w].year \in Years /\ lock[write[w].year] = w

\* What a write has read of its partition is still the partition.
BaseIsCurrent(w) == write[w].at = "replace" => write[w].base = file[write[w].year]

\* The inductive invariant of the locks and the partitions.
LockInv == /\ TypeOK
           /\ LocksAreHeld
           /\ \A w \in Writers : Holding(w) /\ BaseIsCurrent(w)

-----------------------------------------------------------------------------
\* A write record of which some fields change stays one.
LEMMA WriteStage ==
  ASSUME NEW t \in [Writers -> WriteState], NEW w \in Writers, NEW st \in Stages
  PROVE  [t EXCEPT ![w].at = st] \in [Writers -> WriteState]
  BY DEF WriteState

LEMMA WriteBase ==
  ASSUME NEW t \in [Writers -> WriteState], NEW w \in Writers, NEW st \in Stages,
         NEW b \in Rows
  PROVE  [t EXCEPT ![w].at = st, ![w].base = b] \in [Writers -> WriteState]
  BY DEF WriteState

LEMMA WriteYear ==
  ASSUME NEW t \in [Writers -> WriteState], NEW w \in Writers, NEW st \in Stages,
         NEW y \in Years
  PROVE  [t EXCEPT ![w].at = st, ![w].year = y] \in [Writers -> WriteState]
  BY DEF WriteState

LEMMA WriteCaches ==
  ASSUME NEW t \in [Writers -> WriteState], NEW w \in Writers, NEW st \in Stages,
         NEW ks \in SUBSET Caches
  PROVE  [t EXCEPT ![w].at = st, ![w].left = ks] \in [Writers -> WriteState]
  BY DEF WriteState

\* Merged rows are rows.
LEMMA MergedRows ==
  ASSUME NEW old \in Rows, NEW cells, NEW w \in Writers
  PROVE  Merge(old, cells, w) \in Rows
  BY DEF Merge, Rows

LEMMA EmptyRows == Empty \in Rows
  BY DEF Empty, Rows

\* A write that starts its frame, in its first attempt or again.
LEMMA WriteStarts ==
  ASSUME NEW t \in [Writers -> WriteState], NEW w \in Writers, NEW st \in Stages,
         NEW frame \in [Years -> SUBSET Cells], NEW years \in SUBSET Years
  PROVE  [t EXCEPT ![w].at = st, ![w].frame = frame, ![w].todo = years]
           \in [Writers -> WriteState]
<1>1. t[w] \in WriteState
  OBVIOUS
<1>2. [t[w] EXCEPT !.at = st, !.frame = frame, !.todo = years] \in WriteState
  BY <1>1 DEF WriteState
<1> QED BY <1>2

LEMMA WriteAgain ==
  ASSUME NEW t \in [Writers -> WriteState], NEW w \in Writers,
         NEW n \in 1 .. MaxAttempts, NEW years \in SUBSET Years
  PROVE  [t EXCEPT ![w].attempt = n, ![w].todo = years] \in [Writers -> WriteState]
  BY DEF WriteState

\* A write that has replaced a partition, or gave up.
LEMMA WriteReplaced ==
  ASSUME NEW t \in [Writers -> WriteState], NEW w \in Writers, NEW st \in Stages,
         NEW years \in SUBSET Years
  PROVE  [t EXCEPT ![w].todo = years, ![w].year = None, ![w].base = Empty, ![w].at = st]
           \in [Writers -> WriteState]
<1>1. t[w] \in WriteState
  OBVIOUS
<1>2. [t[w] EXCEPT !.todo = years, !.year = None, !.base = Empty, !.at = st] \in WriteState
  BY <1>1, EmptyRows DEF WriteState
<1> QED BY <1>2

LEMMA WriteFailed ==
  ASSUME NEW t \in [Writers -> WriteState], NEW w \in Writers, NEW st \in Stages
  PROVE  [t EXCEPT ![w].at = st, ![w].year = None, ![w].base = Empty]
           \in [Writers -> WriteState]
<1>1. t[w] \in WriteState
  OBVIOUS
<1>2. [t[w] EXCEPT !.at = st, !.year = None, !.base = Empty] \in WriteState
  BY <1>1, EmptyRows DEF WriteState
<1> QED BY <1>2

LEMMA WriteLeft ==
  ASSUME NEW t \in [Writers -> WriteState], NEW w \in Writers, NEW k \in Caches
  PROVE  [t EXCEPT ![w].left = t[w].left \ {k}] \in [Writers -> WriteState]
  BY DEF WriteState

LEMMA NothingCached == NoCache \in CacheState /\ NoReader \in ReaderState
  BY DEF NoCache, CacheState, NoReader, ReaderState

LEMMA TypeInit == Init => TypeOK
<1> SUFFICES ASSUME Init PROVE TypeOK
  OBVIOUS
<1>1. NoWrite \in WriteState
  BY EmptyRows, LimitAssumption DEF NoWrite, WriteState, Stages
<1>2. NoCache \in CacheState /\ NoReader \in ReaderState
  BY DEF NoCache, CacheState, NoReader, ReaderState
<1> QED BY <1>1, <1>2, EmptyRows DEF Init, TypeOK

\* Every step keeps the types: a locked write reads one of the partitions.
LEMMA TypeStep ==
  ASSUME TypeOK, \A w \in Writers : Holding(w), [Next]_vars
  PROVE  TypeOK'
<1> USE DEF TypeOK
<1>1. ASSUME NEW w \in Writers, Start(w) PROVE TypeOK'
  <2>1. PICK frame \in [Years -> SUBSET Cells] :
          write' = [write EXCEPT ![w].at = "lock", ![w].frame = frame,
                                 ![w].todo = YearsOf(frame)]
    BY <1>1 DEF Start
  <2>2. YearsOf(frame) \in SUBSET Years
    BY DEF YearsOf
  <2>3. write' \in [Writers -> WriteState]
    BY <2>1, <2>2, WriteStarts DEF Stages
  <2> QED BY <1>1, <2>3 DEF Start, cached
<1>2. ASSUME NEW w \in Writers, Lock(w) PROVE TypeOK'
  <2>1. PICK y \in Years : /\ lock' = [lock EXCEPT ![y] = w]
                           /\ write' = [write EXCEPT ![w].at = "read", ![w].year = y]
    BY <1>2 DEF Lock, First, WriteState
  <2>2. write' \in [Writers -> WriteState]
    BY <2>1, WriteYear DEF Stages
  <2> QED BY <1>2, <2>1, <2>2 DEF Lock, cached
<1>3. ASSUME NEW w \in Writers, TimeOut(w) PROVE TypeOK'
  <2>1. YearsOf(write[w].frame) \in SUBSET Years
    BY DEF YearsOf
  <2>2. write[w].attempt \in 1 .. MaxAttempts
    BY DEF WriteState
  <2>3. CASE write[w].attempt < MaxAttempts
    <3>1. write[w].attempt + 1 \in 1 .. MaxAttempts
      BY <2>2, <2>3, LimitAssumption
    <3>2. write' = [write EXCEPT ![w].attempt = write[w].attempt + 1,
                                 ![w].todo = YearsOf(write[w].frame)]
      BY <1>3, <2>3, LimitAssumption DEF TimeOut, WriteState
    <3>3. write' \in [Writers -> WriteState]
      BY <2>1, <3>1, <3>2, WriteAgain
    <3> QED BY <1>3, <3>3 DEF TimeOut, cached
  <2>4. CASE ~(write[w].attempt < MaxAttempts)
    <3>1. write' = [write EXCEPT ![w].at = "failed"]
      BY <1>3, <2>4 DEF TimeOut
    <3>2. write' \in [Writers -> WriteState]
      BY <3>1, WriteStage DEF Stages
    <3> QED BY <1>3, <3>2 DEF TimeOut, cached
  <2> QED BY <2>3, <2>4
<1>4. ASSUME NEW w \in Writers, Read(w) PROVE TypeOK'
  <2>1. file[write[w].year] \in Rows
    BY <1>4 DEF Read, Holding
  <2>2. write' \in [Writers -> WriteState]
    BY <1>4, <2>1, WriteBase DEF Read, Stages
  <2> QED BY <1>4, <2>2 DEF Read, cached
<1>5. ASSUME NEW w \in Writers, Replace(w) PROVE TypeOK'
  <2>0. {"meta", "lock"} \subseteq Stages
    BY DEF Stages
  <2>1. PICK st \in {"meta", "lock"} :
          write' = [write EXCEPT ![w].todo = write[w].todo \ {write[w].year}, ![w].year = None,
                                 ![w].base = Empty, ![w].at = st]
    BY <1>5 DEF Replace
  <2>2. write[w].todo \ {write[w].year} \in SUBSET Years
    BY DEF WriteState
  <2>3. write' \in [Writers -> WriteState]
    BY <2>1, <2>2, <2>0, WriteReplaced
  <2>4. Merge(write[w].base, write[w].frame[write[w].year], w) \in Rows
    <3>1. write[w].base \in Rows
      BY DEF WriteState
    <3> QED BY <3>1, MergedRows
  <2>5. file' \in [Years -> Rows]
    BY <1>5, <2>4 DEF Replace
  <2>6. lock' \in [Years -> Writers \cup {None}]
    BY <1>5 DEF Replace
  <2>7. landed' \in SUBSET Writers
    BY <1>5 DEF Replace
  <2> QED BY <1>5, <2>3, <2>5, <2>6, <2>7 DEF Replace
<1>6. ASSUME NEW w \in Writers, Fail(w) PROVE TypeOK'
  <2>1. write' \in [Writers -> WriteState]
    BY <1>6, WriteFailed DEF Fail, Stages
  <2>2. lock' \in [Years -> Writers \cup {None}]
    BY <1>6 DEF Fail
  <2> QED BY <1>6, <2>1, <2>2 DEF Fail, cached
<1>7. ASSUME NEW w \in Writers, Record(w) PROVE TypeOK'
  <2>1. write' \in [Writers -> WriteState]
    BY <1>7, WriteCaches DEF Record, Stages
  <2> QED BY <1>7, <2>1 DEF Record, cached
<1>8. ASSUME NEW w \in Writers, Invalidate(w) PROVE TypeOK'
  <2>1. PICK k \in Caches : write' = [write EXCEPT ![w].left = write[w].left \ {k}]
    BY <1>8 DEF Invalidate, WriteState
  <2>2. write' \in [Writers -> WriteState]
    BY <2>1, WriteLeft
  <2>3. cache' \in [Caches -> CacheState]
    BY <1>8, NothingCached DEF Invalidate
  <2> QED BY <1>8, <2>2, <2>3 DEF Invalidate
<1>9. ASSUME NEW w \in Writers, Return(w) PROVE TypeOK'
  <2>1. write' \in [Writers -> WriteState]
    BY <1>9, WriteStage DEF Return, Stages
  <2> QED BY <1>9, <2>1 DEF Return, cached
<1>10. ASSUME NEW r \in Readers, Ask(r) \/ StoreProfile(r) PROVE TypeOK'
  <2>1. CASE Ask(r)
    <3>1. reader' \in [Readers -> ReaderState]
      BY <2>1 DEF Ask, ReaderState
    <3> QED BY <2>1, <3>1 DEF Ask
  <2>2. CASE StoreProfile(r)
    <3>1. reader' \in [Readers -> ReaderState]
      BY <2>2, NothingCached DEF StoreProfile
    <3>2. [valid |-> TRUE, sees |-> reader[r].sees, overlaps |-> landed \ reader[r].sees]
            \in CacheState
      BY DEF CacheState, ReaderState
    <3>3. cache' \in [Caches -> CacheState]
      BY <2>2, <3>2 DEF StoreProfile
    <3> QED BY <2>2, <3>1, <3>3 DEF StoreProfile
  <2> QED BY <1>10, <2>1, <2>2
<1>11. ASSUME NEW k \in Caches, Expire(k) PROVE TypeOK'
  <2>1. cache' \in [Caches -> CacheState]
    BY <1>11, NothingCached DEF Expire
  <2> QED BY <1>11, <2>1 DEF Expire
<1>12. ASSUME NEW process \in SUBSET Writers, Crash(process) PROVE TypeOK'
  <2>1. write' \in [Writers -> WriteState]
    <3>1. \A w \in Writers : [write[w] EXCEPT !.at = "failed", !.year = None, !.base = Empty]
                               \in WriteState
      <4>1. ASSUME NEW w \in Writers
            PROVE  [write[w] EXCEPT !.at = "failed", !.year = None, !.base = Empty] \in WriteState
        <5>1. write[w] \in WriteState
          OBVIOUS
        <5> QED BY <5>1, EmptyRows DEF WriteState, Stages
      <4> QED BY <4>1
    <3> QED BY <1>12, <3>1 DEF Crash
  <2>2. lock' \in [Years -> Writers \cup {None}]
    BY <1>12 DEF Crash
  <2>3. cache' \in [Caches -> CacheState] /\ reader' \in [Readers -> ReaderState]
    BY <1>12, NothingCached DEF Crash
  <2> QED BY <1>12, <2>1, <2>2, <2>3 DEF Crash
<1>13. ASSUME UNCHANGED vars PROVE TypeOK'
  BY <1>13 DEF vars
<1> HIDE DEF TypeOK
<1> QED
  BY <1>1, <1>2, <1>3, <1>4, <1>5, <1>6, <1>7, <1>8, <1>9, <1>10, <1>11, <1>12, <1>13,
     WriterAssumption DEF Next, Step

-----------------------------------------------------------------------------
\* A step that leaves the partitions and locks alone, and moves writes that are
\* not under a lock before or after, keeps locks and reads as they are.
LEMMA OffLock ==
  ASSUME LockInv, UNCHANGED <<file, lock>>,
         \A w \in Writers : \/ write'[w] = write[w]
                            \/ /\ write[w].at \notin {"read", "replace"}
                               /\ write'[w].at \notin {"read", "replace"}
  PROVE  LocksAreHeld' /\ \A w \in Writers : Holding(w)' /\ BaseIsCurrent(w)'
<1>1. \A y \in Years : lock[y] # None => lock[y] \in Writers
  BY DEF LockInv, TypeOK
<1>2. LocksAreHeld'
  BY <1>1 DEF LockInv, LocksAreHeld
<1>3. \A w \in Writers : Holding(w)' /\ BaseIsCurrent(w)'
  BY DEF LockInv, Holding, BaseIsCurrent
<1> QED BY <1>2, <1>3

\* A write that fails, and whose locks go with it, keeps those of the others.
LEMMA LocksReleased ==
  ASSUME LockInv, NEW S \in SUBSET Writers, file' = file,
         lock' = [y \in Years |-> IF lock[y] \in S THEN None ELSE lock[y]],
         \A w \in Writers \ S : write'[w] = write[w],
         \A w \in S : write'[w].at \notin {"read", "replace"}
  PROVE  LocksAreHeld' /\ \A w \in Writers : Holding(w)' /\ BaseIsCurrent(w)'
<1>1. \A y \in Years : lock[y] # None => lock[y] \in Writers
  BY DEF LockInv, TypeOK
<1>2. \A y \in Years : lock'[y] # None => lock'[y] = lock[y] /\ lock[y] \in Writers \ S
  BY <1>1
<1>3. LocksAreHeld'
  BY <1>2 DEF LockInv, LocksAreHeld
<1>4. ASSUME NEW w \in Writers PROVE Holding(w)' /\ BaseIsCurrent(w)'
  <2>1. CASE w \in S
    BY <2>1 DEF Holding, BaseIsCurrent
  <2>2. CASE w \notin S
    BY <2>2 DEF LockInv, Holding, BaseIsCurrent
  <2> QED BY <2>1, <2>2
<1> QED BY <1>3, <1>4

LEMMA LockStep ==
  ASSUME LockInv, [Next]_vars
  PROVE  LocksAreHeld' /\ \A w \in Writers : Holding(w)' /\ BaseIsCurrent(w)'
<1> DEFINE Goal == LocksAreHeld' /\ \A w \in Writers : Holding(w)' /\ BaseIsCurrent(w)'
<1>0. write \in [Writers -> WriteState]
  BY DEF LockInv, TypeOK
<1>1. ASSUME NEW w \in Writers, Start(w) \/ TimeOut(w) \/ Record(w) \/ Invalidate(w) \/ Return(w)
      PROVE  Goal
  <2>1. UNCHANGED <<file, lock>>
    BY <1>1 DEF Start, TimeOut, Record, Invalidate, Return
  <2>2. \A v \in Writers : v # w => write'[v] = write[v]
    BY <1>0, <1>1 DEF Start, TimeOut, Record, Invalidate, Return
  <2>3. write[w].at \notin {"read", "replace"} /\ write'[w].at \notin {"read", "replace"}
    <3>1. CASE Start(w)
      <4>1. PICK frame \in [Years -> SUBSET Cells] :
              write' = [write EXCEPT ![w].at = "lock", ![w].frame = frame,
                                     ![w].todo = YearsOf(frame)]
        BY <3>1 DEF Start
      <4>2. write[w].at = "idle"
        BY <3>1 DEF Start
      <4>3. write'[w].at = "lock"
        BY <1>0, <4>1 DEF WriteState
      <4> QED BY <4>2, <4>3
    <3>5. CASE Record(w)
      BY <1>0, <3>5 DEF Record, WriteState
    <3>2. CASE TimeOut(w)
      BY <1>0, <3>2 DEF TimeOut, Blocked, WriteState
    <3>3. CASE Invalidate(w)
      BY <1>0, <3>3 DEF Invalidate, WriteState
    <3>4. CASE Return(w)
      BY <1>0, <3>4 DEF Return, WriteState
    <3> QED BY <1>1, <3>1, <3>2, <3>3, <3>4, <3>5
  <2> QED BY <2>1, <2>2, <2>3, OffLock
<1>2. ASSUME NEW w \in Writers, Lock(w) PROVE Goal
  <2>1. PICK y \in Years : /\ lock[y] = None
                           /\ lock' = [lock EXCEPT ![y] = w]
                           /\ write' = [write EXCEPT ![w].at = "read", ![w].year = y]
    BY <1>0, <1>2 DEF Lock, First, WriteState
  <2>2. write'[w].at = "read" /\ write'[w].year = y
    BY <1>0, <2>1 DEF WriteState
  <2>3. \A v \in Writers : v # w => write'[v] = write[v]
    BY <1>0, <2>1
  <2>4. lock'[y] = w /\ \A z \in Years : z # y => lock'[z] = lock[z]
    BY <2>1 DEF LockInv, TypeOK
  <2>5. \A z \in Years : z # y => lock[z] # w
    BY <1>2, WriterAssumption DEF LockInv, LocksAreHeld, Lock
  <2>6. LocksAreHeld'
    BY <2>2, <2>3, <2>4, <2>5 DEF LockInv, TypeOK, LocksAreHeld
  <2>7. ASSUME NEW v \in Writers PROVE Holding(v)' /\ BaseIsCurrent(v)'
    <3>1. CASE v = w
      BY <2>2, <2>4, <3>1 DEF Holding, BaseIsCurrent
    <3>2. CASE v # w
      <4>1. write'[v] = write[v] /\ file' = file
        BY <1>2, <2>3, <3>2 DEF Lock
      <4>2. BaseIsCurrent(v)'
        BY <4>1 DEF LockInv, BaseIsCurrent
      <4>3. ASSUME write[v].at \in {"read", "replace"}
            PROVE  write[v].year \in Years /\ lock'[write[v].year] = v
        <5>1. write[v].year \in Years /\ lock[write[v].year] = v
          BY <4>3 DEF LockInv, Holding
        <5>2. write[v].year # y
          BY <2>1, <5>1, WriterAssumption
        <5> QED BY <2>4, <5>1, <5>2
      <4> QED BY <4>1, <4>2, <4>3 DEF Holding
    <3> QED BY <3>1, <3>2
  <2> QED BY <2>6, <2>7
<1>3. ASSUME NEW w \in Writers, Read(w) PROVE Goal
  <2>1. /\ write'[w].at = "replace" /\ write'[w].year = write[w].year
        /\ write'[w].base = file[write[w].year]
    BY <1>0, <1>3 DEF Read, WriteState
  <2>2. \A v \in Writers : v # w => write'[v] = write[v]
    BY <1>0, <1>3 DEF Read
  <2>3. UNCHANGED <<file, lock>>
    BY <1>3 DEF Read
  <2>4. LocksAreHeld'
    BY <2>1, <2>2, <2>3 DEF LockInv, TypeOK, LocksAreHeld
  <2>5. ASSUME NEW v \in Writers PROVE Holding(v)' /\ BaseIsCurrent(v)'
    <3>1. CASE v = w
      <4>1. write[w].year \in Years /\ lock[write[w].year] = w
        BY <1>3 DEF LockInv, Holding, Read
      <4> QED BY <2>1, <2>3, <3>1, <4>1 DEF Holding, BaseIsCurrent
    <3>2. CASE v # w
      BY <2>2, <2>3, <3>2 DEF LockInv, Holding, BaseIsCurrent
    <3> QED BY <3>1, <3>2
  <2> QED BY <2>4, <2>5
<1>4. ASSUME NEW w \in Writers, Replace(w) PROVE Goal
  <2>0. PICK y \in Years : y = write[w].year /\ lock[y] = w
    BY <1>4 DEF LockInv, Holding, Replace
  <2>1. write'[w].at \notin {"read", "replace"}
    BY <1>0, <1>4 DEF Replace, WriteState
  <2>2. \A v \in Writers : v # w => write'[v] = write[v]
    BY <1>0, <1>4 DEF Replace
  <2>3. \A z \in Years : z # y => lock'[z] = lock[z] /\ file'[z] = file[z]
    BY <1>4, <2>0 DEF Replace, LockInv, TypeOK
  <2>4. lock'[y] = None
    BY <1>4, <2>0 DEF Replace, LockInv, TypeOK
  <2>5. \A z \in Years : z # y => lock[z] # w
    BY <2>0, WriterAssumption DEF LockInv, LocksAreHeld
  <2>6. LocksAreHeld'
    BY <2>2, <2>3, <2>4, <2>5 DEF LockInv, TypeOK, LocksAreHeld
  <2>7. ASSUME NEW v \in Writers PROVE Holding(v)' /\ BaseIsCurrent(v)'
    <3>1. CASE v = w
      BY <2>1, <3>1 DEF Holding, BaseIsCurrent
    <3>2. CASE v # w
      BY <2>0, <2>2, <2>3, <3>2 DEF LockInv, Holding, BaseIsCurrent
    <3> QED BY <3>1, <3>2
  <2> QED BY <2>6, <2>7
<1>5. ASSUME NEW w \in Writers, Fail(w) PROVE Goal
  <2>1. \A v \in Writers \ {w} : write'[v] = write[v]
    BY <1>0, <1>5 DEF Fail
  <2>2. write'[w].at = "failed"
    BY <1>0, <1>5 DEF Fail, WriteState
  <2>3. lock' = [y \in Years |-> IF lock[y] \in {w} THEN None ELSE lock[y]] /\ file' = file
    BY <1>5 DEF Fail
  <2>4. {w} \in SUBSET Writers /\ \A v \in {w} : write'[v].at \notin {"read", "replace"}
    BY <2>2
  <2>5. PICK S \in SUBSET Writers : S = {w}
    BY <2>4
  <2> QED BY <2>1, <2>3, <2>4, <2>5, LocksReleased
<1>6. ASSUME NEW r \in Readers, Ask(r) \/ StoreProfile(r) PROVE Goal
  <2>1. UNCHANGED <<file, lock, write>>
    BY <1>6 DEF Ask, StoreProfile
  <2> QED BY <2>1, OffLock
<1>7. ASSUME NEW k \in Caches, Expire(k) PROVE Goal
  <2>1. UNCHANGED <<file, lock, write>>
    BY <1>7 DEF Expire
  <2> QED BY <2>1, OffLock
<1>8. ASSUME NEW process \in SUBSET Writers, Crash(process) PROVE Goal
  <2>1. \A v \in Writers \ process : write'[v] = write[v]
    BY <1>8 DEF Crash
  <2>2. \A v \in process : write'[v].at \notin {"read", "replace"}
    BY <1>0, <1>8 DEF Crash, Working, WriteState
  <2>3. /\ lock' = [y \in Years |-> IF lock[y] \in process THEN None ELSE lock[y]]
        /\ file' = file
    BY <1>8 DEF Crash
  <2> QED BY <2>1, <2>2, <2>3, LocksReleased
<1>9. ASSUME UNCHANGED vars PROVE Goal
  <2>1. UNCHANGED <<file, lock, write>>
    BY <1>9 DEF vars
  <2> QED BY <2>1, OffLock
<1> HIDE DEF Goal
<1>10. Goal
  BY <1>1, <1>2, <1>3, <1>4, <1>5, <1>6, <1>7, <1>8, <1>9, WriterAssumption DEF Next, Step
<1> QED BY <1>10 DEF Goal

THEOREM LockInvHolds == Spec => []LockInv
<1>1. Init => LockInv
  <2> SUFFICES ASSUME Init PROVE LockInv
    OBVIOUS
  <2>1. \A w \in Writers : write[w].at = "idle"
    BY DEF Init, NoWrite
  <2>2. LocksAreHeld
    BY DEF Init, LocksAreHeld
  <2> QED BY <2>1, <2>2, TypeInit DEF LockInv, Holding, BaseIsCurrent
<1>2. LockInv /\ [Next]_vars => LockInv'
  <2> SUFFICES ASSUME LockInv, [Next]_vars PROVE LockInv'
    OBVIOUS
  <2>1. TypeOK'
    BY TypeStep DEF LockInv
  <2> QED BY <2>1, LockStep DEF LockInv
<1> QED BY <1>1, <1>2, PTL DEF Spec

\* Type correctness (warehouse.py:56-73, 172-196).
THEOREM WarehouseTypeCorrect == Spec => []TypeOK
<1>1. LockInv => TypeOK
  BY DEF LockInv
<1> QED BY <1>1, LockInvHolds, PTL

\* A file lock is held by a write that works on its partition, whoever crashed,
\* failed or timed out before (filelock.py:94-130).
THEOREM LocksHeldByWork == Spec => []LocksAreHeld
<1>1. LockInv => LocksAreHeld
  BY DEF LockInv
<1> QED BY <1>1, LockInvHolds, PTL

-----------------------------------------------------------------------------
\* The write path implements PartitionStore: replacing a partition merges the
\* frame into what the partition holds at that instant, because nobody has
\* changed it since it was read (warehouse.py:183-193).
THEOREM WarehouseImplementsStore == Spec => MergesAreAtomic
<1>1. Init => Store!Init
  BY DEF Init, Store!Init, Empty
<1>2. LockInv /\ [Next]_vars => [Store!Next]_file
  <2> SUFFICES ASSUME LockInv, [Next]_vars PROVE Store!Next \/ UNCHANGED file
    OBVIOUS
  <2>1. ASSUME NEW w \in Writers, Replace(w) PROVE Store!Next
    <3>1. PICK y \in Years : y = write[w].year
      BY <2>1 DEF LockInv, Holding, Replace
    <3>2. write[w].base = file[y]
      BY <2>1, <3>1 DEF LockInv, BaseIsCurrent, Replace
    <3>3. write[w].frame[y] \in SUBSET Cells
      BY DEF LockInv, TypeOK, WriteState
    <3>4. file' = [file EXCEPT ![y] = Store!Merge(file[y], write[w].frame[y], w)]
      BY <2>1, <3>1, <3>2 DEF Replace, Merge, Store!Merge
    <3>5. Store!Write(y, write[w].frame[y], w)
      BY <3>4 DEF Store!Write
    <3> QED BY <3>3, <3>5 DEF Store!Next
  <2>2. ASSUME NEW w \in Writers, Start(w) \/ Lock(w) \/ TimeOut(w) \/ Read(w) \/ Fail(w)
                                  \/ Record(w) \/ Invalidate(w) \/ Return(w)
        PROVE  UNCHANGED file
    BY <2>2 DEF Start, Lock, TimeOut, Read, Fail, Record, Invalidate, Return
  <2>3. ASSUME NEW r \in Readers, Ask(r) \/ StoreProfile(r) PROVE UNCHANGED file
    BY <2>3 DEF Ask, StoreProfile
  <2>4. ASSUME NEW k \in Caches, Expire(k) PROVE UNCHANGED file
    BY <2>4 DEF Expire
  <2>5. ASSUME NEW process, Crash(process) PROVE UNCHANGED file
    BY <2>5 DEF Crash
  <2>6. ASSUME UNCHANGED vars PROVE UNCHANGED file
    BY <2>6 DEF vars
  <2> QED BY <2>1, <2>2, <2>3, <2>4, <2>5, <2>6 DEF Next, Step
<1> QED BY <1>1, <1>2, LockInvHolds, PTL DEF Spec, MergesAreAtomic, Store!Spec

-----------------------------------------------------------------------------
\* What a write has behind it is in the partitions; past its last partition it
\* has nothing left to write.
Behind(w) == write[w].at \notin {"idle", "failed"} =>
               \A y \in Years \ write[w].todo : \A c \in write[w].frame[y] : file[y][c] # None
Past(w)   == write[w].at \in {"meta", "invalidate", "done"} => write[w].todo = {}

\* A write of the service that is past its last partition has landed; a cache it
\* has been over misses it only if the profile was being computed.
Landed(w) == w \in Inside /\ write[w].at \in {"meta", "invalidate", "done"} => w \in landed
Over(w, k) == \/ write[w].at = "done"
              \/ write[w].at = "invalidate" /\ k \notin write[w].left
Dropped(w, k) == w \in Inside /\ Over(w, k) /\ cache[k].valid =>
                   w \in cache[k].sees \cup cache[k].overlaps

WriteInv == \A w \in Writers :
              Behind(w) /\ Past(w) /\ Landed(w) /\ \A k \in Caches : Dropped(w, k)

\* No step erases a value of a partition.
LEMMA NothingErased ==
  ASSUME LockInv, [Next]_vars, NEW y \in Years, NEW c \in Cells, file[y][c] # None
  PROVE  file'[y][c] # None
<1>1. ASSUME NEW w \in Writers, Replace(w) PROVE file'[y][c] # None
  <2>1. write[w].base = file[write[w].year] /\ write[w].year \in Years
    BY <1>1 DEF LockInv, Holding, BaseIsCurrent, Replace
  <2>2. CASE y = write[w].year
    <3>1. file'[y] = Merge(file[y], write[w].frame[y], w)
      BY <1>1, <2>1, <2>2 DEF Replace, LockInv, TypeOK
    <3> QED BY <3>1, WriterAssumption DEF Merge
  <2>3. CASE y # write[w].year
    BY <1>1, <2>3 DEF Replace, LockInv, TypeOK
  <2> QED BY <2>2, <2>3
<1>2. ASSUME file' = file PROVE file'[y][c] # None
  BY <1>2
<1>3. ASSUME NEW w \in Writers, Start(w) \/ Lock(w) \/ TimeOut(w) \/ Read(w) \/ Fail(w)
                                \/ Record(w) \/ Invalidate(w) \/ Return(w)
      PROVE  file' = file
  BY <1>3 DEF Start, Lock, TimeOut, Read, Fail, Record, Invalidate, Return
<1>4. ASSUME NEW r \in Readers, Ask(r) \/ StoreProfile(r) PROVE file' = file
  BY <1>4 DEF Ask, StoreProfile
<1>5. ASSUME NEW k \in Caches, Expire(k) PROVE file' = file
  BY <1>5 DEF Expire
<1>6. ASSUME NEW process, Crash(process) PROVE file' = file
  BY <1>6 DEF Crash
<1>7. ASSUME UNCHANGED vars PROVE file' = file
  BY <1>7 DEF vars
<1> QED BY <1>1, <1>2, <1>3, <1>4, <1>5, <1>6, <1>7 DEF Next, Step

\* A write whose record does not change, in a step that lands or drops no other's
\* profile, keeps its part of the invariant.
LEMMA Untouched ==
  ASSUME LockInv, WriteInv, [Next]_vars, NEW w \in Writers, write'[w] = write[w],
         landed \subseteq landed',
         \A k \in Caches : cache'[k] \in {cache[k], NoCache}
  PROVE  Behind(w)' /\ Past(w)' /\ Landed(w)' /\ \A k \in Caches : Dropped(w, k)'
<1>1. Behind(w)'
  <2> SUFFICES ASSUME write[w].at \notin {"idle", "failed"}, NEW y \in Years \ write[w].todo,
                      NEW c \in write[w].frame[y]
               PROVE  file'[y][c] # None
    BY DEF Behind
  <2>1. c \in Cells
    BY DEF LockInv, TypeOK, WriteState
  <2>2. file[y][c] # None
    BY DEF WriteInv, Behind
  <2> QED BY <2>1, <2>2, NothingErased
<1>2. Past(w)' /\ Landed(w)'
  BY DEF WriteInv, Past, Landed
<1>3. ASSUME NEW k \in Caches PROVE Dropped(w, k)'
  <2>1. CASE cache'[k] = cache[k]
    BY <2>1 DEF WriteInv, Dropped, Over
  <2>2. CASE cache'[k] = NoCache
    BY <2>2 DEF Dropped, NoCache
  <2> QED BY <2>1, <2>2
<1> QED BY <1>1, <1>2, <1>3

\* A write that is neither past its last partition nor given up has only to keep
\* what is behind it.
LEMMA InProgress ==
  ASSUME NEW w \in Writers, write'[w].at \in {"lock", "read", "replace", "failed"}, Behind(w)'
  PROVE  Behind(w)' /\ Past(w)' /\ Landed(w)' /\ \A k \in Caches : Dropped(w, k)'
BY DEF Past, Landed, Dropped, Over

\* The write that takes a step keeps its part of the invariant.
LEMMA OwnStep ==
  ASSUME LockInv, WriteInv, [Next]_vars, NEW w \in Writers, Start(w) \/ Step(w)
  PROVE  Behind(w)' /\ Past(w)' /\ Landed(w)' /\ \A k \in Caches : Dropped(w, k)'
<1> DEFINE Goal == Behind(w)' /\ Past(w)' /\ Landed(w)' /\ \A k \in Caches : Dropped(w, k)'
<1>0. write \in [Writers -> WriteState] /\ write[w] \in WriteState
  BY DEF LockInv, TypeOK
<1>1. ASSUME Start(w) PROVE Goal
  <2>1. PICK frame \in [Years -> SUBSET Cells] :
          write' = [write EXCEPT ![w].at = "lock", ![w].frame = frame, ![w].todo = YearsOf(frame)]
    BY <1>1 DEF Start
  <2>2. /\ write'[w].at = "lock" /\ write'[w].frame = frame
        /\ write'[w].todo = YearsOf(frame)
    BY <1>0, <2>1 DEF WriteState
  <2>3. Behind(w)'
    BY <2>2 DEF Behind, YearsOf
  <2> QED BY <2>2, <2>3, InProgress
<1>2. ASSUME Lock(w) PROVE Goal
  <2>1. /\ write'[w].at = "read" /\ write'[w].frame = write[w].frame
        /\ write'[w].todo = write[w].todo /\ file' = file
    BY <1>0, <1>2 DEF Lock, WriteState
  <2>2. Behind(w)'
    BY <1>2, <2>1 DEF WriteInv, Behind, Lock
  <2> QED BY <2>1, <2>2, InProgress
<1>3. ASSUME TimeOut(w) PROVE Goal
  <2>1. CASE write[w].attempt < MaxAttempts
    <3>1. /\ write'[w].at = "lock" /\ write'[w].frame = write[w].frame
          /\ write'[w].todo = YearsOf(write[w].frame)
      BY <1>0, <1>3, <2>1, LimitAssumption DEF TimeOut, Blocked, WriteState
    <3>2. Behind(w)'
      BY <3>1 DEF Behind, YearsOf
    <3> QED BY <3>1, <3>2, InProgress
  <2>2. CASE ~(write[w].attempt < MaxAttempts)
    <3>1. write'[w].at = "failed"
      BY <1>0, <1>3, <2>2 DEF TimeOut, WriteState
    <3> QED BY <3>1, InProgress DEF Behind
  <2> QED BY <2>1, <2>2
<1>4. ASSUME Read(w) PROVE Goal
  <2>1. /\ write'[w].at = "replace" /\ write'[w].frame = write[w].frame
        /\ write'[w].todo = write[w].todo /\ file' = file
    BY <1>0, <1>4 DEF Read, WriteState
  <2>2. Behind(w)'
    BY <1>4, <2>1 DEF WriteInv, Behind, Read
  <2> QED BY <2>1, <2>2, InProgress
<1>5. ASSUME Replace(w) PROVE Goal
  <2>1. PICK y \in Years : y = write[w].year
    BY <1>5 DEF LockInv, Holding, Replace
  <2>2. /\ write'[w].frame = write[w].frame
        /\ write'[w].todo = write[w].todo \ {y}
        /\ write'[w].at = IF write'[w].todo = {} THEN "meta" ELSE "lock"
    BY <1>0, <1>5, <2>1 DEF Replace, WriteState
  <2>3. Behind(w)'
    <3> SUFFICES ASSUME NEW z \in Years \ write'[w].todo, NEW c \in write'[w].frame[z]
                 PROVE  file'[z][c] # None
      BY DEF Behind
    <3>1. c \in Cells
      BY <2>2 DEF LockInv, TypeOK, WriteState
    <3>2. CASE z = y
      <4>1. file'[y] = Merge(write[w].base, write[w].frame[y], w)
        BY <1>5, <2>1 DEF Replace, LockInv, TypeOK
      <4> QED BY <2>2, <3>1, <3>2, <4>1, WriterAssumption DEF Merge
    <3>3. CASE z # y
      <4>1. file[z][c] # None
        BY <1>5, <2>2, <3>3 DEF WriteInv, Behind, Replace
      <4> QED BY <3>1, <4>1, NothingErased
    <3> QED BY <3>2, <3>3
  <2>4. CASE write'[w].todo = {}
    <3>1. write'[w].at = "meta"
      BY <2>2, <2>4
    <3>2. w \in Inside => w \in landed'
      BY <1>5, <2>1, <2>2, <2>4 DEF Replace
    <3> QED BY <2>3, <2>4, <3>1, <3>2 DEF Past, Landed, Dropped, Over
  <2>5. CASE write'[w].todo # {}
    <3>1. write'[w].at = "lock"
      BY <2>2, <2>5
    <3> QED BY <2>3, <3>1, InProgress
  <2> QED BY <2>4, <2>5
<1>6. ASSUME Fail(w) PROVE Goal
  <2>1. write'[w].at = "failed"
    BY <1>0, <1>6 DEF Fail, WriteState
  <2> QED BY <2>1, InProgress DEF Behind
<1>7. ASSUME Record(w) PROVE Goal
  <2>1. /\ write'[w].at = "invalidate" /\ write'[w].frame = write[w].frame
        /\ write'[w].todo = write[w].todo /\ write'[w].left = Caches
        /\ UNCHANGED <<file, landed>>
    BY <1>0, <1>7 DEF Record, cached, WriteState
  <2>2. Behind(w)' /\ Past(w)' /\ Landed(w)'
    BY <1>7, <2>1 DEF WriteInv, Behind, Past, Landed, Record
  <2>3. \A k \in Caches : Dropped(w, k)'
    BY <2>1 DEF Dropped, Over
  <2> QED BY <2>2, <2>3
<1>8. ASSUME Invalidate(w) PROVE Goal
  <2>1. PICK k \in Caches :
          /\ write' = [write EXCEPT ![w].left = write[w].left \ {k}]
          /\ cache' = IF w \in Inside THEN [cache EXCEPT ![k] = NoCache] ELSE cache
    BY <1>0, <1>8 DEF Invalidate, WriteState
  <2>2. /\ write'[w].at = "invalidate" /\ write'[w].frame = write[w].frame
        /\ write'[w].todo = write[w].todo /\ write'[w].left = write[w].left \ {k}
        /\ UNCHANGED <<file, landed>>
    BY <1>0, <1>8, <2>1 DEF Invalidate, WriteState
  <2>3. Behind(w)' /\ Past(w)' /\ Landed(w)'
    BY <1>8, <2>2 DEF WriteInv, Behind, Past, Landed, Invalidate
  <2>4. ASSUME NEW j \in Caches, w \in Inside PROVE Dropped(w, j)'
    <3>1. CASE j = k
      BY <2>1, <2>4, <3>1 DEF Dropped, NoCache, LockInv, TypeOK
    <3>2. CASE j # k
      BY <1>8, <2>1, <2>2, <2>4, <3>2
      DEF WriteInv, Dropped, Over, Invalidate, LockInv, TypeOK
    <3> QED BY <3>1, <3>2
  <2> QED BY <2>3, <2>4 DEF Dropped
<1>9. ASSUME Return(w) PROVE Goal
  <2>1. /\ write'[w].at = "done" /\ write'[w].frame = write[w].frame
        /\ write'[w].todo = write[w].todo
        /\ UNCHANGED <<file, cache, landed>>
    BY <1>0, <1>9 DEF Return, cached, WriteState
  <2>2. Behind(w)' /\ Past(w)' /\ Landed(w)'
    BY <1>9, <2>1 DEF WriteInv, Behind, Past, Landed, Return
  <2>3. \A k \in Caches : Dropped(w, k)'
    BY <1>9, <2>1 DEF WriteInv, Dropped, Over, Return
  <2> QED BY <2>2, <2>3
<1> HIDE DEF Goal
<1>10. Goal
  BY <1>1, <1>2, <1>3, <1>4, <1>5, <1>6, <1>7, <1>8, <1>9 DEF Step
<1> QED BY <1>10 DEF Goal

LEMMA WriteInvStep ==
  ASSUME LockInv, WriteInv, [Next]_vars
  PROVE  WriteInv'
<1> SUFFICES ASSUME NEW w \in Writers
             PROVE  Behind(w)' /\ Past(w)' /\ Landed(w)' /\ \A k \in Caches : Dropped(w, k)'
  BY DEF WriteInv
<1> DEFINE Goal == Behind(w)' /\ Past(w)' /\ Landed(w)' /\ \A k \in Caches : Dropped(w, k)'
<1>0. write \in [Writers -> WriteState]
  BY DEF LockInv, TypeOK
<1>1. ASSUME NEW v \in Writers, Start(v) \/ Step(v) PROVE Goal
  <2>1. CASE v = w
    BY <1>1, <2>1, OwnStep
  <2>2. CASE v # w
    <3>1. write'[w] = write[w]
      BY <1>0, <1>1, <2>2
      DEF Start, Step, Lock, TimeOut, Read, Replace, Fail, Record, Invalidate, Return
    <3>2. landed \subseteq landed'
      BY <1>1
      DEF Start, Step, Lock, TimeOut, Read, Replace, Fail, Record, Invalidate, Return, cached
    <3>3. \A k \in Caches : cache'[k] \in {cache[k], NoCache}
      BY <1>1
      DEF Start, Step, Lock, TimeOut, Read, Replace, Fail, Record, Invalidate, Return, cached,
          LockInv, TypeOK
    <3> QED BY <3>1, <3>2, <3>3, Untouched
  <2> QED BY <2>1, <2>2
<1>2. ASSUME NEW r \in Readers, Ask(r) PROVE Goal
  BY <1>2, Untouched DEF Ask
<1>3. ASSUME NEW r \in Readers, StoreProfile(r) PROVE Goal
  <2>1. UNCHANGED <<file, write, landed>>
    BY <1>3 DEF StoreProfile
  <2>2. Behind(w)' /\ Past(w)' /\ Landed(w)'
    BY <2>1 DEF WriteInv, Behind, Past, Landed
  <2>3. ASSUME NEW k \in Caches PROVE Dropped(w, k)'
    <3>1. CASE cache'[k] = cache[k]
      BY <2>1, <3>1 DEF WriteInv, Dropped, Over
    <3>2. CASE cache'[k] # cache[k]
      <4>1. cache'[k] = [valid |-> TRUE, sees |-> reader[r].sees,
                         overlaps |-> landed \ reader[r].sees]
        BY <1>3, <3>2 DEF StoreProfile, LockInv, TypeOK
      <4>2. landed \subseteq cache'[k].sees \cup cache'[k].overlaps
        BY <4>1
      <4>3. w \in Inside /\ Over(w, k)' => w \in landed
        BY <2>1 DEF WriteInv, Landed, Over
      <4> QED BY <4>2, <4>3 DEF Dropped
    <3> QED BY <3>1, <3>2
  <2> QED BY <2>2, <2>3
<1>4. ASSUME NEW k \in Caches, Expire(k) PROVE Goal
  <2>1. UNCHANGED <<write, landed>>
    BY <1>4 DEF Expire
  <2>2. \A j \in Caches : cache'[j] \in {cache[j], NoCache}
    BY <1>4 DEF Expire, LockInv, TypeOK
  <2> QED BY <2>1, <2>2, Untouched
<1>5. ASSUME NEW process \in SUBSET Writers, Crash(process) PROVE Goal
  <2>1. CASE write'[w] = write[w]
    <3>1. \A j \in Caches : cache'[j] \in {cache[j], NoCache}
      BY <1>5 DEF Crash
    <3>2. landed' = landed
      BY <1>5 DEF Crash
    <3> QED BY <2>1, <3>1, <3>2, Untouched
  <2>2. CASE write'[w] # write[w]
    <3>1. write'[w].at = "failed"
      BY <1>0, <1>5, <2>2 DEF Crash, WriteState
    <3> QED BY <3>1, InProgress DEF Behind
  <2> QED BY <2>1, <2>2
<1>6. ASSUME UNCHANGED vars PROVE Goal
  BY <1>6, Untouched DEF vars
<1> HIDE DEF Goal
<1>7. Goal
  BY <1>1, <1>2, <1>3, <1>4, <1>5, <1>6, WriterAssumption DEF Next
<1> QED BY <1>7 DEF Goal

THEOREM WriteInvHolds == Spec => []WriteInv
<1>1. Init => WriteInv
  BY DEF Init, NoWrite, WriteInv, Behind, Past, Landed, Dropped, Over
<1>2. LockInv /\ WriteInv /\ [Next]_vars => WriteInv'
  BY WriteInvStep
<1> QED BY <1>1, <1>2, LockInvHolds, PTL DEF Spec

\* A write that returned is in the partitions with all its rows (warehouse.py:177-196).
THEOREM ReturnedIsMerged == Spec => []DoneMeansMerged
<1>1. WriteInv => DoneMeansMerged
  BY DEF WriteInv, Behind, Past, DoneMeansMerged
<1> QED BY <1>1, WriteInvHolds, PTL

\* A cached profile misses only writes that landed while it was computed
\* (warehouse.py:215-222, 869-880).
THEOREM ProfilesMissOnlyOverlaps == Spec => []MissesOnlyOverlaps
<1>1. WriteInv => MissesOnlyOverlaps
  BY WriterAssumption DEF WriteInv, Dropped, Over, MissesOnlyOverlaps, Returned
<1> QED BY <1>1, WriteInvHolds, PTL

-----------------------------------------------------------------------------
(* The import: one breaker.                                                  *)

\* What the methods assign keeps a breaker's types.
LEMMA BreakerFields ==
  ASSUME NEW b \in Breaker, NEW st \in BreakerStates, NEW f \in 0..FailureLimit, NEW c \in 0..Cooldown
  PROVE  /\ [b EXCEPT !.state = st, !.failures = f, !.cooling = c] \in Breaker
         /\ [b EXCEPT !.state = st, !.failures = f, !.probing = FALSE, !.cooling = c] \in Breaker
  BY DEF Breaker

\* Every method of a breaker gives a breaker.
LEMMA BreakerMethods ==
  ASSUME NEW b \in Breaker
  PROVE  /\ NewBreaker \in Breaker /\ Cooler(b) \in Breaker /\ AfterAllow(b) \in Breaker
         /\ RecordSuccess(b) \in Breaker /\ RecordFailure(b) \in Breaker
<1>1. NewBreaker \in Breaker
  BY BreakerConstants DEF NewBreaker, Breaker, BreakerStates
<1>2. Cooler(b) \in Breaker
  BY BreakerConstants DEF Cooler, Breaker, BreakerStates
<1>3. AfterAllow(b) \in Breaker
  BY DEF AfterAllow, Breaker, BreakerStates
<1>4. RecordSuccess(b) \in Breaker
  <2>1. 0 \in 0..FailureLimit /\ 0 \in 0..Cooldown /\ "closed" \in BreakerStates
    BY BreakerConstants DEF BreakerStates
  <2> QED BY <2>1, BreakerFields DEF RecordSuccess
<1>5. RecordFailure(b) \in Breaker
  <2>1. ASSUME NEW e \in Breaker PROVE Opened(e) \in Breaker
    <3>1. 0 \in 0..FailureLimit /\ Cooldown \in 0..Cooldown /\ "open" \in BreakerStates
      BY BreakerConstants DEF BreakerStates
    <3> QED BY <3>1, BreakerFields DEF Opened
  <2>2. [b EXCEPT !.probing = FALSE] \in Breaker
    BY DEF Breaker
  <2>3. CASE b.state = "half_open" \/ b.failures + 1 >= FailureLimit
    BY <2>1, <2>2, <2>3 DEF RecordFailure
  <2>4. CASE ~(b.state = "half_open" \/ b.failures + 1 >= FailureLimit)
    <3>1. b.failures + 1 \in 0..FailureLimit
      BY <2>4, BreakerConstants DEF Breaker
    <3>2. [[b EXCEPT !.probing = FALSE] EXCEPT !.failures = @ + 1] \in Breaker
      BY <2>2, <3>1 DEF Breaker
    <3> QED BY <2>4, <3>2 DEF RecordFailure
  <2> QED BY <2>3, <2>4
<1> QED BY <1>1, <1>2, <1>3, <1>4, <1>5

\* An answer, of a probe or not, leaves no breaker half-open; one that leaves it
\* open has restarted the cooldown or not touched it.
LEMMA AnswersMoveOn ==
  ASSUME NEW b \in Breaker, b.probing <=> b.state = "half_open",
         NEW r \in {RecordSuccess(b), RecordFailure(b)}
  PROVE  /\ r.state # "half_open" /\ r.probing = FALSE
         /\ r.state = "open" =>
              r.cooling = Cooldown \/ (b.state = "open" /\ r.cooling = b.cooling)
<1>1. CASE r = RecordSuccess(b)
  BY <1>1 DEF RecordSuccess, Breaker
<1>2. CASE r = RecordFailure(b)
  BY <1>2 DEF RecordFailure, Opened, Breaker, BreakerStates
<1> QED BY <1>1, <1>2

\* A call that is let through makes the breaker half-open unless it is closed, and
\* then it is the first since the cooldown ended.
LEMMA AllowedCall ==
  ASSUME NEW b \in Breaker, b.probing <=> b.state = "half_open", Allows(b)
  PROVE  /\ b.state = "closed" => AfterAllow(b) = b
         /\ b.state # "closed" => /\ b.state = "open" /\ b.cooling = 0
                                  /\ AfterAllow(b).state = "half_open" /\ AfterAllow(b).probing = TRUE
  BY DEF Allows, AfterAllow, Cooling, Breaker, BreakerStates

\* A call that is not let through changes nothing.
LEMMA RefusedCall ==
  ASSUME NEW b \in Breaker, b.probing <=> b.state = "half_open", ~Allows(b)
  PROVE  /\ AfterAllow(b).state = b.state /\ AfterAllow(b).probing = b.probing
         /\ AfterAllow(b).cooling = b.cooling
  BY DEF Allows, AfterAllow, Cooling, Breaker, BreakerStates

-----------------------------------------------------------------------------
(* The import: types.                                                       *)

\* The stages a worker's task goes through have their types.
LEMMA TaskStages ==
  ASSUME NEW s \in Symbols, NEW st \in {"bars", "flow", "info"}, NEW call \in Calls,
         NEW left \in 0..CallMax, NEW probe \in BOOLEAN
  PROVE  /\ Idle \in Tasks
         /\ [at |-> st, symbol |-> s] \in Tasks
         /\ [at |-> "calling", symbol |-> s, call |-> call, left |-> left, probe |-> probe] \in Tasks
  BY DEF Idle, Tasks

LEMMA BusyTask ==
  ASSUME NEW t \in Tasks, t.at # "idle"
  PROVE  /\ t.symbol \in Symbols
         /\ t.at \in {"bars", "flow", "info", "calling"}
         /\ t.at = "calling" => t.call \in Calls /\ t.left \in 0..CallMax /\ t.probe \in BOOLEAN
  BY DEF Tasks

LEMMA LaterTask ==
  ASSUME NEW t \in Tasks, t.at = "calling", t.left > 0
  PROVE  [t EXCEPT !.left = @ - 1] \in Tasks
<1>1. t \in [at : {"calling"}, symbol : Symbols, call : Calls, left : 0..CallMax, probe : BOOLEAN]
  BY DEF Tasks
<1>2. t.left - 1 \in 0..CallMax
  BY <1>1, ImportConstants
<1> QED BY <1>1, <1>2 DEF Tasks

\* A worker's step puts a task in the place of its own.
LEMMA WorkerTypes ==
  ASSUME ImportTypeOK, NEW w \in Workers, Worker(w)
  PROVE  ImportTypeOK'
<1> USE DEF ImportTypeOK
<1>0. ASSUME NEW t \in Tasks PROVE [task EXCEPT ![w] = t] \in [Workers -> Tasks]
  BY <1>0
<1>1. ASSUME NEW call \in Calls, NEW b \in Breaker PROVE [breaker EXCEPT ![call] = b] \in [Calls -> Breaker]
  BY <1>1
<1>2. ASSUME NEW o \in Outcomes, task[w].at # "idle", Answer(w, o)
      PROVE  task' \in [Workers -> Tasks] /\ results' \subseteq [symbol : Symbols, outcome : Outcomes]
  <2>1. task[w].symbol \in Symbols
    BY <1>2, BusyTask
  <2>2. Idle \in Tasks
    BY DEF Idle, Tasks
  <2> QED BY <1>0, <1>2, <2>1, <2>2 DEF Answer
<1>3. ASSUME NEW call \in Calls, task[w].at # "idle", Proceed(w, call)
      PROVE  task' \in [Workers -> Tasks] /\ results' \subseteq [symbol : Symbols, outcome : Outcomes]
  <2>1. CASE call = "flow" /\ Answer(w, "rows")
    BY <1>2, <1>3, <2>1 DEF Outcomes
  <2>2. CASE /\ task' = [task EXCEPT ![w] = [at |-> "flow", symbol |-> task[w].symbol]]
             /\ UNCHANGED results
    <3>1. [at |-> "flow", symbol |-> task[w].symbol] \in Tasks
      BY <1>3, BusyTask DEF Tasks
    <3> QED BY <1>0, <2>2, <3>1
  <2> QED BY <1>3, <2>1, <2>2 DEF Proceed
<1>4. CASE Take(w)
  <2>1. PICK s \in pending : /\ pending' = pending \ {s}
                             /\ task' = [task EXCEPT ![w] = [at |-> "bars", symbol |-> s]]
    BY <1>4 DEF Take
  <2>2. [at |-> "bars", symbol |-> s] \in Tasks
    BY DEF Tasks
  <2>3. task' \in [Workers -> Tasks]
    BY <1>0, <2>1, <2>2
  <2> QED BY <1>4, <2>1, <2>3 DEF Take, files
<1>5. CASE FetchNothing(w)
  <2>1. PICK o \in {"empty", "error"} : Answer(w, o)
    BY <1>5 DEF FetchNothing
  <2>2. o \in Outcomes /\ task[w].at # "idle"
    BY <1>5 DEF FetchNothing, Outcomes
  <2>3. task' \in [Workers -> Tasks] /\ results' \subseteq [symbol : Symbols, outcome : Outcomes]
    BY <1>2, <2>1, <2>2
  <2> QED BY <1>5, <2>3 DEF FetchNothing, files
<1>6. CASE FetchBars(w)
  <2>1. PICK next \in Calls : task' = [task EXCEPT ![w] = [at |-> next, symbol |-> task[w].symbol]]
    BY <1>6 DEF FetchBars
  <2>2. task[w].symbol \in Symbols
    BY <1>6, BusyTask DEF FetchBars
  <2>3. [at |-> next, symbol |-> task[w].symbol] \in Tasks
    BY <2>2 DEF Tasks, Calls
  <2>4. task' \in [Workers -> Tasks]
    BY <1>0, <2>1, <2>3
  <2> QED BY <1>6, <2>4 DEF FetchBars, files
<1>7. ASSUME NEW call \in Calls, Skip(w, call) PROVE ImportTypeOK'
  <2>1. task[w].at # "idle"
    BY <1>7 DEF Skip, Calls
  <2>2. task' \in [Workers -> Tasks] /\ results' \subseteq [symbol : Symbols, outcome : Outcomes]
    BY <1>3, <1>7, <2>1 DEF Skip
  <2>3. breaker' \in [Calls -> Breaker]
    BY <1>1, <1>7, BreakerMethods DEF Skip
  <2> QED BY <1>7, <2>2, <2>3 DEF Skip, files
<1>8. ASSUME NEW call \in Calls, Call(w, call) PROVE ImportTypeOK'
  <2>1. breaker' \in [Calls -> Breaker]
    BY <1>1, <1>8, BreakerMethods DEF Call
  <2>2. task[w].symbol \in Symbols
    BY <1>8, BusyTask DEF Call, Calls
  <2>3. (breaker'[call].state = "half_open") \in BOOLEAN /\ CallMax \in 0..CallMax
    BY ImportConstants
  <2>4. [at |-> "calling", symbol |-> task[w].symbol, call |-> call, left |-> CallMax,
         probe |-> breaker'[call].state = "half_open"] \in Tasks
    BY <2>2, <2>3 DEF Tasks
  <2>5. task' \in [Workers -> Tasks]
    BY <1>0, <1>8, <2>4 DEF Call
  <2> QED BY <1>8, <2>1, <2>5 DEF Call, files
<1>9. ASSUME NEW call \in Calls, Succeed(w, call) \/ CallFails(w, call) PROVE ImportTypeOK'
  <2>1. task[w].at # "idle"
    BY <1>9 DEF Succeed, CallFails
  <2>2. task' \in [Workers -> Tasks] /\ results' \subseteq [symbol : Symbols, outcome : Outcomes]
    BY <1>3, <1>9, <2>1 DEF Succeed, CallFails
  <2>3. breaker' \in [Calls -> Breaker]
    BY <1>1, <1>9, BreakerMethods DEF Succeed, CallFails
  <2> QED BY <1>9, <2>2, <2>3 DEF Succeed, CallFails, files
<1> QED BY <1>4, <1>5, <1>6, <1>7, <1>8, <1>9 DEF Worker

\* So do time and the main thread.
LEMMA TickTypes ==
  ASSUME ImportTypeOK, Tick
  PROVE  ImportTypeOK'
<1>1. task' \in [Workers -> Tasks]
  <2>1. ASSUME NEW w \in Workers
        PROVE  (IF task[w].at = "calling" THEN [task[w] EXCEPT !.left = @ - 1] ELSE task[w]) \in Tasks
    BY LaterTask DEF ImportTypeOK, Tick
  <2> QED BY <2>1 DEF Tick
<1>2. breaker' \in [Calls -> Breaker]
  BY BreakerMethods DEF ImportTypeOK, Tick
<1> QED BY <1>1, <1>2 DEF ImportTypeOK, Tick, files

LEMMA LineTypes ==
  ASSUME NEW s \in Symbols, NEW st \in {"completed", "failed"}, NEW rows \in BOOLEAN
  PROVE  Line(s, st, rows) \in Lines
  BY DEF Line, Lines

LEMMA MainTypes ==
  ASSUME ImportTypeOK, Main \/ Killed
  PROVE  ImportTypeOK'
<1> USE DEF ImportTypeOK, pool, files
<1>1. ASSUME NEW r \in results, CollectRows(r) PROVE ImportTypeOK'
  <2>1. r.symbol \in Symbols
    OBVIOUS
  <2>2. CASE Cardinality(batch \cup {r.symbol}) >= BatchSize
    BY <1>1, <2>1, <2>2 DEF CollectRows, Written
  <2>3. CASE ~(Cardinality(batch \cup {r.symbol}) >= BatchSize)
    BY <1>1, <2>1, <2>3 DEF CollectRows
  <2> QED BY <2>2, <2>3
<1>2. ASSUME NEW r \in results, CollectEmpty(r) \/ CollectError(r) PROVE ImportTypeOK'
  <2>1. /\ Line(r.symbol, "completed", FALSE) \in Lines
        /\ Line(r.symbol, "failed", FALSE) \in Lines
    BY LineTypes
  <2>2. progress' \subseteq Lines
    BY <1>2, <2>1 DEF CollectEmpty, CollectError
  <2> QED BY <1>2, <2>2 DEF CollectEmpty, CollectError
<1>3. CASE FinalFlush
  BY <1>3 DEF FinalFlush, Written
<1>4. CASE Finish
  BY <1>4 DEF Finish
<1>5. CASE AppendLine
  <2>1. \A s \in logging : Line(s, "completed", TRUE) \in Lines
    BY LineTypes
  <2>2. progress' \subseteq Lines
    BY <1>5, <2>1 DEF AppendLine
  <2> QED BY <1>5, <2>2 DEF AppendLine
<1>6. CASE Restart
  BY <1>6 DEF Restart
<1>7. CASE Killed
  <2>1. breaker' \in [Calls -> Breaker]
    BY <1>7, BreakerConstants DEF Killed, NewBreaker, Breaker, BreakerStates
  <2>2. task' \in [Workers -> Tasks]
    BY <1>7 DEF Killed, Idle, Tasks
  <2>3. crashes' \in Nat
    BY <1>7 DEF Killed
  <2> QED BY <1>7, <2>1, <2>2, <2>3 DEF Killed
<1> QED BY <1>1, <1>2, <1>3, <1>4, <1>5, <1>6, <1>7 DEF Main

LEMMA InitTypes ==
  ASSUME ImportInit
  PROVE  ImportTypeOK
<1>1. breaker \in [Calls -> Breaker]
  BY BreakerConstants DEF ImportInit, NewBreaker, Breaker, BreakerStates
<1>2. task \in [Workers -> Tasks]
  BY DEF ImportInit, Idle, Tasks
<1> QED BY <1>1, <1>2 DEF ImportInit, ImportTypeOK

LEMMA StepTypes ==
  ASSUME ImportTypeOK, [ImportNext]_importVars
  PROVE  ImportTypeOK'
<1>1. CASE UNCHANGED importVars
  BY <1>1 DEF ImportTypeOK, importVars
<1>2. CASE ImportNext
  BY <1>2, TickTypes, MainTypes, WorkerTypes DEF ImportNext
<1> QED BY <1>1, <1>2

\* Every variable of the import has its type, for any stocks, workers and limits
\* (run-full-market-import.py, its files, threads and breakers).
THEOREM ImportTypeCorrect == ImportSpec => []ImportTypeOK
  BY InitTypes, StepTypes, PTL DEF ImportSpec

-----------------------------------------------------------------------------
(* The import: one probe.                                                   *)

Probes(w, c) == task[w].at = "calling" /\ task[w].call = c /\ task[w].probe

\* Half-open means that the probe is in flight; there is never more than one, and
\* while it is, an open breaker cools longer than the probe may take.
Guarded(c) ==
  /\ breaker[c].probing <=> breaker[c].state = "half_open"
  /\ breaker[c].state = "half_open" => \E w \in Workers : Probes(w, c)
  /\ \A v, w \in Workers : Probes(v, c) /\ Probes(w, c) => v = w
  /\ \A w \in Workers : Probes(w, c) /\ breaker[c].state = "open" => task[w].left < breaker[c].cooling

AllGuarded == \A c \in Calls : Guarded(c)

\* A step that leaves the probes of a call as they are, and does not shorten the
\* cooldown, keeps it guarded.
LEMMA QuietStep ==
  ASSUME NEW c \in Calls, Guarded(c),
         \A w \in Workers : /\ Probes(w, c)' <=> Probes(w, c)
                            /\ Probes(w, c) => task'[w].left = task[w].left,
         breaker'[c].state = breaker[c].state, breaker'[c].probing = breaker[c].probing,
         breaker'[c].cooling = breaker[c].cooling
  PROVE  Guarded(c)'
  BY DEF Guarded

\* A step of a worker that neither begins nor ends a call is quiet.
LEMMA NoCallStep ==
  ASSUME ImportTypeOK, AllGuarded, NEW w \in Workers, NEW t, task' = [task EXCEPT ![w] = t],
         task[w].at # "calling", t.at # "calling",
         \A c \in Calls : /\ breaker'[c].state = breaker[c].state
                         /\ breaker'[c].probing = breaker[c].probing
                         /\ breaker'[c].cooling = breaker[c].cooling
  PROVE  AllGuarded'
<1> SUFFICES ASSUME NEW c \in Calls PROVE Guarded(c)'
  BY DEF AllGuarded
<1>1. \A v \in Workers : /\ Probes(v, c)' <=> Probes(v, c)
                         /\ Probes(v, c) => task'[v].left = task[v].left
  <2> SUFFICES ASSUME NEW v \in Workers
               PROVE  /\ Probes(v, c)' <=> Probes(v, c)
                      /\ Probes(v, c) => task'[v].left = task[v].left
    OBVIOUS
  <2>1. CASE v = w
    BY <2>1 DEF Probes, ImportTypeOK
  <2>2. CASE v # w
    BY <2>2 DEF Probes, ImportTypeOK
  <2> QED BY <2>1, <2>2
<1> QED BY <1>1, QuietStep DEF AllGuarded

LEMMA ProceedIsQuiet ==
  ASSUME NEW w \in Workers, NEW call \in Calls, Proceed(w, call)
  PROVE  \E t : task' = [task EXCEPT ![w] = t] /\ t.at # "calling"
<1>1. CASE call = "flow" /\ Answer(w, "rows")
  <2>1. Idle.at # "calling"
    BY DEF Idle
  <2> QED BY <1>1, <2>1 DEF Answer
<1>2. CASE task' = [task EXCEPT ![w] = [at |-> "flow", symbol |-> task[w].symbol]]
  <2>1. [at |-> "flow", symbol |-> task[w].symbol].at # "calling"
    OBVIOUS
  <2> QED BY <1>2, <2>1
<1> QED BY <1>1, <1>2 DEF Proceed

\* An answer takes its caller out of the calls and moves its breaker on.
LEMMA AnswerGuards ==
  ASSUME ImportTypeOK, AllGuarded, NEW w \in Workers, NEW call \in Calls,
         Succeed(w, call) \/ CallFails(w, call)
  PROVE  AllGuarded'
<1>1. PICK t : task' = [task EXCEPT ![w] = t] /\ t.at # "calling"
  BY ProceedIsQuiet DEF Succeed, CallFails
<1>2. \A v \in Workers : /\ v # w => task'[v] = task[v]
                         /\ v = w => task'[v].at # "calling"
  BY <1>1 DEF ImportTypeOK
<1>3. task[w].at = "calling" /\ task[w].call = call
  BY DEF Succeed, CallFails
<1>4. PICK r \in {RecordSuccess(breaker[call]), RecordFailure(breaker[call])} :
        breaker' = [breaker EXCEPT ![call] = r]
  BY DEF Succeed, CallFails
<1> SUFFICES ASSUME NEW c \in Calls PROVE Guarded(c)'
  BY DEF AllGuarded
<1>5. CASE c # call
  <2>1. breaker'[c] = breaker[c]
    BY <1>4, <1>5 DEF ImportTypeOK
  <2>2. \A v \in Workers : /\ Probes(v, c)' <=> Probes(v, c)
                           /\ Probes(v, c) => task'[v].left = task[v].left
    BY <1>2, <1>3, <1>5 DEF Probes
  <2> QED BY <2>1, <2>2, QuietStep DEF AllGuarded
<1>6. CASE c = call
  <2>1. breaker[c] \in Breaker /\ (breaker[c].probing <=> breaker[c].state = "half_open")
    BY DEF ImportTypeOK, AllGuarded, Guarded
  <2>2. breaker'[c] = r
    BY <1>4, <1>6 DEF ImportTypeOK
  <2>3. /\ r.state # "half_open" /\ r.probing = FALSE
        /\ r.state = "open" =>
              r.cooling = Cooldown \/ (breaker[c].state = "open" /\ r.cooling = breaker[c].cooling)
    BY <1>4, <1>6, <2>1, AnswersMoveOn
  <2>4. \A v \in Workers : Probes(v, c)' => v # w /\ Probes(v, c) /\ task'[v].left = task[v].left
    BY <1>2 DEF Probes
  <2>5. \A v \in Workers : Probes(v, c) => task[v].left \in 0..CallMax
    BY BusyTask DEF Probes, ImportTypeOK
  <2>6. \A v \in Workers : Probes(v, c)' /\ r.state = "open" => task'[v].left < r.cooling
    BY <2>3, <2>4, <2>5, ImportConstants, BreakerConstants DEF AllGuarded, Guarded
  <2>7. \A u, v \in Workers : Probes(u, c)' /\ Probes(v, c)' => u = v
    BY <2>4 DEF AllGuarded, Guarded
  <2> QED BY <2>2, <2>3, <2>6, <2>7 DEF Guarded
<1> QED BY <1>5, <1>6

\* The call that is let through is the only probe.
LEMMA CallGuards ==
  ASSUME ImportTypeOK, AllGuarded, NEW w \in Workers, NEW call \in Calls, Call(w, call)
  PROVE  AllGuarded'
<1>1. /\ task[w].at = call /\ task[w].at # "calling" /\ Allows(breaker[call])
      /\ breaker' = [breaker EXCEPT ![call] = AfterAllow(@)]
  BY DEF Call, Calls
<1>2. /\ \A v \in Workers : v # w => task'[v] = task[v]
      /\ task'[w].at = "calling" /\ task'[w].call = call /\ task'[w].left = CallMax
      /\ task'[w].probe <=> breaker'[call].state = "half_open"
  BY DEF Call, ImportTypeOK
<1> SUFFICES ASSUME NEW c \in Calls PROVE Guarded(c)'
  BY DEF AllGuarded
<1>3. CASE c # call
  <2>1. breaker'[c] = breaker[c]
    BY <1>1, <1>3 DEF ImportTypeOK
  <2>2. \A v \in Workers : /\ Probes(v, c)' <=> Probes(v, c)
                           /\ Probes(v, c) => task'[v].left = task[v].left
    BY <1>1, <1>2, <1>3 DEF Probes
  <2> QED BY <2>1, <2>2, QuietStep DEF AllGuarded
<1>4. CASE c = call
  <2>1. breaker[c] \in Breaker /\ (breaker[c].probing <=> breaker[c].state = "half_open")
    BY DEF ImportTypeOK, AllGuarded, Guarded
  <2>2. breaker'[c] = AfterAllow(breaker[c])
    BY <1>1, <1>4 DEF ImportTypeOK
  <2>3. CASE breaker[c].state = "closed"
    <3>1. breaker'[c] = breaker[c]
      BY <1>1, <1>4, <2>1, <2>2, <2>3, AllowedCall
    <3>2. \A v \in Workers : /\ Probes(v, c)' <=> Probes(v, c)
                             /\ Probes(v, c) => task'[v].left = task[v].left
      BY <1>1, <1>2, <1>4, <2>3, <3>1 DEF Probes
    <3> QED BY <3>1, <3>2, QuietStep DEF AllGuarded
  <2>4. CASE breaker[c].state # "closed"
    <3>1. /\ breaker[c].state = "open" /\ breaker[c].cooling = 0
          /\ breaker'[c].state = "half_open" /\ breaker'[c].probing = TRUE
      BY <1>1, <1>4, <2>1, <2>2, <2>4, AllowedCall
    <3>2. \A v \in Workers : ~Probes(v, c)
      <4>1. \A v \in Workers : Probes(v, c) => task[v].left \in 0..CallMax
        BY BusyTask DEF Probes, ImportTypeOK
      <4> QED BY <3>1, <4>1, ImportConstants DEF AllGuarded, Guarded
    <3>3. \A v \in Workers : Probes(v, c)' => v = w
      BY <1>2, <3>2 DEF Probes
    <3>4. Probes(w, c)'
      BY <1>2, <1>4, <3>1 DEF Probes
    <3> QED BY <3>1, <3>3, <3>4 DEF Guarded
  <2> QED BY <2>3, <2>4
<1> QED BY <1>3, <1>4

\* Time takes as much off a cooldown as off the calls it waits for.
LEMMA TickGuards ==
  ASSUME ImportTypeOK, AllGuarded, Tick
  PROVE  AllGuarded'
<1> SUFFICES ASSUME NEW c \in Calls PROVE Guarded(c)'
  BY DEF AllGuarded
<1>1. breaker[c] \in Breaker /\ breaker'[c] = Cooler(breaker[c])
  BY DEF Tick, ImportTypeOK
<1>2. /\ breaker'[c].state = breaker[c].state /\ breaker'[c].probing = breaker[c].probing
      /\ breaker'[c].cooling = IF breaker[c].cooling > 0 THEN breaker[c].cooling - 1 ELSE 0
      /\ breaker[c].cooling \in Nat
  BY <1>1, BreakerConstants DEF Cooler, Breaker
<1>3. ASSUME NEW v \in Workers
      PROVE  /\ Probes(v, c)' <=> Probes(v, c)
             /\ Probes(v, c) => /\ task[v].left \in Nat /\ task[v].left > 0
                               /\ task'[v].left = task[v].left - 1
  <2>1. CASE task[v].at = "calling"
    <3>1. task'[v] = [task[v] EXCEPT !.left = @ - 1] /\ task[v].left > 0
      BY <2>1 DEF Tick
    <3>2. task[v] \in [at : {"calling"}, symbol : Symbols, call : Calls, left : 0..CallMax, probe : BOOLEAN]
      BY <2>1 DEF ImportTypeOK, Tasks
    <3> QED BY <3>1, <3>2, ImportConstants DEF Probes
  <2>2. CASE task[v].at # "calling"
    BY <2>2 DEF Tick, Probes
  <2> QED BY <2>1, <2>2
<1> QED BY <1>2, <1>3 DEF AllGuarded, Guarded

LEMMA WorkerGuards ==
  ASSUME ImportTypeOK, AllGuarded, NEW w \in Workers, Worker(w)
  PROVE  AllGuarded'
<1>1. CASE Take(w)
  <2>1. PICK s \in pending : task' = [task EXCEPT ![w] = [at |-> "bars", symbol |-> s]]
    BY <1>1 DEF Take
  <2>2. task[w].at # "calling" /\ [at |-> "bars", symbol |-> s].at # "calling" /\ breaker' = breaker
    BY <1>1 DEF Take, Idle
  <2> QED BY <2>1, <2>2, NoCallStep
<1>2. CASE FetchNothing(w)
  <2>1. task' = [task EXCEPT ![w] = Idle] /\ Idle.at # "calling" /\ task[w].at # "calling" /\ breaker' = breaker
    BY <1>2 DEF FetchNothing, Answer, Idle
  <2> QED BY <2>1, NoCallStep
<1>3. CASE FetchBars(w)
  <2>1. PICK next \in Calls : task' = [task EXCEPT ![w] = [at |-> next, symbol |-> task[w].symbol]]
    BY <1>3 DEF FetchBars
  <2>2. [at |-> next, symbol |-> task[w].symbol].at # "calling" /\ task[w].at # "calling" /\ breaker' = breaker
    BY <1>3 DEF FetchBars, Calls
  <2> QED BY <2>1, <2>2, NoCallStep
<1>4. ASSUME NEW call \in Calls, Skip(w, call) PROVE AllGuarded'
  <2>1. PICK t : task' = [task EXCEPT ![w] = t] /\ t.at # "calling"
    BY <1>4, ProceedIsQuiet DEF Skip
  <2>2. task[w].at # "calling"
    BY <1>4 DEF Skip, Calls
  <2>3. ASSUME NEW c \in Calls
        PROVE  /\ breaker'[c].state = breaker[c].state
               /\ breaker'[c].probing = breaker[c].probing
               /\ breaker'[c].cooling = breaker[c].cooling
    <3>1. CASE c # call
      BY <1>4, <3>1 DEF Skip, ImportTypeOK
    <3>2. CASE c = call
      <4>1. breaker'[c] = AfterAllow(breaker[c]) /\ ~Allows(breaker[c]) /\ breaker[c] \in Breaker
        BY <1>4, <3>2 DEF Skip, ImportTypeOK
      <4> QED BY <4>1, RefusedCall DEF AllGuarded, Guarded
    <3> QED BY <3>1, <3>2
  <2> QED BY <2>1, <2>2, <2>3, NoCallStep
<1> QED BY <1>1, <1>2, <1>3, <1>4, CallGuards, AnswerGuards DEF Worker

LEMMA MainGuards ==
  ASSUME ImportTypeOK, AllGuarded, Main \/ Killed \/ UNCHANGED importVars
  PROVE  AllGuarded'
<1> SUFFICES ASSUME NEW c \in Calls PROVE Guarded(c)'
  BY DEF AllGuarded
<1>1. CASE Killed
  <2>1. /\ breaker'[c].state = "closed" /\ breaker'[c].probing = FALSE
        /\ \A w \in Workers : task'[w].at # "calling"
    BY <1>1 DEF Killed, NewBreaker, Idle
  <2> QED BY <2>1 DEF Guarded, Probes
<1>2. CASE Main \/ UNCHANGED importVars
  <2>1. task' = task /\ breaker' = breaker
    BY <1>2 DEF Main, CollectRows, CollectEmpty, CollectError, FinalFlush, Finish, AppendLine,
                Restart, pool, importVars
  <2>2. \A w \in Workers : /\ Probes(w, c)' <=> Probes(w, c)
                           /\ Probes(w, c) => task'[w].left = task[w].left
    BY <2>1 DEF Probes
  <2> QED BY <2>1, <2>2, QuietStep DEF AllGuarded
<1> QED BY <1>1, <1>2

LEMMA InitGuards ==
  ASSUME ImportInit
  PROVE  AllGuarded
<1> SUFFICES ASSUME NEW c \in Calls PROVE Guarded(c)
  BY DEF AllGuarded
<1>1. /\ breaker[c].state = "closed" /\ breaker[c].probing = FALSE
      /\ \A w \in Workers : task[w].at # "calling"
  BY DEF ImportInit, NewBreaker, Idle
<1> QED BY <1>1 DEF Guarded, Probes

LEMMA GuardsSuffice ==
  ASSUME AllGuarded
  PROVE  ProbesAreSound
<1>1. HalfOpenHasProbe
  BY DEF AllGuarded, Guarded, Probes, HalfOpenHasProbe
<1>2. OneProbe
  BY DEF AllGuarded, Guarded, Probes, OneProbe
<1> QED BY <1>1, <1>2 DEF ProbesAreSound

\* A breaker that is half-open has its probe in flight, and never two, although late
\* answers of other workers may close or reopen it meanwhile: the cooldown is
\* longer than a call may take (astock_adapter.py:57).
THEOREM ProbesCorrect == ImportSpec => []ProbesAreSound
<1>1. ImportInit => ImportTypeOK /\ AllGuarded
  BY InitTypes, InitGuards
<1>2. ImportTypeOK /\ AllGuarded /\ [ImportNext]_importVars => (ImportTypeOK /\ AllGuarded)'
  BY StepTypes, TickGuards, WorkerGuards, MainGuards DEF ImportNext
<1>3. ImportTypeOK /\ AllGuarded => ProbesAreSound
  BY GuardsSuffice
<1> QED BY <1>1, <1>2, <1>3, PTL DEF ImportSpec

-----------------------------------------------------------------------------
(* The import: the progress file.                                           *)

\* A stock of a running import is somewhere: still to be fetched, in a thread, in a
\* future, in the batch, among the lines to append, or it has a line.
InHand(s) ==
  \/ s \in pending
  \/ \E w \in Workers : task[w].at # "idle" /\ task[w].symbol = s
  \/ \E r \in results : r.symbol = s
  \/ s \in batch \/ s \in logging
  \/ \E line \in progress : line.symbol = s

AllInHand == main # "dead" => \A s \in Symbols : InHand(s)

\* Lines follow the write they are about, and come before anything else is collected.
LinesFollow ==
  /\ logging \subseteq store /\ Completed \subseteq store
  /\ main # "appending" => logging = {}
  /\ main = "finished" => AllCollected /\ batch = {}

\* A line that is new is of one stock.
LEMMA NewLine ==
  ASSUME NEW s, NEW st, NEW rows \in BOOLEAN, progress' = progress \cup {Line(s, st, rows)}
  PROVE  /\ \A x \in Completed' : x \in Completed \/ (x = s /\ st = "completed" /\ rows)
         /\ \E line \in progress' : line.symbol = s
<1>1. /\ Line(s, st, rows).symbol = s /\ Line(s, st, rows).status = st
      /\ Line(s, st, rows).rows = rows
  BY DEF Line
<1> QED BY <1>1 DEF Completed

\* What a worker puts in place of its task is of the same stock.
LEMMA WorkerKeepsStock ==
  ASSUME ImportTypeOK, NEW w \in Workers, Worker(w)
  PROVE  /\ \A s : InHand(s) => InHand(s)'
         /\ UNCHANGED <<batch, logging, main, store, progress>>
         /\ pending # {} \/ task[w].at # "idle"
<1>1. ASSUME NEW t, task' = [task EXCEPT ![w] = t], NEW s,
             pending' = pending, results' = results, batch' = batch, logging' = logging, progress' = progress,
             t.at # "idle", t.symbol = task[w].symbol, InHand(s)
      PROVE  InHand(s)'
  <2>1. \A v \in Workers : task'[v] = IF v = w THEN t ELSE task[v]
    BY <1>1 DEF ImportTypeOK
  <2> QED BY <1>1, <2>1 DEF InHand
<1>2. ASSUME NEW o, Answer(w, o), NEW s,
             pending' = pending, batch' = batch, logging' = logging, progress' = progress, InHand(s)
      PROVE  InHand(s)'
  <2>1. \A v \in Workers : task'[v] = IF v = w THEN Idle ELSE task[v]
    BY <1>2 DEF Answer, ImportTypeOK
  <2>2. results \subseteq results' /\ \E r \in results' : r.symbol = task[w].symbol
    <3>1. [symbol |-> task[w].symbol, outcome |-> o].symbol = task[w].symbol
      OBVIOUS
    <3> QED BY <1>2, <3>1 DEF Answer
  <2> QED BY <1>2, <2>1, <2>2 DEF InHand
<1>3. ASSUME NEW call \in Calls, Proceed(w, call), NEW s,
             pending' = pending, batch' = batch, logging' = logging, progress' = progress, InHand(s)
      PROVE  InHand(s)'
  <2>1. CASE call = "flow" /\ Answer(w, "rows")
    BY <1>2, <1>3, <2>1
  <2>2. CASE /\ task' = [task EXCEPT ![w] = [at |-> "flow", symbol |-> task[w].symbol]]
             /\ UNCHANGED results
    <3>1. /\ [at |-> "flow", symbol |-> task[w].symbol].at # "idle"
          /\ [at |-> "flow", symbol |-> task[w].symbol].symbol = task[w].symbol
      OBVIOUS
    <3> QED BY <1>1, <1>3, <2>2, <3>1
  <2> QED BY <1>3, <2>1, <2>2 DEF Proceed
<1>4. CASE Take(w)
  <2>1. PICK q \in pending : /\ pending' = pending \ {q}
                             /\ task' = [task EXCEPT ![w] = [at |-> "bars", symbol |-> q]]
    BY <1>4 DEF Take
  <2>2. \A v \in Workers : task'[v] = IF v = w THEN [at |-> "bars", symbol |-> q] ELSE task[v]
    BY <2>1 DEF ImportTypeOK
  <2>3. task[w].at = "idle" /\ UNCHANGED <<results, batch, logging, main, store, progress>>
    BY <1>4 DEF Take, Idle, files
  <2>4. [at |-> "bars", symbol |-> q].at # "idle" /\ [at |-> "bars", symbol |-> q].symbol = q
    OBVIOUS
  <2>5. ASSUME NEW s, InHand(s) PROVE InHand(s)'
    <3>1. CASE s \in pending /\ s = q
      BY <2>2, <2>4, <3>1 DEF InHand
    <3>2. CASE ~(s \in pending /\ s = q)
      BY <2>1, <2>2, <2>3, <2>4, <2>5, <3>2 DEF InHand
    <3> QED BY <3>1, <3>2
  <2> QED BY <2>3, <2>5, <2>1
<1>5. CASE FetchNothing(w)
  BY <1>2, <1>5 DEF FetchNothing, files
<1>6. CASE FetchBars(w)
  <2>1. PICK next \in Calls : task' = [task EXCEPT ![w] = [at |-> next, symbol |-> task[w].symbol]]
    BY <1>6 DEF FetchBars
  <2>2. /\ [at |-> next, symbol |-> task[w].symbol].at # "idle"
        /\ [at |-> next, symbol |-> task[w].symbol].symbol = task[w].symbol
    BY DEF Calls
  <2>3. UNCHANGED <<pending, results, batch, logging, main, store, progress>> /\ task[w].at # "idle"
    BY <1>6 DEF FetchBars, files
  <2> QED BY <1>1, <2>1, <2>2, <2>3
<1>7. ASSUME NEW call \in Calls, Skip(w, call) \/ Succeed(w, call) \/ CallFails(w, call)
      PROVE  /\ \A s : InHand(s) => InHand(s)'
             /\ UNCHANGED <<batch, logging, main, store, progress>>
             /\ task[w].at # "idle"
  BY <1>3, <1>7 DEF Skip, Succeed, CallFails, Calls, files
<1>8. ASSUME NEW call \in Calls, Call(w, call)
      PROVE  /\ \A s : InHand(s) => InHand(s)'
             /\ UNCHANGED <<batch, logging, main, store, progress>>
             /\ task[w].at # "idle"
  <2>1. PICK t : /\ task' = [task EXCEPT ![w] = t]
                 /\ t.at # "idle" /\ t.symbol = task[w].symbol
    <3> DEFINE probe == breaker'[call].state = "half_open"
    <3> DEFINE t == [at |-> "calling", symbol |-> task[w].symbol, call |-> call, left |-> CallMax,
                     probe |-> probe]
    <3>1. task' = [task EXCEPT ![w] = t]
      BY <1>8 DEF Call
    <3> HIDE DEF probe
    <3>2. t.at # "idle" /\ t.symbol = task[w].symbol
      OBVIOUS
    <3> HIDE DEF t
    <3> QED BY <3>1, <3>2
  <2>2. UNCHANGED <<pending, results, batch, logging, main, store, progress>> /\ task[w].at # "idle"
    BY <1>8 DEF Call, Calls, files
  <2> QED BY <1>1, <2>1, <2>2
<1> QED BY <1>4, <1>5, <1>6, <1>7, <1>8 DEF Worker

LEMMA WorkerLines ==
  ASSUME ImportTypeOK, LinesFollow, AllInHand, NEW w \in Workers, Worker(w)
  PROVE  LinesFollow' /\ AllInHand'
<1>1. UNCHANGED <<batch, logging, main, store, progress>> /\ Completed' = Completed
  BY WorkerKeepsStock DEF Completed
<1>2. main # "finished"
  BY WorkerKeepsStock DEF LinesFollow, AllCollected, Idle
<1>3. LinesFollow'
  BY <1>1, <1>2 DEF LinesFollow
<1>4. AllInHand'
  BY <1>1, WorkerKeepsStock DEF AllInHand
<1> QED BY <1>3, <1>4

LEMMA TickLines ==
  ASSUME ImportTypeOK, LinesFollow, AllInHand, Tick
  PROVE  LinesFollow' /\ AllInHand'
<1>1. UNCHANGED <<pending, results, batch, logging, main, store, progress>> /\ Completed' = Completed
  BY DEF Tick, files, Completed
<1>2. \A w \in Workers : /\ task[w] = Idle => task'[w] = Idle
                         /\ task[w].at # "idle" => task'[w].at # "idle" /\ task'[w].symbol = task[w].symbol
  <2> SUFFICES ASSUME NEW w \in Workers
               PROVE  /\ task[w] = Idle => task'[w] = Idle
                      /\ task[w].at # "idle" => task'[w].at # "idle" /\ task'[w].symbol = task[w].symbol
    OBVIOUS
  <2>1. CASE task[w].at = "calling"
    <3>1. task[w] \in [at : {"calling"}, symbol : Symbols, call : Calls, left : 0..CallMax, probe : BOOLEAN]
      BY <2>1 DEF ImportTypeOK, Tasks
    <3> QED BY <2>1, <3>1 DEF Tick, Idle
  <2>2. CASE task[w].at # "calling"
    BY <2>2 DEF Tick
  <2> QED BY <2>1, <2>2
<1>3. AllCollected => AllCollected'
  BY <1>1, <1>2 DEF AllCollected
<1>4. LinesFollow'
  BY <1>1, <1>3 DEF LinesFollow
<1>5. AllInHand'
  BY <1>1, <1>2 DEF AllInHand, InHand
<1> QED BY <1>4, <1>5

LEMMA MainLines ==
  ASSUME ImportTypeOK, LinesFollow, AllInHand, Main \/ Killed
  PROVE  LinesFollow' /\ AllInHand'
<1> USE DEF LinesFollow
<1>1. ASSUME NEW r \in results, CollectRows(r) PROVE LinesFollow' /\ AllInHand'
  <2>1. CASE Cardinality(batch \cup {r.symbol}) >= BatchSize
    <3>1. /\ main = "collecting" /\ main' = "appending" /\ logging' = batch \cup {r.symbol} /\ batch' = {}
          /\ store' = store \cup logging' /\ results' = results \ {r}
          /\ UNCHANGED <<task, pending, progress>> /\ Completed' = Completed
      BY <1>1, <2>1 DEF CollectRows, Written, Completed
    <3>2. LinesFollow'
      BY <3>1
    <3>3. AllInHand'
      BY <3>1 DEF AllInHand, InHand
    <3> QED BY <3>2, <3>3
  <2>2. CASE ~(Cardinality(batch \cup {r.symbol}) >= BatchSize)
    <3>1. /\ main = "collecting" /\ batch' = batch \cup {r.symbol} /\ results' = results \ {r}
          /\ UNCHANGED <<task, pending, progress, logging, main, store>> /\ Completed' = Completed
      BY <1>1, <2>2 DEF CollectRows, Completed, files
    <3>2. LinesFollow'
      BY <3>1
    <3>3. AllInHand'
      BY <3>1 DEF AllInHand, InHand
    <3> QED BY <3>2, <3>3
  <2> QED BY <2>1, <2>2
<1>2. ASSUME NEW r \in results, CollectEmpty(r) \/ CollectError(r) PROVE LinesFollow' /\ AllInHand'
  <2>1. PICK st \in {"completed", "failed"} : progress' = progress \cup {Line(r.symbol, st, FALSE)}
    BY <1>2 DEF CollectEmpty, CollectError
  <2>2. /\ main = "collecting" /\ results' = results \ {r}
        /\ UNCHANGED <<task, pending, batch, logging, main, store>>
    BY <1>2 DEF CollectEmpty, CollectError
  <2>3. \A x \in Completed' : x \in Completed
    BY <2>1, NewLine
  <2>4. \E line \in progress' : line.symbol = r.symbol
    BY <2>1, NewLine
  <2>5. LinesFollow'
    BY <2>2, <2>3
  <2>6. AllInHand'
    BY <2>1, <2>2, <2>4 DEF AllInHand, InHand
  <2> QED BY <2>5, <2>6
<1>3. CASE FinalFlush
  <2>1. /\ main = "collecting" /\ main' = "appending" /\ logging' = batch /\ batch' = {}
        /\ store' = store \cup batch
        /\ UNCHANGED <<task, pending, results, progress>> /\ Completed' = Completed
    BY <1>3 DEF FinalFlush, Written, Completed, pool
  <2>2. LinesFollow'
    BY <2>1
  <2>3. AllInHand'
    BY <2>1 DEF AllInHand, InHand
  <2> QED BY <2>2, <2>3
<1>4. CASE Finish
  <2>1. /\ main = "collecting" /\ main' = "finished" /\ batch = {} /\ AllCollected
        /\ UNCHANGED <<task, pending, results, batch, logging, store, progress>> /\ Completed' = Completed
    BY <1>4 DEF Finish, pool, files, Completed
  <2>2. AllCollected'
    BY <2>1 DEF AllCollected
  <2>3. LinesFollow'
    BY <2>1, <2>2
  <2>4. AllInHand'
    BY <2>1 DEF AllInHand, InHand
  <2> QED BY <2>3, <2>4
<1>5. CASE AppendLine
  <2>1. PICK s \in logging : /\ progress' = progress \cup {Line(s, "completed", TRUE)}
                             /\ logging' = logging \ {s}
    BY <1>5 DEF AppendLine
  <2>2. /\ main = "appending" /\ UNCHANGED <<task, pending, results, batch, store>>
        /\ main' = IF logging' = {} THEN "collecting" ELSE "appending"
    BY <1>5 DEF AppendLine, pool
  <2>3. \A x \in Completed' : x \in Completed \/ x = s
    BY <2>1, NewLine
  <2>4. \E line \in progress' : line.symbol = s
    BY <2>1, NewLine
  <2>5. LinesFollow'
    BY <2>1, <2>2, <2>3
  <2>6. AllInHand'
    BY <2>1, <2>2, <2>4 DEF AllInHand, InHand
  <2> QED BY <2>5, <2>6
<1>6. CASE Killed
  BY <1>6 DEF Killed, files, Completed, AllInHand
<1>7. CASE Restart
  <2>1. /\ pending' = Symbols \ Completed /\ main' = "collecting" /\ main = "dead"
        /\ UNCHANGED <<task, results, batch, logging, store, progress>> /\ Completed' = Completed
    BY <1>7 DEF Restart, files, Completed
  <2>2. \A s \in Completed : \E line \in progress : line.symbol = s
    BY DEF Completed
  <2>3. AllInHand'
    BY <2>1, <2>2 DEF AllInHand, InHand
  <2> QED BY <2>1, <2>3
<1> QED BY <1>1, <1>2, <1>3, <1>4, <1>5, <1>6, <1>7 DEF Main

LEMMA InitLines == ImportInit => LinesFollow /\ AllInHand
BY DEF ImportInit, LinesFollow, AllInHand, InHand, Completed, AllCollected

LEMMA StepLines ==
  ASSUME ImportTypeOK, LinesFollow, AllInHand, [ImportNext]_importVars
  PROVE  LinesFollow' /\ AllInHand'
<1>1. CASE Tick
  BY <1>1, TickLines
<1>2. CASE Main \/ Killed
  BY <1>2, MainLines
<1>3. ASSUME NEW w \in Workers, Worker(w) PROVE LinesFollow' /\ AllInHand'
  BY <1>3, WorkerLines
<1>4. CASE UNCHANGED importVars
  BY <1>4 DEF importVars, pool, files, LinesFollow, AllInHand, InHand, Completed, AllCollected
<1> QED BY <1>1, <1>2, <1>3, <1>4 DEF ImportNext

LEMMA LinesSuffice ==
  ASSUME ImportTypeOK, LinesFollow, AllInHand
  PROVE  ProgressIsTrue
<1>1. ResumeSkipsOnlyWritten
  BY DEF LinesFollow, ResumeSkipsOnlyWritten
<1>2. ASSUME main = "finished"
      PROVE  (\A s \in Symbols : \E line \in progress : line.symbol = s) /\ batch = {} /\ logging = {}
  <2>1. AllCollected /\ batch = {} /\ logging = {}
    BY <1>2 DEF LinesFollow
  <2>2. ASSUME NEW s \in Symbols PROVE \E line \in progress : line.symbol = s
    <3>1. InHand(s)
      BY <1>2 DEF AllInHand
    <3>2. \A w \in Workers : task[w].at = "idle"
      BY <2>1 DEF AllCollected, Idle
    <3> QED BY <2>1, <3>1, <3>2 DEF InHand, AllCollected
  <2> QED BY <2>1, <2>2
<1>3. FinishedIsAccounted
  BY <1>2 DEF FinishedIsAccounted
<1> QED BY <1>1, <1>3 DEF ProgressIsTrue

\* Wherever the importer dies and however often it is resumed, a stock that
\* --resume leaves out (load_completed_symbols) has been written, and an import
\* that ends has a line for every stock and nothing left in its batch.
THEOREM ProgressCorrect == ImportSpec => []ProgressIsTrue
<1>1. ImportTypeOK /\ LinesFollow /\ AllInHand => ProgressIsTrue
  BY LinesSuffice
<1>2. ImportInit => ImportTypeOK /\ LinesFollow /\ AllInHand
  BY InitTypes, InitLines
<1>3. ImportTypeOK /\ LinesFollow /\ AllInHand /\ [ImportNext]_importVars => (ImportTypeOK /\ LinesFollow /\ AllInHand)'
  BY StepTypes, StepLines
<1> QED BY <1>1, <1>2, <1>3, PTL DEF ImportSpec
=============================================================================
