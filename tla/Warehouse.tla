----------------------------- MODULE Warehouse -----------------------------
(***************************************************************************)
(* The write path of the data warehouse (data/warehouse.py,                *)
(* write_daily_bars, with data/filelock.py and the bounded retries of its  *)
(* callers) and the profiles it caches.  Writers are threads of the data   *)
(* service and of a script in a process of its own; a write goes through   *)
(* its year partitions in order, each under the partition's file lock:     *)
(* read, merge, write a temporary file, replace.  Either process may crash *)
(* at any step: the operating system drops its locks.                      *)
(*                                                                         *)
(* A cell is one field of one (symbol, trade_date) row; its value is the   *)
(* writer it comes from.  A cached profile is the set of writes that had   *)
(* landed in full when its computation began.                              *)
(***************************************************************************)
EXTENDS Naturals, FiniteSets

CONSTANTS
  Writers,       \* writes; each happens once
  Inside,        \* those of the data service, the others belong to a script
  Years,         \* the year partitions
  Cells,         \* (symbol, trade_date, field)
  Caches,        \* gap profile, symbol count, trade-date counts
  Recomputed,    \* those computed again though cached (a warm-up, another window)
  Readers,       \* threads that ask for a profile
  None,          \* no value, no holder
  MaxAttempts    \* WRITE_LOCK_RETRY_ATTEMPTS

ASSUME WriterAssumption == Inside \subseteq Writers /\ None \notin Writers
ASSUME YearAssumption   == Years \subseteq Nat
ASSUME LimitAssumption  == MaxAttempts \in Nat \ {0}

VARIABLES
  file,          \* file[y][c]: the partition y
  lock,          \* lock[y]: the holder of the partition's file lock
  write,         \* write[w]: the write w
  cache,         \* cache[k]: the cached profile
  reader,        \* reader[r]: the request r
  landed         \* history: the writes of the service whose partitions are all replaced

vars == <<file, lock, write, cache, reader, landed>>

Rows   == [Cells -> Writers \cup {None}]
Stages == {"idle", "lock", "read", "replace", "meta", "invalidate", "done", "failed"}

WriteState == [at : Stages,
               frame : [Years -> SUBSET Cells],   \* the rows it brings, per year
               todo : SUBSET Years,               \* years not written yet
               year : Years \cup {None},          \* the year it has locked
               base : Rows,                       \* what it read of the current year
               attempt : 1 .. MaxAttempts,
               left : SUBSET Caches]              \* caches to invalidate

CacheState  == [valid : BOOLEAN, sees : SUBSET Writers, overlaps : SUBSET Writers]
ReaderState == [at : {"idle", "compute"}, of : Caches \cup {None}, sees : SUBSET Writers]

Empty    == [c \in Cells |-> None]
NoCache  == [valid |-> FALSE, sees |-> {}, overlaps |-> {}]
NoReader == [at |-> "idle", of |-> None, sees |-> {}]
NoWrite  == [at |-> "idle", frame |-> [y \in Years |-> {}], todo |-> {}, year |-> None,
             base |-> Empty, attempt |-> 1, left |-> {}]

Init == /\ file = [y \in Years |-> Empty]
        /\ lock = [y \in Years |-> None]
        /\ write = [w \in Writers |-> NoWrite]
        /\ cache = [k \in Caches |-> NoCache]
        /\ reader = [r \in Readers |-> NoReader]
        /\ landed = {}

cached == <<cache, reader, landed>>

-----------------------------------------------------------------------------
(* A write.                                                                *)

Merge(old, cells, w) == [c \in Cells |-> IF c \in cells THEN w ELSE old[c]]

First(years)   == {y \in years : \A z \in years : y <= z}   \* at most one
YearsOf(frame) == {y \in Years : frame[y] # {}}

Start(w) ==
  /\ write[w].at = "idle"
  /\ \E frame \in [Years -> SUBSET Cells] :
       /\ YearsOf(frame) # {}
       /\ write' = [write EXCEPT ![w].at = "lock", ![w].frame = frame,
                                 ![w].todo = YearsOf(frame)]
  /\ UNCHANGED <<file, lock, cached>>

LockInProcess(w) ==              \* mutant: a lock that the other process does not see
  /\ write[w].at = "lock"
  /\ \E y \in First(write[w].todo) :
       /\ lock[y] = None \/ (lock[y] \in Inside) # (w \in Inside)
       /\ lock' = [lock EXCEPT ![y] = w]
       /\ write' = [write EXCEPT ![w].at = "read", ![w].year = y]
  /\ UNCHANGED <<file, cached>>

Lock(w) ==
  /\ write[w].at = "lock"
  /\ \E y \in First(write[w].todo) :
       /\ lock[y] = None
       /\ lock' = [lock EXCEPT ![y] = w]
       /\ write' = [write EXCEPT ![w].at = "read", ![w].year = y]
  /\ UNCHANGED <<file, cached>>

Blocked(w) == write[w].at = "lock" /\ \E y \in First(write[w].todo) : lock[y] # None

TimeOutSkips(w) ==               \* mutant: a busy partition is skipped
  /\ Blocked(w)
  /\ write' = [write EXCEPT ![w].todo = @ \ First(@),
                            ![w].at = IF Cardinality(write[w].todo) = 1 THEN "meta" ELSE "lock"]
  /\ UNCHANGED <<file, lock, cached>>

\* FileLockTimeout: the caller writes the whole frame again, or gives up.
TimeOut(w) ==
  /\ Blocked(w)
  /\ \/ /\ write[w].attempt < MaxAttempts
        /\ write' = [write EXCEPT ![w].attempt = @ + 1,
                                  ![w].todo = YearsOf(write[w].frame)]
     \/ /\ write[w].attempt = MaxAttempts
        /\ write' = [write EXCEPT ![w].at = "failed"]
  /\ UNCHANGED <<file, lock, cached>>

Read(w) ==
  /\ write[w].at = "read"
  /\ write' = [write EXCEPT ![w].at = "replace", ![w].base = file[write[w].year]]
  /\ UNCHANGED <<file, lock, cached>>

\* The temporary file is written and replaces the partition; the lock goes.
Replace(w) ==
  /\ write[w].at = "replace"
  /\ LET y    == write[w].year
         todo == write[w].todo \ {y}
     IN  /\ file' = [file EXCEPT ![y] = Merge(write[w].base, write[w].frame[y], w)]
         /\ lock' = [lock EXCEPT ![y] = None]
         /\ write' = [write EXCEPT ![w].todo = todo, ![w].year = None,
                                   ![w].base = Empty,
                                   ![w].at = IF todo = {} THEN "meta" ELSE "lock"]
         /\ landed' = IF todo = {} THEN landed \cup ({w} \cap Inside) ELSE landed
  /\ UNCHANGED <<cache, reader>>

\* A partition that cannot be read, a full disk, a busy metadata database: the
\* error goes up; what earlier partitions took stays, and the caches with it.
Fail(w) ==
  /\ write[w].at \in {"read", "replace", "meta"}
  /\ lock' = [y \in Years |-> IF lock[y] = w THEN None ELSE lock[y]]
  /\ write' = [write EXCEPT ![w].at = "failed", ![w].year = None,
                            ![w].base = Empty]
  /\ UNCHANGED <<file, cached>>

\* The metadata row; then the three caches of this process, each under its lock.
Record(w) ==
  /\ write[w].at = "meta"
  /\ write' = [write EXCEPT ![w].at = "invalidate", ![w].left = Caches]
  /\ UNCHANGED <<file, lock, cached>>

InvalidateNothing(w) ==          \* mutant: the caches stay
  /\ write[w].at = "invalidate"
  /\ \E k \in write[w].left : write' = [write EXCEPT ![w].left = @ \ {k}]
  /\ UNCHANGED <<file, lock, cached>>

Invalidate(w) ==
  /\ write[w].at = "invalidate"
  /\ \E k \in write[w].left :
       /\ write' = [write EXCEPT ![w].left = @ \ {k}]
       /\ cache' = IF w \in Inside THEN [cache EXCEPT ![k] = NoCache] ELSE cache
  /\ UNCHANGED <<file, lock, reader, landed>>

Return(w) ==
  /\ write[w].at = "invalidate" /\ write[w].left = {}
  /\ write' = [write EXCEPT ![w].at = "done"]
  /\ UNCHANGED <<file, lock, cached>>

-----------------------------------------------------------------------------
(* Profiles: the cache is tested under its lock, the profile is computed    *)
(* without it and stored under it.                                         *)

Ask(r) ==
  /\ reader[r].at = "idle"
  /\ \E k \in Caches :
       /\ ~cache[k].valid \/ k \in Recomputed
       /\ reader' = [reader EXCEPT ![r] = [at |-> "compute", of |-> k, sees |-> landed]]
  /\ UNCHANGED <<file, lock, write, cache, landed>>

StoreProfile(r) ==
  /\ reader[r].at = "compute"
  /\ cache' = [cache EXCEPT ![reader[r].of] =
       [valid |-> TRUE, sees |-> reader[r].sees, overlaps |-> landed \ reader[r].sees]]
  /\ reader' = [reader EXCEPT ![r] = NoReader]
  /\ UNCHANGED <<file, lock, write, landed>>

Expire(k) ==                     \* the 600 s of the cache are over
  /\ cache[k].valid
  /\ cache' = [cache EXCEPT ![k] = NoCache]
  /\ UNCHANGED <<file, lock, write, reader, landed>>

-----------------------------------------------------------------------------
Working(w) == write[w].at \notin {"idle", "done", "failed"}

\* A process dies, with all its writes in progress; the service loses its caches.
Crash(process) ==
  /\ \E w \in process : Working(w)
  /\ write' = [w \in Writers |-> IF w \in process /\ Working(w)
                                   THEN [write[w] EXCEPT !.at = "failed", !.year = None,
                                                         !.base = Empty]
                                   ELSE write[w]]
  /\ lock' = [y \in Years |-> IF lock[y] \in process THEN None ELSE lock[y]]
  /\ IF process = Inside
       THEN /\ cache' = [k \in Caches |-> NoCache]
            /\ reader' = [r \in Readers |-> NoReader]
       ELSE UNCHANGED <<cache, reader>>
  /\ UNCHANGED <<file, landed>>

Step(w) == \/ Lock(w) \/ TimeOut(w) \/ Read(w) \/ Replace(w) \/ Fail(w)
           \/ Record(w) \/ Invalidate(w) \/ Return(w)

Next == \/ \E w \in Writers : Start(w) \/ Step(w)
        \/ \E r \in Readers : Ask(r) \/ StoreProfile(r)
        \/ \E k \in Caches : Expire(k)
        \/ Crash(Inside) \/ Crash(Writers \ Inside)

Spec == Init /\ [][Next]_vars

-----------------------------------------------------------------------------
(* Properties                                                              *)

TypeOK == /\ file \in [Years -> Rows]
          /\ lock \in [Years -> Writers \cup {None}]
          /\ write \in [Writers -> WriteState]
          /\ cache \in [Caches -> CacheState]
          /\ reader \in [Readers -> ReaderState]
          /\ landed \in SUBSET Writers

\* The partitions behave as if every write merged its rows at one instant: no
\* update is lost and no value erased, whatever writers of both processes, time
\* outs, retries, failures and crashes come together (warehouse.py:180-193).
Store == INSTANCE PartitionStore WITH Values <- Writers, NoValue <- None, data <- file
MergesAreAtomic == Store!Spec

\* A lock is held by a write that works on that partition, and by nothing else: a
\* failed, crashed or finished write leaves none behind.
LocksAreHeld ==
  \A y \in Years : lock[y] # None =>
    write[lock[y]].at \in {"read", "replace"} /\ write[lock[y]].year = y

\* A write that returned brought all its rows, whichever partitions it had to
\* wait for or to write again.
DoneMeansMerged ==
  \A w \in Writers : write[w].at = "done" =>
    \A y \in Years : \A c \in write[w].frame[y] : file[y][c] # None

Returned == {w \in Inside : write[w].at = "done"}

\* A cached profile misses only writes that landed while it was computed: a write
\* that lands later drops it before it returns.
MissesOnlyOverlaps ==
  \A k \in Caches : cache[k].valid => Returned \subseteq cache[k].sees \cup cache[k].overlaps

\* warehouse.py:216, invalidating after a write makes "the next read reflect the
\* latest data": a cached profile misses no write that has returned.
CacheIsCurrent ==
  \A k \in Caches : cache[k].valid => Returned \subseteq cache[k].sees

=============================================================================
