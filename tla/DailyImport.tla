---------------------------- MODULE DailyImport ----------------------------
(***************************************************************************)
(* scripts/run-full-market-import.py over one shared HttpAStockFetcher:    *)
(* a pool of workers fetches one stock each (_fetch_one: bars, then the    *)
(* optional info and capital-flow calls, each behind its breaker), the     *)
(* main thread takes the futures as they complete, writes the warehouse    *)
(* one batch at a time and appends one progress line per stock.  The       *)
(* process may die between any two steps and be started again with         *)
(* --resume; the warehouse and the progress file survive.                  *)
(***************************************************************************)
EXTENDS EnrichmentBreaker, FiniteSets, TLC

CONSTANTS Symbols, Workers,
          BatchSize,     \* --write-batch-size
          CallMax,       \* the longest an enrichment call may take (2 x 15 s)
          MaxCrashes     \* bound: how often the process dies

ASSUME ImportConstants ==
    /\ BatchSize \in Nat \ {0} /\ MaxCrashes \in Nat
    /\ CallMax \in Nat /\ CallMax < Cooldown    \* the reason given at astock_adapter.py:57

Calls == {"info", "flow"}                        \* the two breakers

VARIABLES
    breaker,     \* Calls -> Breaker
    task,        \* Workers -> what the worker's thread is doing
    pending,     \* stocks submitted to the pool and not taken yet
    results,     \* futures done and not yet seen by as_completed
    batch,       \* fetched stocks not written yet
    logging,     \* written stocks of the flush whose lines are not appended yet
    main,        \* where the main thread is
    store,       \* stocks whose bars are in the warehouse
    progress,    \* lines of import-progress.jsonl
    crashes

pool == <<breaker, task, pending, results>>
files == <<store, progress>>
importVars == <<breaker, task, pending, results, batch, logging, main, store, progress, crashes>>

Idle == [at |-> "idle"]
Outcomes == {"rows", "empty", "error"}
Tasks ==
    [at : {"idle"}]
    \cup [at : {"bars", "flow", "info"}, symbol : Symbols]
    \cup [at : {"calling"}, symbol : Symbols, call : Calls, left : 0..CallMax, probe : BOOLEAN]

Lines == [symbol : Symbols, status : {"completed", "failed"}, rows : BOOLEAN]

ImportTypeOK ==
    /\ breaker \in [Calls -> Breaker]
    /\ task \in [Workers -> Tasks]
    /\ pending \subseteq Symbols
    /\ results \subseteq [symbol : Symbols, outcome : Outcomes]
    /\ batch \subseteq Symbols
    /\ logging \subseteq Symbols
    /\ main \in {"collecting", "appending", "finished", "dead"}
    /\ store \subseteq Symbols
    /\ progress \subseteq Lines
    /\ crashes \in Nat

\* Mutant: a line without rows counts as well.
CompletedOrEmpty == {line.symbol : line \in {l \in progress : l.status = "completed"}}

\* load_completed_symbols: a line without rows does not count as completed.
Completed == {line.symbol : line \in {l \in progress : l.status = "completed" /\ l.rows}}

ImportInit ==
    /\ breaker = [c \in Calls |-> NewBreaker]
    /\ task = [w \in Workers |-> Idle]
    /\ pending = Symbols
    /\ results = {} /\ batch = {} /\ logging = {}
    /\ main = "collecting"
    /\ store = {} /\ progress = {}
    /\ crashes = 0

-----------------------------------------------------------------------------
(* The pool *)

Take(w) ==
    /\ main # "dead" /\ task[w] = Idle
    /\ \E s \in pending :
        /\ pending' = pending \ {s}
        /\ task' = [task EXCEPT ![w] = [at |-> "bars", symbol |-> s]]
    /\ UNCHANGED <<breaker, results, batch, logging, main, files, crashes>>

\* The future of the worker is done.
Answer(w, outcome) ==
    /\ results' = results \cup {[symbol |-> task[w].symbol, outcome |-> outcome]}
    /\ task' = [task EXCEPT ![w] = Idle]

\* No source had bars (the stock is done with none), or one raised.
FetchNothing(w) ==
    /\ task[w].at = "bars"
    /\ \E outcome \in {"empty", "error"} : Answer(w, outcome)
    /\ UNCHANGED <<breaker, pending, batch, logging, main, files, crashes>>

\* Bars came; the info call is made only when the quote lacked the name or the cap.
FetchBars(w) ==
    /\ task[w].at = "bars"
    /\ \E next \in Calls : task' = [task EXCEPT ![w] = [at |-> next, symbol |-> task[w].symbol]]
    /\ UNCHANGED <<breaker, pending, results, batch, logging, main, files, crashes>>

\* After the info call comes the flow call, after the flow call the answer.
Proceed(w, call) ==
    \/ /\ call = "info"
       /\ task' = [task EXCEPT ![w] = [at |-> "flow", symbol |-> task[w].symbol]]
       /\ UNCHANGED results
    \/ call = "flow" /\ Answer(w, "rows")

\* Mutant: wait for the breaker instead of going without the call.
SkipWaits(w, call) ==
    /\ task[w].at = call /\ ~Allows(breaker[call]) /\ Allows(Cooler(breaker[call]))
    /\ Proceed(w, call) /\ UNCHANGED <<breaker, pending, batch, logging, main, files, crashes>>

Skip(w, call) ==
    /\ task[w].at = call
    /\ ~Allows(breaker[call])
    /\ breaker' = [breaker EXCEPT ![call] = AfterAllow(@)]
    /\ Proceed(w, call)
    /\ UNCHANGED <<pending, batch, logging, main, files, crashes>>

Call(w, call) ==
    /\ task[w].at = call
    /\ Allows(breaker[call])
    /\ breaker' = [breaker EXCEPT ![call] = AfterAllow(@)]
    /\ task' = [task EXCEPT ![w] =
            [at |-> "calling", symbol |-> task[w].symbol, call |-> call, left |-> CallMax,
             probe |-> breaker'[call].state = "half_open"]]
    /\ UNCHANGED <<pending, results, batch, logging, main, files, crashes>>

Succeed(w, call) ==
    /\ task[w].at = "calling" /\ task[w].call = call
    /\ breaker' = [breaker EXCEPT ![call] = RecordSuccess(@)]
    /\ Proceed(w, call)
    /\ UNCHANGED <<pending, batch, logging, main, files, crashes>>

CallFails(w, call) ==
    /\ task[w].at = "calling" /\ task[w].call = call
    /\ breaker' = [breaker EXCEPT ![call] = RecordFailure(@)]
    /\ Proceed(w, call)
    /\ UNCHANGED <<pending, batch, logging, main, files, crashes>>

\* Time passes, but no call outlives its time-outs.
Tick ==
    /\ \A w \in Workers : task[w].at = "calling" => task[w].left > 0
    /\ task' = [w \in Workers |-> IF task[w].at = "calling"
                                   THEN [task[w] EXCEPT !.left = @ - 1] ELSE task[w]]
    /\ breaker' = [c \in Calls |-> Cooler(breaker[c])]
    /\ UNCHANGED <<pending, results, batch, logging, main, files, crashes>>

-----------------------------------------------------------------------------
(* The main thread *)

Line(s, status, rows) == [symbol |-> s, status |-> status, rows |-> rows]

\* flush_batch, first half: one write of the warehouse for the whole batch.
Written(stocks) ==
    /\ store' = store \cup stocks
    /\ logging' = stocks
    /\ batch' = {}
    /\ main' = "appending"

CollectRows(r) ==
    /\ main = "collecting" /\ r \in results /\ r.outcome = "rows"
    /\ results' = results \ {r}
    /\ LET fetched == batch \cup {r.symbol}
       IN  IF Cardinality(fetched) >= BatchSize
           THEN Written(fetched) /\ UNCHANGED progress
           ELSE batch' = fetched /\ UNCHANGED <<logging, main, files>>
    /\ UNCHANGED <<breaker, task, pending, crashes>>

CollectEmpty(r) ==
    /\ main = "collecting" /\ r \in results /\ r.outcome = "empty"
    /\ results' = results \ {r}
    /\ progress' = progress \cup {Line(r.symbol, "completed", FALSE)}
    /\ UNCHANGED <<breaker, task, pending, batch, logging, main, store, crashes>>

CollectError(r) ==
    /\ main = "collecting" /\ r \in results /\ r.outcome = "error"
    /\ results' = results \ {r}
    /\ progress' = progress \cup {Line(r.symbol, "failed", FALSE)}
    /\ UNCHANGED <<breaker, task, pending, batch, logging, main, store, crashes>>

AllCollected == pending = {} /\ results = {} /\ \A w \in Workers : task[w] = Idle

FinalFlush ==
    /\ main = "collecting" /\ AllCollected /\ batch # {}
    /\ Written(batch)
    /\ UNCHANGED <<pool, progress, crashes>>

\* Mutant: the last batch is not flushed.
FinishAtOnce ==
    /\ main = "collecting" /\ AllCollected
    /\ main' = "finished"
    /\ UNCHANGED <<pool, batch, logging, files, crashes>>

Finish ==
    /\ main = "collecting" /\ AllCollected /\ batch = {}
    /\ main' = "finished"
    /\ UNCHANGED <<pool, batch, logging, files, crashes>>

\* flush_batch, second half: the lines of the written stocks, one append each.
AppendLine ==
    /\ main = "appending"
    /\ \E s \in logging :
        /\ progress' = progress \cup {Line(s, "completed", TRUE)}
        /\ logging' = logging \ {s}
    /\ main' = IF logging' = {} THEN "collecting" ELSE "appending"
    /\ UNCHANGED <<pool, batch, store, crashes>>

\* Killed, or an exception of the write: everything in memory is gone.
Killed ==
    /\ main \in {"collecting", "appending"} /\ crashes < MaxCrashes
    /\ main' = "dead" /\ crashes' = crashes + 1
    /\ breaker' = [c \in Calls |-> NewBreaker]
    /\ task' = [w \in Workers |-> Idle]
    /\ pending' = {} /\ results' = {} /\ batch' = {} /\ logging' = {}
    /\ UNCHANGED <<files>>

\* Started again with --resume.
Restart ==
    /\ main = "dead"
    /\ pending' = Symbols \ Completed
    /\ main' = "collecting"
    /\ UNCHANGED <<breaker, task, results, batch, logging, files, crashes>>

-----------------------------------------------------------------------------
Worker(w) ==
    \/ Take(w) \/ FetchNothing(w) \/ FetchBars(w)
    \/ \E call \in Calls : Skip(w, call) \/ Call(w, call) \/ Succeed(w, call) \/ CallFails(w, call)

Main ==
    \/ \E r \in results : CollectRows(r) \/ CollectEmpty(r) \/ CollectError(r)
    \/ FinalFlush \/ Finish \/ AppendLine \/ Restart

ImportNext == Tick \/ Main \/ Killed \/ \E w \in Workers : Worker(w)

ImportSpec == ImportInit /\ [][ImportNext]_importVars

-----------------------------------------------------------------------------
\* A breaker that lets nobody through waits for a call that is still running:
\* half-open means that the probe is in flight, so its answer moves the
\* breaker on whatever the late answers of other workers did before.
HalfOpenHasProbe ==
    \A c \in Calls :
        /\ breaker[c].probing <=> breaker[c].state = "half_open"
        /\ breaker[c].state = "half_open" =>
              \E w \in Workers : task[w].at = "calling" /\ task[w].call = c /\ task[w].probe

\* "Only one probe at a time" (the class comment): late answers can reopen the
\* breaker, but the next probe starts only when the one before has returned.
OneProbe ==
    \A c \in Calls, v, w \in Workers :
        /\ task[v].at = "calling" /\ task[v].call = c /\ task[v].probe
        /\ task[w].at = "calling" /\ task[w].call = c /\ task[w].probe
        => v = w

\* One probe at a time, and a breaker that waits for one has it.
ProbesAreSound == HalfOpenHasProbe /\ OneProbe

\* What --resume leaves out is in the warehouse, wherever the process died.
ResumeSkipsOnlyWritten == Completed \subseteq store

\* An import that ends has a line for every stock, and the bars of every stock
\* it calls completed with rows; a stock with no line is never left behind.
FinishedIsAccounted ==
    main = "finished" =>
        /\ \A s \in Symbols : \E line \in progress : line.symbol = s
        /\ batch = {} /\ logging = {}

\* The progress file never says more than the warehouse has, and in the end all.
ProgressIsTrue == ResumeSkipsOnlyWritten /\ FinishedIsAccounted

\* Neither a breaker nor a lost future holds the import up: until it is over
\* a worker or the main thread has a step to take, without waiting for time to
\* pass (every such step brings a stock further).
NobodyWaits == main \notin {"finished", "dead"} => ENABLED (Main \/ \E w \in Workers : Worker(w))
============================================================================
