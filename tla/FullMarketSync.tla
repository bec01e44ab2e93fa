--------------------------- MODULE FullMarketSync ---------------------------
(***************************************************************************)
(* A full-market sync (data/sync.py): the snapshot taken when it starts,   *)
(* the window each stock is fetched for, the batches, the rows that wait   *)
(* for a write, the counters and the status a reader is shown.  Frames are *)
(* those of CoverageGaps; a row that is "full" has its capitalisation.     *)
(***************************************************************************)
EXTENDS CoverageGaps

CONSTANTS Buffer,          \* MISSING_FETCH_BUFFER_DAYS
          SyncBatch,       \* full_market_batch_size
          WriteRows        \* full_market_write_batch_rows

ASSUME SyncConstants == Buffer \in Nat /\ SyncBatch \in Nat \ {0} /\ WriteRows \in Nat \ {0}

NoFrame == [c \in Stocks \X Days |-> "none"]
Filled(rows) == {c \in DOMAIN rows : rows[c] # "none"}

\* missing_dates_by_symbol: only of a stock that has some of what it needs.
MissingDates(frame, known, s) ==
    LET required == Required(frame, known, s)
        missing == required \ Capped(frame, s)
    IN  IF BarDays(frame, s) = {} \/ missing = required THEN {} ELSE missing

\* incomplete_symbols, the stocks of a missing-only sync.
IncompleteSymbols(frame, known) ==
    {s \in Traded(frame) \ Complete(frame, known) : known[s].gone > LastDay}

\* Mutant: the buffer is taken off the window instead of added.
NarrowInward(missing) ==
    IF missing = {} THEN Days
    ELSE Max({1, Min(missing) + Buffer})..Min({LastDay, Max(missing) - Buffer})

NarrowFetchWindow(missing) ==
    IF missing = {} THEN Days
    ELSE Max({1, Min(missing) - Buffer})..Min({LastDay, Max(missing) + Buffer})

\* The merge of Warehouse.write_daily_bars: a blank does not replace a value.
MergedRows(old, new) ==
    [c \in DOMAIN old |-> IF old[c] = "full" \/ new[c] = "none" THEN old[c] ELSE new[c]]

-----------------------------------------------------------------------------
Zero == [processed |-> 0, completed |-> 0, failed |-> 0, skipped |-> 0,
         imported |-> 0, daily |-> 0, caps |-> 0]

\* A range without trade days is over at once, every stock skipped.
NewSync(frame, known, missingOnly, open) ==
    LET symbols == IF missingOnly THEN IncompleteSymbols(frame, known) ELSE Stocks
        count == Cardinality(symbols)
    IN  [at |-> IF symbols = {} THEN "refused" ELSE IF open THEN "batch" ELSE "done",
         symbols |-> symbols, todo |-> symbols, batch |-> {},
         was |-> frame, complete |-> Complete(frame, known),
         missing |-> [s \in Stocks |-> MissingDates(frame, known, s)],
         lacks |-> [s \in Stocks |-> Required(frame, known, s) \ Capped(frame, s)],
         frame |-> frame, pending |-> NoFrame, waiting |-> 0, batchFailed |-> FALSE,
         tally |-> IF open THEN Zero ELSE [Zero EXCEPT !.processed = count, !.skipped = count],
         errors |-> {}, fetched |-> NoFrame, status |-> IF open THEN "running" ELSE "completed"]

\* Mutant: what waits is forgotten before the write, which may fail.
ClearThenWrite(y, then) ==
    {[y EXCEPT !.frame = MergedRows(@, y.pending), !.pending = NoFrame, !.waiting = 0, !.at = then],
     [y EXCEPT !.pending = NoFrame, !.at = "done", !.status = "failed"]}

\* _flush_full_market_frames: the lock may stay taken for all its attempts; the
\* exception fails the job and the rows go on waiting.
FlushFrames(y, then) ==
    IF Filled(y.pending) = {} THEN {[y EXCEPT !.at = then]}
    ELSE {[y EXCEPT !.frame = MergedRows(@, y.pending), !.pending = NoFrame, !.at = then],
          [y EXCEPT !.at = "done", !.status = "failed"]}

FillCounts(y, rows) ==
    [daily |-> Cardinality({c \in Filled(rows) : y.was[c] = "none"}),
     caps |-> Cardinality({c \in Filled(rows) : y.was[c] = "bar" /\ rows[c] = "full"})]

Answered(y, s) == [y EXCEPT !.batch = @ \ {s}, !.tally.processed = @ + 1]

StockFails(y, s) ==
    [Answered(y, s) EXCEPT !.tally.failed = @ + 1, !.errors = @ \cup {s}, !.batchFailed = TRUE]

StockSkipped(y, s) == [Answered(y, s) EXCEPT !.tally.skipped = @ + 1]

StockFetched(y, s, rows) ==
    LET filled == FillCounts(y, rows)
        kept == [Answered(y, s) EXCEPT
                    !.tally.completed = @ + 1, !.tally.imported = @ + Cardinality(Filled(rows)),
                    !.tally.daily = @ + filled.daily, !.tally.caps = @ + filled.caps,
                    !.fetched = MergedRows(@, rows), !.pending = MergedRows(@, rows),
                    !.waiting = @ + Cardinality(Filled(rows))]
    IN  IF kept.waiting >= WriteRows THEN FlushFrames([kept EXCEPT !.waiting = 0], "stock") ELSE {kept}

\* _fetch_daily_bars_outcome: a stock that was complete is not asked for; the
\* provider raises, has nothing, or has rows of days of the window that is asked
\* for, with or without capitalisation, perhaps not of all of them.
RowsFor(s, days, row) == [c \in Stocks \X Days |-> IF c[1] = s /\ c[2] \in days THEN row ELSE "none"]

FetchOutcomes(y, s) ==
    LET window == NarrowFetchWindow(y.missing[s])
    IN  IF s \in y.complete THEN {StockSkipped(y, s)}
        ELSE {StockFails(y, s), StockSkipped(y, s)}
             \cup UNION {StockFetched(y, s, RowsFor(s, days, row)) :
                           days \in {window, {Min(window)}}, row \in {"bar", "full"}}

\* _finish_cancelled, at the head and at the end of a batch.
Cancelled(y) == FlushFrames([y EXCEPT !.status = "cancelled"], "done")

EndStatus(y) ==
    [y EXCEPT !.at = "done",
              !.status = IF y.tally.failed > 0 THEN "completed_with_errors" ELSE "completed"]

EndLoop(y) == {IF z.status = "failed" THEN z ELSE EndStatus(z) : z \in FlushFrames(y, "done")}

\* _run_full_market_loop.  A cancel may be asked for at any time.
SyncSteps(y) ==
    CASE y.at = "batch" /\ y.todo # {} ->
            Cancelled(y) \cup
            {[y EXCEPT !.at = "stock", !.batch = b, !.todo = @ \ b, !.batchFailed = FALSE] :
               b \in kSubset(Min({SyncBatch, Cardinality(y.todo)}), y.todo)}
      [] y.at = "stock" /\ y.batch # {} -> UNION {FetchOutcomes(y, s) : s \in y.batch}
      [] y.at = "stock" /\ y.batch = {} ->
            IF y.batchFailed /\ Filled(y.pending) # {}
            THEN FlushFrames([y EXCEPT !.waiting = 0], "flushed")
            ELSE {[y EXCEPT !.at = "flushed"]}
      [] y.at = "flushed" -> Cancelled(y) \cup {[y EXCEPT !.at = "batch"]}
      [] y.at = "batch" /\ y.todo = {} -> EndLoop(y) \cup Cancelled(y)
      [] OTHER -> {}

-----------------------------------------------------------------------------
(* What the sync promises *)

\* Whatever was fetched is on disk or waits to be written, at every moment; a job
\* that ends without a failed write leaves nothing waiting; its counters say what
\* became of every stock, and its two fill counts are the rows that are on disk
\* now and were not, and the capitalisations likewise.  The window a stock is
\* asked for holds every day that it lacks.
SyncIsAccounted(y) ==
    /\ \A c \in Filled(y.fetched) : MergedRows(y.frame, y.pending)[c] = MergedRows(y.was, y.fetched)[c]
    /\ y.at = "done" =>
         /\ y.status # "failed" => Filled(y.pending) = {} /\ y.frame = MergedRows(y.was, y.fetched)
         /\ y.status \in {"completed", "completed_with_errors"} =>
               y.tally.processed = Cardinality(y.symbols)
         /\ y.tally.processed = y.tally.completed + y.tally.failed + y.tally.skipped
         /\ y.tally.failed = Cardinality(y.errors) /\ (y.status = "completed" => y.errors = {})
         /\ y.status # "failed" =>
              /\ y.tally.daily = Cardinality({c \in Filled(y.frame) : y.was[c] = "none"})
              /\ y.tally.caps = Cardinality({c \in Filled(y.frame) :
                                               y.was[c] = "bar" /\ y.frame[c] = "full"})
    /\ \A s \in Stocks \ y.complete : y.lacks[s] \subseteq NarrowFetchWindow(y.missing[s])
=============================================================================
