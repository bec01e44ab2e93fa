---------------------------- MODULE FlowBackfill ----------------------------
(***************************************************************************)
(* scripts/run-capital-flow-backfill.py with fetch_capital_flow_into_cache *)
(* of data/operations.py: a batch of stocks is read from the warehouse and *)
(* the legacy cache, what is missing is fetched, merged into what was read *)
(* and written to both, and every stock gets a progress line.  The service *)
(* writes the same warehouse meanwhile (`Other`), and the script may die   *)
(* anywhere and be started again with --resume.                            *)
(*                                                                         *)
(* A cell is the capital flow of one stock on one trade day of the window: *)
(* no row, a row without a value, or a value, named after who fetched it.  *)
(***************************************************************************)
EXTENDS Integers, FiniteSetsExt

CONSTANTS Symbols,
          Days,             \* the trade days of the effective range
          KnownGaps,        \* KNOWN_CAPITAL_FLOW_SOURCE_GAP_DATES among them
          LateStart,        \* stocks whose flow may start later than the window
          BatchSize,        \* --batch-size
          MaxFailures,      \* --max-consecutive-failures
          MaxCrashes,       \* bound: how often the script dies
          MaxOthers         \* bound: how many cells the service writes

ASSUME BackfillConstants ==
    /\ Days \subseteq Int /\ IsFiniteSet(Days) /\ KnownGaps \subseteq Days
    /\ IsFiniteSet(Symbols) /\ LateStart \subseteq Symbols
    /\ BatchSize \in Nat \ {0} /\ MaxFailures \in Nat /\ MaxCrashes \in Nat /\ MaxOthers \in Nat

VARIABLES
    warehouse, cache,   \* the two files: cell -> "none", "null" or a value
    progress,           \* lines of capital-flow-progress.jsonl
    main,               \* where the script is
    todo,               \* stocks of the batches to come
    batch,              \* stocks of this batch whose lines are not written yet
    frame,              \* what was read of them, then what is to be written
    outcome,            \* stock of the batch -> what its line will say
    failures,           \* consecutive_failures
    crashes, others

files == <<warehouse, cache>>
vars == <<warehouse, cache, progress, main, todo, batch, frame, outcome,
          failures, crashes, others>>

Cells == Symbols \X Days
Values == {"ours", "theirs"}
Frames == [Cells -> {"none", "null"} \cup Values]
NoRows == [c \in Cells |-> "none"]
Nothing == [s \in {} |-> {}]

Kinds == {"imported", "already_complete", "known_source_gap", "failed"}
Outcomes == [kind : Kinds, cells : SUBSET Cells]
Lines == [symbol : Symbols, kind : Kinds, cells : SUBSET Cells]

\* What fetch_many_fund_flows reports of a stock: the days it had a value for,
\* who answered (FlowProviders; "none" when it failed, perhaps with rows of the
\* recent-success cache), and whether there is a date_coverage_shortfall that is
\* not Sina's.  Eastmoney answers only with a window whose ends it covers.
Answers ==
    [days : SUBSET Days, provider : {"eastmoney"}, shortfall : {FALSE}]
    \cup [days : SUBSET Days, provider : {"sina", "baidu"}, shortfall : BOOLEAN]
    \cup [days : SUBSET Days, provider : {"none"}, shortfall : {FALSE}]

TypeOK ==
    /\ warehouse \in Frames /\ cache \in Frames /\ frame \in Frames
    /\ progress \subseteq Lines
    /\ main \in {"choosing", "ready", "fetching", "caching", "storing", "reporting",
                 "finished", "stopped", "dead"}
    /\ todo \subseteq Symbols /\ batch \subseteq Symbols
    /\ failures \in Nat /\ crashes \in Nat /\ others \in Nat

-----------------------------------------------------------------------------
(* What the script makes of its files *)

\* load_completed_symbols
Completed ==
    {line.symbol : line \in {l \in progress :
        \/ l.kind = "imported" /\ l.cells # {}
        \/ l.kind \in {"already_complete", "known_source_gap"}}}

\* select_missing_symbols_from_warehouse; then the provider's list (which may be
\* empty); then what the rows of the warehouse, or else of the cache, lack.
Missing(file, gaps) == {s \in Symbols : \E d \in Days \ gaps : file[<<s, d>>] = "null"}

Selections ==
    LET lacking == Missing(warehouse, KnownGaps) \ Completed
        rows    == IF warehouse # NoRows THEN warehouse ELSE cache
    IN  IF lacking # {} THEN {lacking}
        ELSE {Symbols \ Completed, Missing(rows, {}) \ Completed}

\* _read_existing_daily_bars: a row of the warehouse hides the one of the cache.
Existing(stocks) ==
    [c \in Cells |-> IF c[1] \notin stocks THEN "none"
                     ELSE IF warehouse[c] # "none" THEN warehouse[c] ELSE cache[c]]

\* _symbols_with_complete_capital_flow
FlowDays(f, s) == {d \in Days : f[<<s, d>>] \in Values}
Expected(f, s) ==
    {d \in Days \ KnownGaps : s \in LateStart => d >= Min(FlowDays(f, s))}

\* Mutant: a day is there if its row is.
HasEveryRow(f, s) == \A d \in Days \ KnownGaps : f[<<s, d>>] # "none"

IsComplete(f, s) ==
    FlowDays(f, s) # {} /\ Expected(f, s) \subseteq FlowDays(f, s)

\* _merge_capital_flow_rows, only_missing.
Merged(f, said) ==
    [c \in Cells |-> IF f[c] = "null" /\ c[1] \in DOMAIN said /\ c[2] \in said[c[1]].days
                     THEN "ours" ELSE f[c]]

\* _standalone_daily_bars_from_capital_flow_rows: rows of their own where none was read.
WithStandalone(f, said) ==
    [c \in Cells |-> IF f[c] = "none" /\ c[1] \in DOMAIN said /\ c[2] \in said[c[1]].days
                     THEN "ours" ELSE Merged(f, said)[c]]

Imported(f, said, s) ==
    {c \in Cells : c[1] = s /\ WithStandalone(f, said)[c] # f[c]}

\* Mutant: the new rows replace the old ones.
WrittenOver(file, new) ==
    [c \in Cells |-> IF new[c] # "none" THEN new[c] ELSE file[c]]

\* normalize, then combine_first of LocalCache and Warehouse: a value wins over
\* what the file has, a blank does not.
Written(file, new) ==
    [c \in Cells |-> IF new[c] \in Values \/ file[c] = "none" THEN new[c] ELSE file[c]]

\* _symbols_with_remaining_existing_capital_flow_gap and
\* _symbols_with_only_known_capital_flow_gaps
Blank(f, s) == {d \in Days : f[<<s, d>>] = "null"}

Incomplete(f, said) ==
    {s \in DOMAIN said : said[s].provider # "sina" /\
        IF f = NoRows THEN said[s].shortfall ELSE Blank(Merged(f, said), s) # {}}

OnlyKnownGaps(f, said) ==
    {s \in Incomplete(f, said) : LET left == Blank(Merged(f, said), s)
                                 IN  left # {} /\ left \subseteq KnownGaps}

\* The failures and missing_symbols of the result; operation_completion takes any
\* shortfall but Sina's for a failure, also where the fetch has made up for it.
IsMissing(said, s) == said[s].provider = "none" \/ said[s].shortfall

Kind(f, said, s) ==
    IF s \notin DOMAIN said THEN "already_complete"
    ELSE IF IsMissing(said, s) THEN "failed"
    ELSE IF s \in OnlyKnownGaps(f, said) THEN "known_source_gap"
    ELSE "imported"

-----------------------------------------------------------------------------
Init ==
    /\ warehouse \in [Cells -> {"none", "null"}]
    /\ cache = NoRows
    /\ progress = {}
    /\ main = "choosing"
    /\ todo = {} /\ batch = {} /\ frame = NoRows /\ outcome = Nothing
    /\ failures = 0 /\ crashes = 0 /\ others = 0

Choose ==
    /\ main = "choosing"
    /\ \E stocks \in Selections \cup {Symbols \ Completed} : todo' = stocks   \* --symbols: all
    /\ main' = "ready"
    /\ UNCHANGED <<files, progress, batch, frame, outcome, failures, crashes, others>>

\* Mutant: the batch stays among the stocks to come.
ReadBatchAgain ==
    /\ main = "ready" /\ todo # {}
    /\ \E stocks \in SUBSET todo :
        /\ Cardinality(stocks) = Min({BatchSize, Cardinality(todo)})
        /\ batch' = stocks /\ frame' = Existing(stocks)
    /\ IF \A s \in batch' : IsComplete(frame', s)
       THEN /\ main' = "reporting"
            /\ outcome' = [s \in batch' |-> [kind |-> "already_complete", cells |-> {}]]
       ELSE main' = "fetching" /\ UNCHANGED outcome
    /\ UNCHANGED <<files, progress, todo, failures, crashes, others>>

\* fetch_capital_flow_into_cache up to the fetch; nothing is fetched for a
\* stock whose window is complete.
ReadBatch ==
    /\ main = "ready" /\ todo # {}
    /\ \E stocks \in SUBSET todo :
        /\ Cardinality(stocks) = Min({BatchSize, Cardinality(todo)})
        /\ batch' = stocks /\ todo' = todo \ stocks
        /\ frame' = Existing(stocks)
    /\ IF \A s \in batch' : IsComplete(frame', s)
       THEN /\ main' = "reporting"
            /\ outcome' = [s \in batch' |-> [kind |-> "already_complete", cells |-> {}]]
       ELSE main' = "fetching" /\ UNCHANGED outcome
    /\ UNCHANGED <<files, progress, failures, crashes, others>>

\* The answers of the crawler, and what the lines will say if the writes succeed.
Fetch ==
    /\ main = "fetching"
    /\ \E said \in [{s \in batch : ~IsComplete(frame, s)} -> Answers] :
        /\ frame' = WithStandalone(frame, said)
        /\ outcome' = [s \in batch |-> [kind |-> Kind(frame, said, s),
                                        cells |-> Imported(frame, said, s)]]
        /\ main' = IF \A s \in DOMAIN said : Imported(frame, said, s) = {}
                   THEN "reporting" ELSE "caching"
    /\ UNCHANGED <<files, progress, todo, batch, failures, crashes, others>>

WriteCache ==
    /\ main = "caching"
    /\ cache' = Written(cache, frame)
    /\ main' = "storing"
    /\ UNCHANGED <<warehouse, progress, todo, batch, frame, outcome, failures, crashes, others>>

WriteWarehouse ==
    /\ main = "storing"
    /\ warehouse' = Written(warehouse, frame)
    /\ main' = "reporting"
    /\ UNCHANGED <<cache, progress, todo, batch, frame, outcome, failures, crashes, others>>

\* Mutant: the lines are written as if the batch had succeeded.
WriteFailsQuietly ==
    /\ main \in {"caching", "storing"}
    /\ main' = "reporting"
    /\ frame' = NoRows
    /\ UNCHANGED <<files, progress, todo, batch, outcome, failures, crashes, others>>

\* A write lock that stays busy, or any other exception: the batch has failed.
WriteFails ==
    /\ main \in {"caching", "storing"}
    /\ outcome' = [s \in batch |-> [kind |-> "failed", cells |-> {}]]
    /\ main' = "reporting"
    /\ frame' = NoRows
    /\ UNCHANGED <<files, progress, todo, batch, failures, crashes, others>>

Report ==
    /\ main = "reporting"
    /\ \E s \in batch :
        /\ progress' = progress \cup
             {[symbol |-> s, kind |-> outcome[s].kind, cells |-> outcome[s].cells]}
        /\ batch' = batch \ {s}
        /\ failures' = IF outcome[s].kind = "failed" THEN failures + 1 ELSE 0
    /\ main' = IF MaxFailures > 0 /\ failures' >= MaxFailures THEN "stopped"
               ELSE IF batch' = {} THEN "ready" ELSE "reporting"
    /\ frame' = NoRows
    /\ outcome' = IF batch' = {} THEN Nothing ELSE outcome
    /\ UNCHANGED <<files, todo, crashes, others>>

Finish ==
    /\ main = "ready" /\ todo = {}
    /\ main' = "finished"
    /\ UNCHANGED <<files, progress, todo, batch, frame, outcome, failures, crashes, others>>

Crash ==
    /\ main \notin {"finished", "stopped", "dead"} /\ crashes < MaxCrashes
    /\ main' = "dead" /\ crashes' = crashes + 1
    /\ todo' = {} /\ batch' = {} /\ frame' = NoRows /\ outcome' = Nothing
    /\ failures' = 0
    /\ UNCHANGED <<files, progress, others>>

Restart ==
    /\ main = "dead" /\ main' = "choosing"
    /\ UNCHANGED <<files, progress, todo, batch, frame, outcome, failures, crashes, others>>

\* The service: a new bar without flow, or a flow of its own.
Other ==
    /\ others < MaxOthers /\ others' = others + 1
    /\ \E c \in Cells, v \in {"null", "theirs"} :
        /\ v = "null" => warehouse[c] = "none"
        /\ warehouse' = Written(warehouse, [NoRows EXCEPT ![c] = v])
    /\ UNCHANGED <<cache, progress, main, todo, batch, frame, outcome, failures, crashes>>

Script ==
    \/ Choose \/ ReadBatch \/ Fetch \/ WriteCache \/ WriteWarehouse \/ WriteFails
    \/ Report \/ Finish \/ Restart

Next == Script \/ Crash \/ Other

Spec == Init /\ [][Next]_vars /\ WF_vars(Script)

-----------------------------------------------------------------------------
\* A capital flow that is in a file is never blanked again, although the script
\* writes back whole rows it read long before (known values are only replaced by
\* values).
FilledStaysFilled ==
    [][\A c \in Cells : /\ warehouse[c] \in Values => warehouse'[c] \in Values
                        /\ cache[c] \in Values => cache'[c] \in Values]_vars

\* What a line calls imported is in both files, wherever the script died.
ImportedIsWritten ==
    \A line \in progress : \A c \in line.cells :
        line.kind # "failed" => warehouse[c] \in Values /\ cache[c] \in Values

\* A stock that --resume leaves out as complete has a flow for every day its
\* source has one, if not in the warehouse then in the cache.
CompleteIsCovered ==
    \A line \in progress : line.kind = "already_complete" =>
        \A d \in Days \ KnownGaps :
            \/ warehouse[<<line.symbol, d>>] \in Values
            \/ cache[<<line.symbol, d>>] \in Values
            \/ line.symbol \in LateStart

\* The progress lines are true of the two files.
LinesAreTrue == ImportedIsWritten /\ CompleteIsCovered

\* The script always gets to its end or to its limit of failures in a row.
BackfillEnds == <>[](main \in {"finished", "stopped"})
=============================================================================
