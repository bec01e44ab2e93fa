--------------------------- MODULE DataOperations ---------------------------
(***************************************************************************)
(* Three procedures of data/operations.py, data/sync.py and data/          *)
(* warehouse.py over the stocks of CoverageGaps: a fetch of daily bars     *)
(* into the two stores, the job that back-fills capital flow batch by      *)
(* batch, and the lifecycle table that decides which stocks are synced.    *)
(***************************************************************************)
EXTENDS CoverageGaps

CONSTANTS TailDays,        \* DAILY_BARS_TAIL_SHORTFALL_TRADE_DAYS
          FlowBatch,       \* capital_flow_batch_size
          Fetched,         \* what there may be of a stock: [bars, flow, crawl, fails, age]
          MinCurrent,      \* min_current_symbols, of a list that looks complete
          StaleDays        \* stale_delist_days

FetchAnswers ==
    [bars : SUBSET Days, flow : SUBSET Days, crawl : SUBSET Days, fails : BOOLEAN, age : SUBSET Nat]

ASSUME OperationConstants ==
    /\ TailDays \in Nat /\ FlowBatch \in Nat \ {0} /\ MinCurrent \in Nat /\ StaleDays \in Nat
    /\ Fetched \subseteq FetchAnswers

-----------------------------------------------------------------------------
(* The lifecycle table.  A date that is not known is {}.                    *)

NoRecord == [listing |-> {}, delisted |-> {}, status |-> "none"]
Listing(date) == [listing |-> date, delisted |-> {}, status |-> "listed"]
Delisting(date) == [listing |-> {}, delisted |-> date, status |-> "delisted"]

Coalesce(new, old) == IF new # {} THEN new ELSE old

\* Warehouse.upsert_symbol_lifecycle: a date that is not given leaves the old one.
UpsertSymbolLifecycle(table, rows) ==
    [s \in Stocks |-> IF s \notin DOMAIN rows THEN table[s]
                      ELSE [listing |-> Coalesce(rows[s].listing, table[s].listing),
                            delisted |-> Coalesce(rows[s].delisted, table[s].delisted),
                            status |-> rows[s].status]]

\* read_delisted_symbols; sync_symbols, the stocks with prices without them.
DelistedSymbols(table) == {s \in Stocks : table[s].delisted # {} \/ table[s].status = "delisted"}
SyncSymbols(table, last) == {s \in Stocks : last[s] > 0} \ DelistedSymbols(table)

NewLife == [table |-> [s \in Stocks |-> NoRecord], last |-> [s \in Stocks |-> 1], today |-> 1,
            list |-> {}, absent |-> {}, unread |-> FALSE]

\* A day on which some of the stocks that are synced trade.
SyncDay(l, traded) ==
    [l EXCEPT !.today = @ + 1,
              !.last = [s \in Stocks |-> IF s \in traded \cap SyncSymbols(l.table, l.last)
                                         THEN l.today + 1 ELSE @[s]]]

\* Mutant: a short list is trusted too.
StaleOfAnyList(l, list, recent) == {s \in Stocks : l.last[s] > 0} \ (list \cup recent)

\* Stocks with prices that a long enough list does not name, and that have no recent rows.
StaleCandidates(l, list, recent) ==
    IF Cardinality(list) < MinCurrent THEN {}
    ELSE {s \in Stocks : l.last[s] > 0} \ (list \cup recent)

\* refresh_symbol_lifecycle.  Either of the two reads of the history may fail.
RefreshSymbolLifecycle(l, list, recentRead, lastRead) ==
    LET recent == IF recentRead THEN {s \in Stocks : l.last[s] >= l.today - StaleDays} ELSE {}
        stale == StaleCandidates(l, list, recent)
        rows == [s \in list \cup stale |->
                   IF s \in list THEN Listing({})
                   ELSE Delisting(IF lastRead THEN {l.last[s]} ELSE {})]
    IN  IF list = {} THEN l
        ELSE [l EXCEPT !.table = UpsertSymbolLifecycle(@, rows), !.list = list,
                       !.absent = @ \cup (IF Cardinality(list) < MinCurrent THEN {} ELSE Stocks \ list),
                       !.unread = @ \/ ~recentRead]

LifeSteps(l) ==
    (IF l.today = LastDay THEN {} ELSE {SyncDay(l, traded) : traded \in SUBSET Stocks})
    \cup {RefreshSymbolLifecycle(l, list, recentRead, lastRead) :
            list \in SUBSET Stocks, recentRead \in BOOLEAN, lastRead \in BOOLEAN}

\* A stock that is left out of the sync was once missing from a list that was long
\* enough to be believed, and unless a read failed has no recent row; and a date of
\* delisting is the day of its last row, however the table is written afterwards.
LifeIsSound(l) ==
    /\ DelistedSymbols(l.table) \subseteq l.absent
    /\ \A s \in DelistedSymbols(l.table) : l.unread \/ l.last[s] < l.today - StaleDays
    /\ \A s \in Stocks : l.table[s].delisted \subseteq {l.last[s]}

\* operations.py:1305, a flaky source cannot freeze the stocks that are synced: one
\* that the newest list names takes part.  The code keeps the date of a delisting
\* for ever (see the README, section 5).
ListedIsSynced(l) == l.list \subseteq SyncSymbols(l.table, l.last)

-----------------------------------------------------------------------------
(* fetch_daily_bars_into_cache for all stocks and days 1..LastDay           *)

NoAnswer == [bars |-> {}, flow |-> {}, crawl |-> {}, fails |-> FALSE, age |-> {}]

NewDaily(table, withFlow) ==
    [at |-> "fetch", known |-> table, table |-> table, read |-> FALSE, withFlow |-> withFlow, got |-> [s \in Stocks |-> NoAnswer],
     crawled |-> FALSE, cache |-> FALSE, warehouse |-> FALSE, missing |-> {}, status |-> "none"]

\* Mutant: a delisted stock is expected up to the last day too.
ShortfallWhateverLife(bars, table) ==
    {s \in Stocks : bars[s] # {} /\ Cardinality(Max(bars[s]) + 1..LastDay) > TailDays}

\* _tail_coverage_shortfall; a table that cannot be read explains nothing.
TailCoverageShortfall(bars, table) ==
    {s \in Stocks : bars[s] # {} /\
        Cardinality(Max(bars[s]) + 1..Min({LastDay} \cup table[s].delisted)) > TailDays}

\* _merge_capital_flow_from_fetcher: a value of the crawler goes over the host's.
FlowAfter(d, s) ==
    d.got[s].flow \cup (IF d.crawled THEN d.got[s].crawl \cap d.got[s].bars ELSE {})

FlowLess(d) == {s \in Stocks : d.withFlow /\ d.got[s].bars \ FlowAfter(d, s) # {}}

FoundNothing(d) == \A s \in Stocks : d.got[s].bars = {}

\* derive_listing_dates_from_frame: the newest row says how many days ago.
DeriveListings(got) ==
    [s \in {t \in Stocks : got[t].bars # {} /\ got[t].age # {}} |->
        Listing({Max(got[s].bars) - age : age \in got[s].age})]

HasFailures(d) == d.withFlow /\ ~FoundNothing(d) /\ (d.crawled => \E s \in Stocks : d.got[s].fails)

Report(d, read) ==
    LET table == IF read THEN d.table ELSE [s \in Stocks |-> NoRecord]
        missing == {s \in Stocks : d.got[s].bars = {}} \cup FlowLess(d)
                      \cup TailCoverageShortfall([s \in Stocks |-> d.got[s].bars], table)
    IN  [d EXCEPT !.at = "done", !.read = read, !.missing = missing,
                  !.status = IF missing # {} \/ HasFailures(d) THEN "partial" ELSE "ok"]

DailySteps(d) ==
    CASE d.at = "fetch" -> {[d EXCEPT !.at = "raised"], [d EXCEPT !.at = "no trade days"]}
            \cup {[d EXCEPT !.at = IF \A s \in Stocks : got[s].bars = {} THEN "report" ELSE "flow",
                            !.got = got] : got \in [Stocks -> Fetched]}
      [] d.at = "flow" ->       \* the crawler answers, or raises, which is a failure of its own
            {[d EXCEPT !.at = "cache", !.crawled = answers] : answers \in IF d.withFlow THEN BOOLEAN ELSE {FALSE}}
      [] d.at = "cache" -> {[d EXCEPT !.at = "warehouse", !.cache = TRUE], [d EXCEPT !.at = "raised"]}
      [] d.at = "warehouse" -> {[d EXCEPT !.at = "life", !.warehouse = TRUE], [d EXCEPT !.at = "raised"]}
      [] d.at = "life" ->       \* a lifecycle that cannot be written is only logged
            {[d EXCEPT !.at = "report", !.table = table] :
               table \in {d.table, UpsertSymbolLifecycle(d.table, DeriveListings(d.got))}}
      [] d.at = "report" -> {Report(d, TRUE), Report(d, FALSE)}
      [] OTHER -> {}

\* A fetch that says "ok" has every stock in both stores with the capital flow of
\* every row it brought, and no stock ends more than TailDays before the last day,
\* or the one it was delisted on; the stocks it calls missing are exactly the
\* others, as long as the table could be read: learning when they were listed has
\* not made it forget that one is gone.
FetchIsHonest(d) ==
    d.at = "done" =>
        LET last(s) == Min({LastDay} \cup d.known[s].delisted)
            lacking == {s \in Stocks : \/ d.got[s].bars = {} \/ last(s) - Max(d.got[s].bars) > TailDays
                                       \/ d.withFlow /\ ~(d.got[s].bars \subseteq FlowAfter(d, s))}
        IN  /\ d.status = "ok" => lacking = {} /\ (Stocks # {} => d.cache /\ d.warehouse)
            /\ lacking \subseteq d.missing
            /\ d.read => d.missing = lacking

-----------------------------------------------------------------------------
(* _run_capital_flow_job                                                    *)

NewFlowJob ==
    [at |-> "batch", todo |-> Stocks, processed |-> 0, completed |-> 0, failed |-> 0, skipped |-> 0,
     skipEastmoney |-> FALSE, refused |-> FALSE, asked |-> FALSE, errors |-> {}, raised |-> {}, status |-> "running"]

\* What fetch_capital_flow_into_cache may say of a batch: stocks that needed nothing,
\* of the others those it has rows of, those whose window is short, those that failed.
FlowResults(batch) ==
    {[skipped |-> skipped, fetched |-> fetched, short |-> short, failures |-> failures,
      missing |-> (batch \ (skipped \cup fetched)) \cup failures] :
        skipped \in SUBSET batch, fetched \in SUBSET batch, short \in SUBSET batch, failures \in SUBSET batch}

IsResult(batch, r) == (r.fetched \cup r.short \cup r.failures) \cap r.skipped = {}

FlowFailureReasons(batch, r) == (r.failures \cup r.short \cup r.missing) \cap batch

\* Mutant: a stock with rows is complete whatever is reported of it.
CompletedWithRows(batch, r) == (r.fetched \cup r.skipped) \cap batch

CompletedFlowSymbols(batch, r) ==
    ((r.fetched \cup r.skipped) \cap batch) \ FlowFailureReasons(batch, r)

FlowBatchDone(j, batch, r, refused) ==
    LET reasons == FlowFailureReasons(batch, r)
    IN  [j EXCEPT !.at = "cancel", !.todo = @ \ batch, !.processed = @ + Cardinality(batch),
                  !.completed = @ + Cardinality(CompletedFlowSymbols(batch, r)),
                  !.failed = @ + Cardinality(reasons), !.skipped = @ + Cardinality(r.skipped),
                  !.errors = @ \cup reasons, !.asked = @ \/ (j.refused /\ ~j.skipEastmoney),
                  !.refused = @ \/ refused, !.skipEastmoney = @ \/ refused]

\* An exception fails the whole batch, under one error.
FlowBatchRaises(j, batch) ==
    [j EXCEPT !.at = "cancel", !.todo = @ \ batch, !.processed = @ + Cardinality(batch),
              !.failed = @ + Cardinality(batch), !.raised = @ \cup batch]

FlowJobSteps(j) ==
    CASE j.at = "batch" /\ j.todo # {} ->
            {[j EXCEPT !.at = "done", !.status = "cancelled"]}
            \cup UNION {{FlowBatchRaises(j, batch)}
                          \cup {FlowBatchDone(j, batch, r, refused) :
                                  r \in {q \in FlowResults(batch) : IsResult(batch, q)}, refused \in BOOLEAN} :
                        batch \in kSubset(Min({FlowBatch, Cardinality(j.todo)}), j.todo)}
      [] j.at = "cancel" -> {[j EXCEPT !.at = "done", !.status = "cancelled"], [j EXCEPT !.at = "batch"]}
      [] j.at = "batch" /\ j.todo = {} ->
            {[j EXCEPT !.at = "done",
                       !.status = IF j.failed > 0 THEN "completed_with_errors" ELSE "completed"]}
      [] OTHER -> {}

\* Every stock of the batches that are over counts once, as completed or as failed,
\* a failed one under an error of its own or of its batch; one that needed nothing
\* is completed; once Eastmoney refused it is not asked again.
FlowJobIsAccounted(j) ==
    /\ j.processed = Cardinality(Stocks \ j.todo)
    /\ j.processed = j.completed + j.failed
    /\ j.failed = Cardinality(j.errors \cup j.raised)
    /\ j.skipped <= j.completed
    /\ ~j.asked
    /\ j.status = "completed" => j.todo = {} /\ j.errors \cup j.raised = {}
=============================================================================
