# A verification of the A-share research workbench

The repository is a desktop workbench for A-share research: a Python data service
(`backend/astock_backtester`) that keeps a warehouse of daily bars, fetches market data,
runs backtests and talks to a language model; a Tauri launcher (`src-tauri`) that owns the
service process; and a React client (`frontend`). This directory holds TLA+ models of the
parts whose correctness depends on order, concurrency and failure, the TLC configurations
that check them, and proofs of what holds for every size of the system.

Paths below are relative to `src/`; `data/sync.py` stands for
`backend/astock_backtester/data/sync.py`, and so on.

## 1. Inventory

| Part | State | Operations | Talks to |
|---|---|---|---|
| **Data-sync job manager** `data/sync.py` | seven dictionaries under one `Lock`: jobs, signatures, finish, read and progress times, cancelled ids | `start_full_market`, `start_capital_flow_backfill`, `get_job`, `running_job_ids`, `cancel_job`, pruning, reaping; one worker thread per job | routes of `service.py`; the fetch adapters; the warehouse |
| **Warehouse** `data/warehouse.py`, `data/filelock.py` | one parquet file per year, a lock file per partition, a metadata database, three in-memory profiles, attempt records | `write_daily_bars`, coverage, gap and completeness profiles, frame reads, maintenance | every writer, also the scripts in other processes |
| **Data operations** `data/operations.py` | none of its own | fetch plans for missing ranges, local imports, capital-flow updates, the bounded retry around a write | providers, warehouse, legacy cache |
| **Coverage snapshot** `service.py`, `DataServiceState` | snapshot, its time, `refreshing` and `dirty` flags under `_coverage_lock` | `health_payload`, `set_coverage_snapshot`, `start_coverage_refresh` and its background thread | health requests, every route and AI tool that writes |
| **HTTP service** `service.py` | the objects above, shutdown token | routing, NDJSON streams, warm-up, shutdown | client, launcher |
| **Backtest engine** `engine.py` | cash, positions, last closes, equity | one pass over the trade days: exits, scan, equity point, entries | conditions, risk, AI insight on request |
| **Conditions** `conditions.py`, `condition_parser.py`, `indicators.py`, `ai/condition_dsl.py` | none | parse, vectorised prefilter, per-row evaluation, score | engine, AI tools |
| **Chat sessions** `ai/facade.py`, `ai/sessions.py`, `ai/cancel.py` | lock table with reference counts, turn registry, session files | `chat_stream` and its worker, cancel, delete, clean-up after every save | agent, memory |
| **Agent turn** `ai/agent.py`, `ai/llm_client.py`, `ai/context.py`, `ai/tools/` | message list of a turn, tool budgets, the pool of tool threads | rounds of model calls and tool calls, time-outs, truncation, cancellation | model API, warehouse, engine, realtime provider |
| **AI background** `ai/memory.py`, `ai/digest.py`, `ai/insights.py`, `ai/reports.py` | memory facts, digest and report files, subscriber queues | extraction after a turn, digest and insight runs guarded by a running flag, event stream | facade, client |
| **Retrieval, optimiser, overfit check** `ai/rag/`, `ai/optimizer.py`, `ai/overfit.py` | none | search over a corpus and over parameters | agent tools |
| **Realtime provider** `data/realtime.py`, `data/realtime_parsers.py` | retained snapshot with a generation, provider slots, one shared CLS request, per-task caches | a market snapshot gathered by time-boxed tasks | routes, agent tools |
| **Fetch layer** `data/capital_flow_crawler.py`, `data/astock_adapter.py`, `data/http_transport.py`, `data/providers.py` | circuit breakers, per-host clocks, a parameter cache | page ladders, source fallback, retries | sync workers, operations |
| **Briefings, news, commentary, risk** `data/briefing.py` and others | small time-stamped caches | fetch and format texts | routes |
| **Legacy cache, import, calendar** `data/cache.py`, `data/importer.py`, ... | one parquet file | merge, coverage, conversions | operations |
| **Launcher** `src-tauri/src` | service child process, lock file, update guard | start, health probe, restart, stop, update preflight | service, client |
| **Client** `frontend/src` | polled jobs, saved strategies, streams, update state | polling hooks, stores with versions, event stream | service, launcher |
| **Scripts** `scripts` | checkpoints | back-fills and imports from a second process | warehouse |

How they interact, in one path: the client posts a sync request; `service.py` asks the job
manager to admit it; a worker thread fetches batches through the adapters and writes frames
into the warehouse, under the partition's file lock, because a script may be writing the same
partition; the write drops the profiles of its own process; a route that wrote adopts the
coverage it computed and forces a refresh of the coverage snapshot, which `/health` serves;
the client polls the job until it is final. Backtests and AI tools read the warehouse at any
time; chat turns of the same session wait for each other.

### What is hard here

`PROJECT.json` lists the hazards line by line. In short:

* *Two critical sections where one is meant.* A worker tests its cancellation in one section
  and stores its result in another; a refresh thread lowers its flag twice; a profile is
  tested, computed and stored in three steps; clean-up chooses files and unlinks them later.
* *Identity of what is waited for.* The lock of a session is looked up, referenced, and
  acquired in separate steps while the table evicts entries.
* *Two processes.* The service and the scripts read, merge and replace the same files, and
  either may die at any point.
* *Bounded waits.* A busy lock is waited for 120 s per partition, 90 s per chat turn; then the
  caller retries what it has partly done, or gives up and must not release what it never got.
* *Records that disappear.* Jobs are pruned and reaped while their workers still hold copies.
* *Long legal sequences.* A position whose sale is signalled meets suspension, a limit-down
  open and a missing row before it can be sold.

### What makes each part correct

| Part | Properties |
|---|---|
| Job manager | no two in-flight jobs of one signature; in-flight jobs within the budget; completed only after the last write and, unless the record was reaped under its worker, the last batch, and final; a cancellation stays visible to its worker while the job is in flight (but not after a reaping: a cancelled job may be stored as completed, violated); a polled record is kept; every job ends; what a job reports of its stocks is what its writes did |
| Warehouse | concurrent writes of a partition are atomic merges; no lock outlives its work; a returned write is complete; a profile misses only what landed while it was computed; the accounts of what is missing agree, and what is shown as missing is fetched, except where two accounts have different rules for the first days of a stock's capital flow (violated) |
| Coverage snapshot | a raised flag has a thread; every forced write is followed by a published read that began after it |
| Chat sessions | turns of one session exclude each other; nothing stays locked, referenced or registered; a stop hits the turn it found or nothing, never a later one, but its answer may come after the turn (violated); claimed sessions are not cleaned up; saved turns are not overwritten (violated on one path) |
| Agent turn | every request to the model is one its protocol allows, whatever ended the turns before; writes run alone and never after a stop; every turn ends |
| Memory | no record without its write, no two records of one subject, none the checks refuse; an update keeps the category (violated) |
| Backtest | cash never negative; money conserved; at most `max_positions`, one per symbol; T+1; due sales happen on the first day that allows them; fills inside the bar; no position above its share of the signal day's equity |
| Conditions | the prefilter never drops a row the evaluators accept; a text is decided as it reads, except on a limit that its words leave out (violated) |
| Realtime provider | a late answer never replaces a newer snapshot; slots are returned once; the shared request is answered to all who joined it; every part of a snapshot is of its source, its day and its request |
| Fetch layer | one half-open probe; requests within their budget and spaced; a fetch that calls itself complete is; failures and holes are reported |
| Data operations | a fetch says what it did not get; the lifecycle of a stock is what its lists and its rows say |
| Scripts | a line of progress is true of the files, wherever the script died; a known value is never blanked; the script ends |
| Launcher | one service per cache directory, and the lock file names it |

## 2. Modules and the code they stand for

`PROJECT.json`, "map", names the lines behind every definition. Components with concurrent actors have a module of
their own with variables, one action per critical section, file operation or loop step, and its properties; an `MC`
module gives the constants finite values; where something is proved, a `Proofs` module extends it (CoverageProofs and AssistantProofs
extend two each). Sequential procedures
(a fetch, a walk, a decision about rows) are modules of operators: the state of one procedure is a record, an operator
gives the record after a step, and *Procedures* composes them: its one variable is the procedure under way. Definitions
whose comment says *mutant* are plausible bugs of the definition that follows them; the models do not
use them. They are there to show that the property which names them in `PROJECT.json` fails
when the code is wrong in that way.

| Module | Code | Composed with |
|---|---|---|
| SyncJobs, SyncJobsProofs | `data/sync.py`, admission to final store | |
| FullMarketSync, ProceduresProofs | `data/sync.py`, the loop of a full-market job | CoverageGaps, Procedures |
| DataOperations, ProceduresProofs | `data/operations.py` daily fetch and lifecycle, `data/sync.py` capital-flow job, `service.py` pool of stocks | CoverageGaps, Procedures |
| Warehouse, PartitionStore, WarehouseProofs | `data/warehouse.py` writes and profiles, `data/filelock.py` | |
| CoverageGaps, CalculationProofs | `data/warehouse.py` read side, the table per stock of `data/operations.py`, `data/sync.py` completeness | Procedures |
| CoverageRefresh, CoverageProofs | `service.py` coverage snapshot | |
| ChatSessions, AssistantProofs | `ai/facade.py`, `ai/sessions.py`, `ai/cancel.py` | |
| AgentTurn, AssistantProofs | `ai/agent.py`, the messages of a session | |
| Memory, CalculationProofs | `ai/memory.py` | Procedures |
| Realtime, RealtimeProofs | `data/realtime.py`, a snapshot's tasks | |
| RealtimeSources | `data/realtime.py`, `data/realtime_parsers.py`, the chains of sources | Procedures |
| HttpTransport, KlineFetch, FlowProviders, ProceduresProofs | `data/http_transport.py`, `data/astock_adapter.py`, `data/capital_flow_crawler.py` | Procedures |
| EnrichmentBreaker, DailyImport, WarehouseProofs | the breakers of `data/astock_adapter.py`; `scripts/run-full-market-import.py` | each other |
| FlowBackfill, CoverageProofs | `scripts/run-capital-flow-backfill.py`, the update of `data/operations.py`, `data/cache.py` | |
| Conditions, CalculationProofs | `conditions.py`, `condition_parser.py`, `indicators.py` | Procedures |
| Backtest, BacktestProofs | `engine.py` | |
| Launcher, ProceduresProofs | `src-tauri/src/service_manager.rs` | Procedures |

### SyncJobs (data/sync.py)

`job[j]` is what the manager's dictionaries hold under the id `j`: the record's status and
whether it has failed symbols, the signature, the cancellation mark, and three *ages* in place
of time stamps, because the code only compares `now - stamp` with a threshold; an age stops
growing at the largest threshold it is compared with. `worker[j]` is the thread that serves
the job, first the handler and then the worker: where it is, how many batches are left,
whether frames wait to be written, the failure count of the copy it holds, and as history whether its record was
reaped under it (`Marked`).

| Action | Code |
|---|---|
| `Request` = prune, then `Reuse`, `Refuse` or `Create` | `_admit`, one section of `_lock` |
| `Pruned`, `Reap`, `Drop` | `_prune_locked`, `_reap_stale_running_locked`, `_drop_locked`; operators, since every admission runs them first |
| `StoreEmpty`, `StartThread` | the rest of `start_*`: an empty range is stored as completed by the handler |
| `Begin`, `Check`, `Batch`, `Flush` | the worker: cancellation test, batch, last flush |
| `CancelGet`, `CancelStore`, `CancelFlush` | `_finish_cancelled` in the loop: `get_job` and `_store` are sections of their own, so everything others do between reading the copy and storing it is a behaviour; a full-market job then writes what is pending and goes on to `LastCheck` |
| `LastCheck`, `EndGet`, `EndStore` | `_finish_cancelled` once more after the loop (`data/sync.py:551`), however the loop ended: the flag, then the copy, then the store |
| `FinalGet`, `FinalStore`, `FailGet`, `FailStore` | what follows when that test finds no flag (`data/sync.py:553-557`), and the handler of exceptions |
| `GetJob`, `CancelJob` | the client's poll and cancellation |
| `Tick` | time |

### CoverageRefresh (service.py)

Data is its version, the number of writes so far; a read of the warehouse is not atomic and
returns any version between those at its start and at its end. `Write`, `ComputeCoverage`,
`SetCoverageSnapshot`, `ForceRefresh` are the steps of a route (an AI tool skips the middle two);
`WriteRaises` is a write that lands in part and fails its request: nothing is adopted, nothing is
forced. A coverage that cannot be read falls back to the cache, which every write reaches first and
which so shows as much as the warehouse, and to an empty coverage (version 0) when that fails too.
`Health` and `Expire` are the health request and the 60 s; `StartRead`, `EndRead`, `Publish`, `Finally`
the background thread. `forced` and `best` are history.

### ChatSessions (ai/facade.py, ai/sessions.py, ai/cancel.py)

`table`, `refs`, `owner` are `_session_locks` with its reference counts and the locks;
`store` and `turns` the session files (the content of a session is the set of turns saved in
it); `token` and `stopped` the turn registry, `found` the tokens that stops have looked up and not set yet: `CancelTurn` reads the token under
the registry's lock and `SetToken` sets it after the lock is released, as `TurnRegistry.cancel` does. A request goes through retain, acquire, load or create
(a creation saves, so it also cleans up), announce, run, save, scan, unlink, unregister, unlock,
unref, each of them a step of its own; `TimeOut`, `LoadFails`, `Disconnect` and `SaveFails` are the other ways out.

### Warehouse and PartitionStore (data/warehouse.py, data/filelock.py, data/operations.py)

A cell is one field of one (symbol, date) row and its value the write it comes from. A write
takes its years in order: `Lock`, `Read`, `Replace`; then `Record`, `Invalidate`, `Return`. `TimeOut` is the
caller's bounded retry of the whole frame, `Fail` an error at any point, `Crash` the death of the service
or of the script, which drops its locks and, for the service, its caches. `Ask` and `StoreProfile` are
the three cached profiles, with the writes they have seen. `PartitionStore` is the abstract specification: a partition
changes only by one atomic merge of one write; `Store == INSTANCE PartitionStore WITH data <- file` is the refinement.

### Realtime (data/realtime.py)

`req[r]` is one call of `market_snapshot_events`: its stage, its generation, the parts still gathered and whether all
so far were obtained live. `slot[s]` is the job that holds the in-flight lock of a one-worker executor, `part[r][s]` the wrapper
of a request around it (`_fetch_live_breadth_with_budget` and its siblings) and that job. `home` and `call` are the shared CLS
request: its cache, its flight, and the two callers of each request. A payload is named after the caller that fetched it.

| Action | Code |
|---|---|
| `Begin`, `Clear` | the generation, then the cleared CLS cache: two sections, under two locks |
| `Cached`, `Join`, `Lead`, `AskTooLate` | the ways into `_fetch_cls_home_payload`; the first three are one section |
| `Answer`, `AnswerFails`, `Settle` | the owner: answer stored, or not, then the `finally` block in a section of its own |
| `Wake`, `WaitTimesOut`, `ExpireHome` | whoever joined; the 1.5 s of the cache |
| `Take`, `SkipBusy`, `Collect`, `TimeOut` | the wrapper: `acquire(blocking=False)`, result, time budget |
| `StartJob`, `EndJob` | the job in the executor; its done-callback frees the slot |
| `EndIndexes`, `Gathered`, `LocalOver` | indexes (from CLS or Sina), then the local fallback if a part is missing |
| `PublishStale`, `PublishLive`, `Abandon` | the snapshot is sent, and retained if live; the client is gone |

`old` is history: the payloads whose flight was over when the request began to gather.

### AgentTurn (ai/agent.py)

`messages` is the history as the session holds it, `file` as it was last saved; a message is its role, the calls it makes and
the call it answers. `Begin` repairs and appends the question, `Archive` cuts to the window, `Ask` ... `MakeCalls` are the step loop,
`Submit`, `PoolStarts`, `RunAlone`, `EndCall`, `SkipCall` the batch of tool calls, `Record` the results. `StopThinking`, `StopStream`,
`AbandonCalls` are the three boundaries at which a stop leaves, `Raise` an exception anywhere, `Save` the worker's `finally`, `Crash` the end of
the process. Ids of calls come again in later messages, because `llm_client` makes up `call_0`, `call_1`, ... .

### DailyImport, EnrichmentBreaker (scripts/run-full-market-import.py, data/astock_adapter.py)

`task[w]` is a thread of the pool in `_fetch_one`; `breaker` the two breakers all threads share, with the time left of each call in place of
clocks; `pending`, `results`, `batch`, `logging` are the futures and lists of the main thread; `store` and `progress` survive `Killed`.

### FlowBackfill (scripts/run-capital-flow-backfill.py, data/operations.py, data/cache.py)

A cell is the capital flow of a stock on a day: no row, a blank, or a value named after who wrote it. `ReadBatch`, `Fetch`, `WriteCache`,
`WriteWarehouse`, `Report` are the script's steps; `Other` is the service, which writes the same warehouse in between; `Crash` and `Restart` the
end of the script and its `--resume`.

### Procedures

`work` is one procedure and its state; each has a disjunct of `Init` and an action.

| Action | Procedure |
|---|---|
| `SendRequest`, `AskForSlot` | `resilient_get` with retry, budget and alternate transport; `HostThrottle` (HttpTransport) |
| `FetchBars` | `_fetch_one` over Tencent, Sina, Baidu (KlineFetch) |
| `TryCombination`, `ReadPage`, `FetchFlow`, `FetchBatch`, `KeepRows` | the capital-flow crawler (FlowProviders) |
| `WriteRow` | any frame that writes can leave, under the accounts of what is missing (CoverageGaps) |
| `AppendRow` | a history grows by a day, under conditions and texts (Conditions) |
| `AskForBreadth`, `AskForSectors`, `RefreshPool`, `ReadLocal` | the sources of a market snapshot (RealtimeSources) |
| `WriteMemory`, `TakeTurn` | the records and their recall (Memory) |
| `SyncMarket` | the loop of a full-market job: completeness snapshot, narrowed window per stock, outcomes, flushes, counters, end status (FullMarketSync) |
| `FetchDaily`, `LiveOn`, `FillFlow` | the daily fetch, the life of a stock across refreshes of the lifecycle table, the capital-flow job (DataOperations) |
| `Launch` | two shells, their services and the lock file (Launcher) |

### CoverageGaps and Conditions (data/warehouse.py, condition_parser.py, conditions.py, indicators.py)

`frame[s, d]` is what is on disk of a stock on a day. `known[s]` is what the lifecycle table and the code of the stock say of it: `born` and `gone`,
`late` (its code alone says that the source of the flow begins late), and `young`, the days on which it counts as just listed. Two rules decide which days before the first
capital flow a stock is not asked for: `BeginsLate` (`uses_symbol_capital_flow_source_start`) and `BeginsYoung` (`uses_listing_day_capital_flow_source_start`).
`coverage()` asks the first, of the days with prices (`CountedLate`); the list of stocks to fetch asks both, of the days with any row (`ListedLate`).

`Means` is what a text says, written from its words: `Comparisons` are the texts with one limit, `Compared` what the limit is compared with, and `strict` whether the words
leave the limit out (greater, above, below) or take it in (at least, at most). `EvaluateCondition` and `FilterMask` are the two codes, with `Histogram` twice
the distance of the two lines, as `indicators.py:92` computes it. `OnLimit` are the rows on a limit that the words leave out: there the code decides otherwise
(section 5), and everywhere else it decides as the text reads. Rows and texts are on both sides of every limit and on it.

### Backtest (engine.py)

One position or one candidate is one step: `HoldOn`, `SellPending`, `SellHeld`, `SellIntraday`,
`ExitRules` are the exit loop in the order of its tests, `Scan` the candidates and the equity point,
`SkipCandidate` and `OpenPosition` the entry loop, `EndDay` the close bookkeeping. Bars arrive day by day,
any of `Bars` or no row for each symbol. What conditions and scores decide is nondeterministic: any set
of tradable symbols in any order, an exit rule hits or not. Money is exact: rates are percents, traded prices
hundredths, amounts ten-thousandths. The code's floats round stop and target prices differently; the
model rounds them to whole prices on the side that is hit, and equity at stake is compared exactly.

## 3. Runs

| Run | Instance | What it shows |
|---|---|---|
| `sync_safety` | 2 jobs, a full-market, a capital-flow and an empty-range signature, budget 2, one batch, thresholds of 1 tick, time may pass between any two statements | deduplication, service of in-flight jobs, followed records kept and final answers final and true, and (under fairness) every job ends |
| `sync_cut` | as `sync_safety` | **violated**: a job that was cancelled, then reaped between the two tests of its flag, is stored as completed with a batch left |
| `coverage_safety` | 2 writers (one an AI tool), 2 refresh threads, 2 writes | the flag and the dirty mark have a thread; every forced write is followed by a published refresh round that began after it |
| `chat_safety` | 3 requests, a delete, 2 ids of which 1 stored, a lock table of 1 entry, clean-up beyond 1 session | exclusion, no leak, a stop finds the turn in flight and sets its token or nothing, a claimed session is neither cleaned up nor deleted |
| `chat_lost` | 3 requests, 2 stored ids | **violated**: a save overwrites a turn saved meanwhile |
| `agent_turn` | 2 turns over every history of up to 3 messages an older version may have left, 2 steps, 2 calls each | every request is legal, writes run alone and not after a stop, every turn ends |
| `warehouse_merge` | a service write and a script write, 2 years, 2 cells, 2 caches, 1 reader, 2 attempts, crashes and failures anywhere | merges are atomic, a returned write is complete, profiles miss only overlapping writes |
| `realtime_all` | 2 requests, indexes and breadth, the breadth slot | the retained snapshot is the newest live one, slots belong to their jobs, no quotes from before the request, and every request ends |
| `daily_import` | 4 stocks, 2 workers, batches of 2, 2 failures open a breaker, 1 crash | one probe, no breaker that waits for nobody; progress lines are true; nobody waits for time to pass |
| `flow_backfill` | 2 stocks, 2 days of which 1 a known gap, 1 crash, 1 write of the service | lines are true of the files, a value is never blanked, the script ends |
| `procedures` | see below | each procedure against whatever the services it asks may answer |
| `backtest_safety` | 2 symbols, 4 days, 6 bars (quiet, rally, slump with a gap, limit up, limit down, suspended) or no row, 2 positions, 2 buys a day, 3 holding days | money, positions, T+1, due sales, fills |

The properties of `procedures`, one per family: `BarsComplete` (a request is bounded, slots are spaced, accepted bars are complete), `FlowReported`
(the walk is complete, diagnostics tell what happened, a batch accounts for every stock once), `GapsAgree` (five accounts of what is missing agree, and
what is counted as missing is listed for fetching wherever the rule of the list does not leave it out), `SyncAccounted` (a sync's counters and end status are what its writes did; rows that wait are neither lost nor
forgotten; the same for the capital-flow job), `FetchHonest` (an "ok" has every stock; a stock leaves the sync pool only for a reason), `ConditionsAgree`
(mask and evaluator), `TextsAreDecided` (parser, evaluator and the meaning of the words agree off the limits that the words leave out), `SourcesAddUp` (parts of a snapshot are whole, of one source, one day),
`MemoryIsSound` (subjects, rejections, trimming; what the user stressed comes first), `ServiceIsSingle` (one service per cache directory).

Why the bounds are enough for the cases that matter. *SyncJobs*: two jobs suffice for a twin and for
a late worker of a reaped job beside a new one; one tick makes a record expired, unread or stalled,
and ages are only compared with thresholds; one batch is enough to be before, in and after the loop. *CoverageRefresh*: two overlapping
refreshes and a forced write during each of the two rounds. *ChatSessions*: with one table entry every second session evicts; three
requests are a holder, a waiter that keeps the entry referenced and a third that needs the room. *AgentTurn*: two calls are one that waits beside
one that runs; with a window of 4 and at most 5 messages kept, both cuts happen in the middle of a batch; the second turn meets whatever the first left. *Warehouse*: two years
are needed for a write that retries with one year done, two cells for a merge that could lose one of them. *Realtime*: two requests are an older and a
newer one, an owner and one who joins, a job that outlives its request and a request that finds the slot busy; sectors and the local fallback are further
slots without a part in the CLS request. *DailyImport*: two workers are a probe and a late answer, four stocks two batches with a crash between the write
and its lines. *FlowBackfill*: one known gap and one common day, read before and written after the service wrote. *Backtest*: four days let a sale be signalled on
day 2, blocked on day 3 and made on day 4; two symbols compete for cash; the six bars reach every branch of the exit and entry tests. *Procedures*: page sizes, limits and retry counts are 1 to
4 where the code has 2 to 800, so that every walk reaches its second page, its limit and its end; four days hold a listing, a gap, a thin day and a delisting; in the
frames two of the three stocks only have whole rows or none (`Whole`), which is what symmetry needs and enough for a median; the row sets of `MCProcedures` reach both sides of every comparison of the
conditions, and bars grow to four, past every window; three ports let a service be started after one that died and one that failed.

Deadlock is checked where the system never stops (`sync_safety`, `coverage_safety`, which ends in an explicit `Finished` stutter when its writes are
used up; `realtime_all` in `Over`). Everything else is used once or a bounded number of times, so these runs really end and switch the check off. Symmetry is used only
in runs without liveness.

### Fairness

* `SyncJobs!FairSpec`: weak fairness of every worker's step. The operating system runs threads, the worker's
  network calls have time-outs and its lock waits are bounded. Requests, polls and time are not fair: nobody must ask.
* `CoverageRefresh!CoverageFairSpec`: refresh threads and started requests go on.
* `ChatSessions`: no fairness; its properties are safety.
* `AgentTurn!AgentSpec`: the turn's own steps. The model and the tools have time-outs and answer or raise; stops, exceptions and crashes are not fair.
* `FlowBackfill!Spec`: the script's steps, among them its restart: somebody runs it again. The service is not fair.
* `Realtime!FairSpec`: the threads of a request go on, its own HTTP call and every wait of it having a time-out. Jobs in the slots are
  *not* fair: a provider may hang for ever, and the requests must end all the same.
* `DailyImport` states progress as `NobodyWaits`: some step is enabled, without waiting for time, until the import is over.

No strong fairness is assumed anywhere.

## 4. Proofs

TLAPS proves the theorems for every value of the constants that satisfies the named assumptions
(`JobsAssumption`, `LimitAssumption`, ...), which say that sets are finite, limits are positive and special
values are outside the sets.

* **SyncJobsProofs.** `IInv` is `TypeOK`, `RowInv` for every job, `NoDuplicateWork` and `WithinBudget`.
  `RowInv(job[j], worker[j])` relates a record to its thread, and is what the properties lack to be inductive:
  an in-flight record has a thread; a cancelling one is flagged; from the last flush on nothing is pending; after completion the thread is gone;
  and, of a record that was not reaped under its thread, `Knows`: the job is in flight until the thread ends it, and at the last test every batch is fetched, or the record is
  flagged or gone, so that a thread cut short stores `cancelled` or nothing. A reaping discards the flag, and `reaped` is the exception that `CompletedMeansWritten` names. The budget is preserved because no
  step except `Create` brings a job into flight: stores keep or end it (`Put` of a terminal status), and pruning only ends
  or removes jobs; the proofs name these facts as lemmas and compare cardinalities of subsets. Theorems: `TypeCorrect`,
  `DeduplicationCorrect`, `BudgetCorrect`, `InFlightServed`, `CompletedCorrect`, and `AnswersCorrect`: a completed record is put once (the worker that
  could put it again is gone), and a record that is read is neither expired nor unread, so no pruning takes it.
* **CoverageProofs**, on CoverageRefresh and FlowBackfill. `CoverageTypeCorrect` and `FlagCorrect`: `FlagHasThread` is inductive with the types:
  `Begin` raises the flag together with a thread, `Publish` decides and lowers it in one section, and the second lowering in `Finally` only
  weakens it. `FilledCorrect` holds because both merges of the back-fill keep values and take new ones (`WrittenFills`), whatever is written.
  `LinesFollow` promises of each outcome that waits for its writes that its cells are in the frame, then in the cache, then in both files; what
  a line says can only become truer (`TrueStays`). `LinesCorrect` follows.
* **WarehouseProofs**, on Warehouse and DailyImport. `LockInv` adds to the types that a writer inside a partition holds its lock and that what it read is
  still what the partition has. With it a `Replace` is exactly one `Merge` of the abstract store, and no other action touches a
  partition: `WarehouseImplementsStore`. `WriteInv` says what is already in the partitions at each stage (years not in `todo` are merged, landed
  writes are past their last year, a cache the write has already dropped sees it or overlaps it); it gives `ReturnedIsMerged`
  and `ProfilesMissOnlyOverlaps`. `LocksHeldByWork` and `WarehouseTypeCorrect` follow from `LockInv`.
  Of DailyImport, `AllGuarded` says of each breaker that half-open, probing and a marked call in flight are one thing, that an open breaker's
  cooldown outlasts every old probe (`CallMax < Cooldown`), and gives `ProbesCorrect`. `LinesFollow` and `AllInHand` (every stock of a running
  import is pending, in a thread, in a future, in the batch, among the lines to write, or has a line) give `ProgressCorrect`.

* **RealtimeProofs.** `TypeInv` adds to the types that the generation counts the requests that have begun. `BusyMeansWorking` is
  inductive with the types, and so is `KeptIsTop`, which says of the retained generation what `Max` chooses. The CLS request needs two
  layers: `FreshInv` (a request that has not gathered has neither tasks nor callers, a job that has not started has not asked), so that
  nobody asks twice; and `SharedInv`: what a request must not use has ended, hence is neither in the cache it cleared nor a flight that
  can be joined. Theorems: `RealtimeTypeCorrect`, `SlotsCorrect`, `RetainedCorrect`, `FlightCorrect`, `QuotesCorrect`.

* **AssistantProofs**, on ChatSessions and AgentTurn. All four properties of `chat_safety`. `WellFormed` is the types and, per stage, what a request has (`Shape`): an
  entry from its retain to its unref, a session from its load on. `LockInv` is the heart: reference counts are exact
  (`refs[e] = Cardinality(Users(e))`), so an entry that somebody has is found in the table under its id, whatever the table evicts
  (`Found`); a lock is held by the request that works under it (`Held`); a request that has not retained yet names no entry (`Unused`).
  Two turns of one id then have one entry and one owner. `TokenInv` adds the registry and needs the exclusion itself: only another turn
  of the same session could replace a token. `SoughtInv` says that every turn whose token a stop has found, or set, has begun (`Begun`): the stages of a
  request only go forward, so what a stop sets late is the token of a turn that is over, never of a later one. Theorems: `ChatTypeCorrect`, `LocksCorrect`, `LeaksCorrect`, `StopCorrect`, `ClaimedCorrect`.
  The lemmas `Becomes` … `Saves` state once what each shape of update makes of a request; every step is then one of eleven walks that
  leave the locks alone (`LocksStay`) or one of the four lock operations.
  Of AgentTurn, `OneByOne` (while a batch has a writer nothing waits in the pool and at most one call runs) makes `WritesCorrect` inductive.
  `RequestsCorrect` is about a history of any length: `Debts(ms, owed)` says that `owed[k]` is the set of calls without a result after `k`
  messages, `Owes(ms, ids)` that `ids` are owed at the end. A stored history owes nothing; `Sound` says that while the turn may still ask the
  model its messages owe the results of the batch that runs and of no other call, and hold a question. Appending, repairing and cutting a
  history change what is owed only as the lemmas about `Owes` say; whatever a prefix owes is shown by the least index at which it would not.
* **BacktestProofs.** `BacktestTypeCorrect`, `PortfolioCorrect` (cash, conservation of money, limits, T+1), `SizedCorrect`, `SellsCorrect` and
  `TradesCorrect`. `IInv` is `TypeOK`, `PhaseInv`, `HeldInv`, `Apart`, `CashSuffices`, `BooksInv` and `EquityInv`: it relates the place in the day
  to what is done. Positions not looked at yet are unchanged since the last close, those left are held by right, cash and cost of the held add up to what was paid in and earned. The sum over positions is a recursive function over the
  sequence; that it exists and steps as it should (`SumsExist`, `SumsAgree`, `TotalIs`, `TotalSteps`) is an induction made by the least
  counterexample (`Least`), because the library's induction rule takes an operator.
* **ProceduresProofs**, and **CalculationProofs** for the procedures that compute. A step of `work` stays in its procedure (`StepOfItsOwn`), so each family has an invariant of its own. The assumptions are
  `ProcedureAssumption` (limits, page sizes and windows are what the code's constants are: positive, a page longer than its overlap),
  finite sets of stocks and days, and that what the sources answer are records of the shape the fetchers give.
  * `ServiceCorrect` (Launcher): `LockNames` says that the lock file names the one service that is alive, `Stage` what a shell has made sure of at
    its place in `ensure_running`, and `Alone` that one shell is at work at a time, that `LockNames` holds while none is, and the `Stage` of each.
  * `FetchCorrect` (DataOperations): `DailyInv` says that a recorded end of life stays what it was and that the rows brought are in both stores
    before anything is reported of them; `LifeInv` adds the types to `LifeIsSound`.
  * `SyncCorrect` (FullMarketSync, and the capital-flow job): what is on disk merged with what waits is what was there merged with what was fetched
    (`SyncMerged`; merges associate, `MergesAssociate`); of stocks ahead of the loop nothing has been fetched, so fills add up (`FillsAdd`); each stock has one
    outcome (`SyncCounted`) and the window asked for holds every day it lacks (`SyncWindowed`, `WindowHoldsTheMissing`). TLC checked `SyncInv` on the instance first.
  * `BarsCorrect` (HttpTransport, KlineFetch): `RequestInv` counts attempts against budget; `ThrottleInv` says that the slots given are spaced one by one,
    hence all of them; `KlineInv` says that every day of the window that the walk has passed and the source has is gathered. A page overlaps the one
    before because it holds the newest rows up to its end (`NewestAreLast`, `PagesAreWhole`), which uses that a source's rows are dense enough for the
    span of days the code allows per page (`data/astock_adapter.py:111`). Finite sets of days have ends (`FiniteHasEnds`, again by least counterexample).
  * `FlowCorrect` (FlowProviders) has five parts. `MatrixInv` counts combinations against the cap, which leaves the second endpoint a turn
    (`SecondEndpointHasATurn`). `WalkInv`: every listed day of the window behind the cursor is gathered, because a page holds the newest days up to its
    cursor (`HistoryIsNewest`). `FlowInv`: rows that are kept were asked of a provider, and what they lack is `Noted`. `BatchInv`: outside a pass
    every stock is settled by its last answer (`Settles`); within one, those that have answered are, and what was `got` is their answers.
    `KeptInv`: the cache is in the order of the last successes, every stock it holds above every stock it has lost (`InOrder`), and it is full
    or has lost none; with `FS_Surjection` that counts exactly the stocks that succeeded since.
  * `ConditionsCorrect` (Conditions) needs no more of the state than that the rows are bars; the work is in the operators. Sums of the community modules are
    shown to exist and to take out any element first (`SumsOverExist`, `SumWithout`; the least counterexample again). Evaluator and mask of a
    node then agree on a row (`EvaluatorsAndMasksAgree`), and every column, so every evaluator, looks back only (`ColumnsLookBack`, `EvaluateLooksBack`).
  * `TextsCorrect` (Conditions): the numerals of the numbers below a hundred, in decimal digits, as one Chinese digit or around a ten, are read as the number they stand for
    (`NumeralsAreRead`); the node of each offered text is found (`OfferedTexts`) and decided as `Loosely` says, which reads every limit as taken in, one lemma for each family of ids
    (`AverageTexts`, `ReturnTexts`, `VolumeTexts`, `ExtremeTexts`, `FlowTexts`, ...); the screen follows by `EvaluatorsAndMasksAgree`, and off
    the limits that the words leave out `Loosely` is `Means` (`LooselyOrOnLimit`). It assumes what
    `ProcedureAssumption` says: a text names at least one day, a volume is no less than zero, and a cell has at most one value of the flow.
  * `GapsCorrect` (CoverageGaps): the stocks that span a day less those that have it are those with a hole there (`InternalCounts`), and what is counted
    by day is what is counted by stock (`DoubleCounting`, over sets of subsets, `SubsetsOneByOne`, since the library's induction takes an operator). Days without rows do not
    enter a classification (`OneClassification`), so a table without dates and the totals classify alike.
    What the totals leave out by their one rule the list leaves out by its two (`CountedLateIsListedLate`), since flow that begins
    within the lag after the first prices makes their day the first day of any row as well; the converse is what `GapsAreListed` refutes. The first attempt to prove
    `GapsAreFetched` found that the model classified the days of the warehouse where a table for requested dates classifies the requested ones (`data/operations.py:145`);
    with too few days on disk the two differ, and the model now has both.
  * `MemoryCorrect` (Memory): `FileOf` says that the records have ids and times of their own, that what the model added says different things and that
    none of it is a market number outside the profile; `Books` that every record that is gone without a deletion has `MaxRecords` later ones.
    Every write is a `Rewritten` file (times only grow, nothing is left out but by name) that is then trimmed; the ranks by time are a
    bijection (`RanksOfRecords`), so a trim drops only what is older than all it keeps. That the stressed come first needs
    no invariant but the cap: `HitBoost * MaxHits < 200`, which is how `ai/memory.py:45` chooses it.
  * `SourcesCorrect` (RealtimeSources) has four parts. `PoolInv`: a cached pool is what a walk of whole pages gave (`WalksAreTrue`). `BreadthInv`: an answer
    is nothing, or three numbers of its own source (`IsAnswer`), and the quotes count each stock once. `SectorsInv`: what is parsed comes from
    rows of one page (`ParsedAreOfTheRows`), and what is kept is named in it (`KeptAreNamed`). `LocalInv`: each group has the counts and the mean of its own
    members (`SoundGroups`, `ThreeClasses`). Means are compared by cross-multiplied sums, which is transitive as counts are positive (`MeansAreTransitive`), so that the
    ranks of a finite set are those of a list (`RanksInOrder`, `SetInOrder`); `Ordered` sorts by rank, since the prover cannot expand the sorting of the library.
    It assumes `SourceAssumption` (a row has at most one change, what is counted is natural, the listed stocks are finitely many) and `LocalAssumption` (finitely
    many stocks, prices above zero). The proof attempt showed `CASE`s of the model whose guards overlapped, where TLC takes the first and the language leaves
    the choice open; their guards are now exclusive, in the order of the code's `if`s.

Only model-checked: liveness (`JobsEnd`, `ForcedWriteIsRead`, `RequestsEnd`, `TurnsEnd`, `BackfillEnds`) and `NobodyWaits`, which needs `ENABLED`, because both
are beyond the prover. Every other property of a passing run is a theorem.

## 5. Disagreements between code and text

Two are runs, `chat_lost` and `sync_cut`; the others are definitions of the modules that no run checks, because the code does not keep to them (add the name to the
configuration to see the behaviour).

| Definition | The code | The text |
|---|---|---|
| `ChatSessions!SavedTurnsStay`, run `chat_lost` | `ai/facade.py:324-340`: a new session is created before it is locked, or under the lock of another id | `ai/facade.py:291-293`: turns of one session exclude each other |
| `SyncJobs!CutIsNotCompleted`, run `sync_cut` | `data/sync.py:551`: the flag is tested again after the loop it cut short; a reaping (`:315`) between the two tests discards it, and `:553-557` store completed | `data/sync.py:549-550`: the final state of a cancelled job must be `cancelled` |
| `Procedures!CategoriesStay` | `ai/memory.py:492`: an operation without a category is given "fact", so an update of its text files a strategy as a fact | `ai/memory.py:82`: an update need not name a category; `:73`: a strategy record is put before every conversation |
| `ChatSessions!AcknowledgedIsInFlight` | `ai/cancel.py:63-68`: the token is set after the lock under which it was found is released; the turn may end in between | `ai/facade.py:456`, `ai/cancel.py:62`: the answer is true only when a turn in flight was hit |
| `Procedures!GapsAreListed` | `data/warehouse.py:1183-1203`: the list of stocks to fetch exempts by listing days as well, and takes the first row of any kind; `coverage()` (`:637-646`) does neither | `data/warehouse.py:1105`: the same rule as `coverage()` |
| `Procedures!WordsAreKept` | `condition_parser.py:246-280`, `conditions.py:236`: greater and less are read as at least and at most | `condition_parser.py:13`: a share of rising stocks greater than 55 % |
| `SyncJobs!CancelSticks` | `data/sync.py:551-557`: test and final store are two sections, also without a reaping | `data/sync.py:549-550`: the final state of a cancelled job must be `cancelled` |
| `CoverageRefresh!FinalSnapshotIsCurrent` | `service.py:321` and `:327` lower the flag twice | `service.py:289-290`, `:316-317`: never take pre-write data as the final snapshot |
| `Warehouse!CacheIsCurrent` | `data/warehouse.py:873-879`: computed without the lock, stored after an invalidation | `data/warehouse.py:216`: the next read reflects the write |
| `AgentTurn!StopStartsNothing` | `ai/agent.py:356`: calls that wait in the pool are started whenever a thread is free | `ai/agent.py:346`: after a stop no new tool is started |
| `Procedures!SyncEndsGaps` | `data/sync.py:130`: a stock whose last rows are missing on thin days is skipped | `data/sync.py:118`, `data/warehouse.py:665`: the exemptions are those of `coverage()`, whose tail is never exempt |
| `Procedures!ListedAreSynced` | `data/warehouse.py:1033-1042`: a date of delisting once given is kept although later lists name the stock | `data/operations.py:1303-1306`: a flaky source cannot silently freeze the stocks that are synced |
| `Procedures!NeverTwoServices` | `service_manager.rs:580`, `:639`: a shell removes the lock of another that is still starting its service, and on failure before it kills its own | `service_manager.rs:893`: a launcher does not go on without owning the lock |

Smaller ones, met while modelling: `operations.py` documents that `_lifecycle_clipped_required_dates` returns `None` where it returns an empty set; the job counts Sina's date
shortfall as a failure while `operations.py` excludes it; `data-rules.md:25` names a ratio check of the breadth that no code reaches; the comment of `recall_score` says four
times where the cap gives 2.8; `memory.py:262` states the subset the other way round; the archive's note counts messages before the second trim; Tencent
counts a last price of zero as a fall where Sina skips it; an empty list of sector members read from a failing page is kept for the life of the process.

## 6. What is abstracted or left out

* *SyncJobs*: a thread that cannot be started; the retries of the flush are `Warehouse!TimeOut`.
* *FullMarketSync*, *DataOperations*: the log, percentages, the wording of failures; a stock's window is one fetch (its sources are KlineFetch).
* *CoverageRefresh*: the 0.1 s that `/health` waits for a cold start.
* *ChatSessions*: the age order in which clean-up chooses idle files (any choice of the right size is allowed); one scan is one step; the
  turn's own rounds are AgentTurn; a worker thread that cannot be started. Requests are used once.
* *AgentTurn*: what a tool computes, the truncation of results, the step budget in characters (any cut at a question is allowed).
* *Memory*: digests, insights and reports; a file that cannot be read.
* *Warehouse*: the order in which the three caches are dropped is free, since no reader sees more than one; attempt records and maintenance.
* *CoverageGaps*: windows by date (all days of the instance are one window); columns other than prices, flow and capitalisation.
* *Realtime*: a provider without a time budget (`None`, not what the service sets up); the chains inside a job are RealtimeSources.
* *RealtimeSources*: the formats of the hosts; the breadth read from a rendered page.
* *HttpTransport*, *KlineFetch*, *FlowProviders*: parsing; the headers and parameters of Eastmoney's matrix are numbered.
* *Conditions*: floats are exact fractions; the evaluators kept for ids that no parser makes. `ConditionIds` are the known ids; of an unknown one, which no parser makes,
  the evaluator raises (`conditions.py:535-538`) and the mask keeps the row (`engine.py:169-171`). A text about an outflow without an amount does not say whether a flow of zero is one, so both readings are allowed for it.
* *Launcher*: a service that is up answers within the 2 s of a probe; paths, executables and hashes identify a service as its port does.
* *Backtest*: preflight, metrics, event stream and match records. `models.py:91-96` bounds the three rates from below only; that fees and tax together do not exceed the amount
  traded, nor the slippage the price, is an assumption of the model (`SettingAssumption`): beyond it a sale would cost money.

### Not modelled

* *Backtest entry points*, *Retrieval, optimiser and overfit check*: no shared state, no order, no failure handling of their own; numeric code over floats.
* *Briefings, news, commentary and risk*: fetching, cleaning and formatting of texts.
* *Frontend*: rendering and requests; what it asks of a job is in SyncJobs. Its saved strategies and the update client are the next candidates.
* *Routing, streaming and shutdown* of `service.py`, *update preflight and Python runtime* of the launcher, *digests, insights, reports*.

## 7. Plan

Done: jobs, warehouse, coverage, chat, backtest, realtime with their proofs; the fetch layer, agent turn, memory, conditions, the accounts of what is missing,
the sync and capital-flow loops, the two scripts and the launcher.

Next: the client's stores and update guard with `updater_preflight.rs`; digests and insights behind their running flags; the composition of FullMarketSync with
Warehouse (its flush is one merge there).
