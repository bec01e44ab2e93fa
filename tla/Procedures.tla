----------------------------- MODULE Procedures -----------------------------
(***************************************************************************)
(* The sequential procedures of the data layer against whatever the        *)
(* services they ask may answer.  `work` is one of them, under way; each   *)
(* has its own disjunct of Next, built from the steps its module defines.  *)
(***************************************************************************)
EXTENDS HttpTransport, KlineFetch, FlowProviders, CoverageGaps, Conditions,
        RealtimeSources, Memory, FullMarketSync, DataOperations,
        Launcher

CONSTANTS Hosts, Horizon,      \* of the throttle: its hosts, and the time asked within
          Windows,             \* the windows <<start, end>> that are fetched
          Histories,           \* the days a stock may have traded
          Codes,               \* a batch of stocks, numbered
          KeptMax,             \* RECENT_SUCCESS_CACHE_MAX_SYMBOLS
          Lives,               \* what may be known of the life of a stock
          Whole,               \* bound: stocks whose rows are always whole
          Bars, MaxBars,       \* the rows a history is made of; bound: its length
          Strategies,          \* what a backtest asks of a row
          Texts,               \* pairs <<text, days its numeral stands for>>
          LocalBoards,         \* the boards the local snapshot groups by
          LocalDays,           \* the days its frame may hold
          AtFirst              \* what a stock's rows may be when a sync starts

\* Bars come on trading days, which are fewer than the bars Sina is asked for
\* (astock_adapter.py:111); rows on disk have prices, with or without the capitalisation.
ASSUME ProcedureAssumption ==
    /\ Codes \in SUBSET Int /\ IsFiniteSet(Codes) /\ KeptMax \in Nat
    /\ Horizon \in Nat /\ Windows \subseteq Int \X Int
    /\ \A listed \in Histories : listed \subseteq Int /\ IsFiniteSet(listed)
    /\ \A w \in Windows, listed \in Histories :
         Cardinality({d \in listed : w[1] <= d /\ d <= w[2]}) <= SinaWindow(w[1], w[2])
    /\ Lives \subseteq [born : Int, gone : Int, late : BOOLEAN, young : SUBSET Days]
    /\ AtFirst \subseteq [Days -> {"none", "bar", "full"}]
    /\ Bars \subseteq [close : Int, high : Int, low : Int, volume : Nat, flow : SUBSET Int, cap : SUBSET Int,
                       turnover : SUBSET Int, heat : Int, dif : Int, dea : Int]
    /\ \A bar \in Bars : \A u, v \in bar.flow : u = v
    /\ \A p \in Texts : OfferedText(p[1], p[2])
    /\ Strategies \subseteq
         [filters : Seq(ConditionNode), threshold : SUBSET Int,
          groups : Seq([op : {"and", "or", "score"}, nodes : Seq(ConditionNode)])]
\* A day of the local frame: some stocks, at prices above zero.
ASSUME LocalAssumption ==
    \A day \in LocalDays :
        /\ IsFiniteSet(DOMAIN day)
        /\ \A s \in DOMAIN day : day[s].close \in Nat \ {0} /\ day[s].open \in Nat \ {0}

VARIABLE work

\* What the lifecycle table may say of a stock when its bars are fetched.
GoneAt(delisted) == [NoRecord EXCEPT !.delisted = delisted]

FetchBegins ==
    \/ \E alternate \in BOOLEAN : work = [of |-> "request", r |-> NewRequest(alternate)]
    \/ work = [of |-> "throttle", t |-> NewThrottle]
    \/ \E board \in {"bj", "other"}, w \in Windows, listed \in Histories :
         work = [of |-> "bars", f |-> NewFetch(board, w[1], w[2]), listed |-> listed]
    \/ work = [of |-> "matrix", m |-> NewMatrix]
    \/ \E w \in Windows, listed \in Histories :
         work = [of |-> "history", w |-> NewWalk(w[1], w[2]), listed |-> listed]
    \/ \E skip \in BOOLEAN : work = [of |-> "flow", f |-> NewFlow(1, 3, skip)]
    \/ \E skip \in BOOLEAN : work = [of |-> "batch", b |-> NewBatch(Codes, skip)]
    \/ work = [of |-> "kept", history |-> <<>>, kept |-> <<>>]

SyncBegins ==
    \E rows \in [Stocks -> AtFirst], known \in [Stocks -> Lives], missingOnly, open \in BOOLEAN :
        LET frame == [c \in Stocks \X Days |-> rows[c[1]][c[2]]]
        IN  /\ \A s \in Whole : known[s] = Unknown
            /\ work = [of |-> "sync", y |-> NewSync(frame, known, missingOnly, open)]

DailyBegins ==
    \E gone \in {{}, {2}, {LastDay}}, withFlow \in BOOLEAN :
        LET table == [s \in Stocks |-> IF s \in Whole THEN NoRecord ELSE GoneAt(gone)]
        IN  work = [of |-> "daily", d |-> NewDaily(table, withFlow)]

DataBegins ==
    \/ \E known \in [Stocks -> Lives] :
         /\ \A s \in Whole : known[s] = Unknown
         /\ work = [of |-> "gaps", frame |-> [c \in Stocks \X Days |-> "none"], known |-> known]
    \/ SyncBegins
    \/ DailyBegins
    \/ work = [of |-> "life", l |-> NewLife]
    \/ work = [of |-> "flowJob", j |-> NewFlowJob]

MarketBegins ==
    \/ \E backup \in BOOLEAN, stocks \in {0, Cardinality(Listed)}, cached \in {-1, 0, 6} :
         work = [of |-> "breadth", b |-> NewBreadth(backup, stocks, cached)]
    \/ work = [of |-> "sectors", s |-> NewSectors]
    \/ \E pool \in 0..MaxPool, per \in 1..PoolPage, declares \in {"total", "pages", "nothing"} :
         work = [of |-> "pool", y |-> NewPool(pool, per, declares)]
    \/ work = [of |-> "local", l |-> NewLocal]

TextBegins ==
    \/ \E s \in Strategies, first \in 1..2 :
         work = [of |-> "strategy", strategy |-> s, first |-> first, rows |-> <<>>]
    \/ \E t \in Texts : work = [of |-> "text", text |-> t[1], days |-> t[2], rows |-> <<>>]
    \/ \E of \in {"memory", "turns"} : work = [of |-> of, m |-> NewMemory]

Init ==
    \/ FetchBegins \/ DataBegins \/ MarketBegins \/ TextBegins
    \/ \E overlap \in BOOLEAN : work = [of |-> "launch", n |-> NewLaunch(overlap)]

SendRequest ==
    work.of = "request" /\ \E r \in RequestSteps(work.r) : work' = [work EXCEPT !.r = r]

AskForSlot ==
    /\ work.of = "throttle" /\ Len(work.t.sent) < 4
    /\ \E host \in Hosts, passed \in 0..Horizon : work' = [work EXCEPT !.t = Throttled(@, host, passed)]

FetchBars ==
    /\ work.of = "bars"
    /\ \E f \in FetchSteps(work.f, work.listed) : work' = [work EXCEPT !.f = f]

TryCombination ==
    /\ work.of = "matrix" /\ work.m.at = "asking"
    /\ \E reply \in Combined : work' = [work EXCEPT !.m = MatrixStep(@, reply)]

ReadPage ==
    /\ work.of = "history" /\ work.w.at = "walking"
    /\ \E cursor \in {work.w.cursor, work.w.end + 3} :       \* or a host that ignores it
         work' = [work EXCEPT !.w = WalkPage(@, BaiduHistory(work.listed, cursor))]

FetchFlow ==
    work.of = "flow" /\ \E f \in FlowSteps(work.f) : work' = [work EXCEPT !.f = f]

FetchBatch ==
    work.of = "batch" /\ \E b \in BatchSteps(work.b) : work' = [work EXCEPT !.b = b]

KeepRows ==
    /\ work.of = "kept" /\ Len(work.history) < 5
    /\ \E c \in Codes : work' = [work EXCEPT !.history = Append(@, c),
                                             !.kept = Remember(@, c, KeptMax)]

\* A write puts a row in the warehouse, or fills in what a row of it lacks.
Writable(s, row) ==
    {new \in Rows \ {"none"} : \/ row # "full" /\ new = "full"
                               \/ row = "none" /\ s \notin Whole}

WriteRow ==
    /\ work.of = "gaps"
    /\ \E s \in Stocks, d \in Days :
         \E row \in Writable(s, work.frame[s, d]) : work' = [work EXCEPT !.frame[<<s, d>>] = row]

\* The next trading day.
AppendRow ==
    /\ work.of \in {"strategy", "text"} /\ Len(work.rows) < MaxBars
    /\ \E bar \in Bars : work' = [work EXCEPT !.rows = Append(@, bar)]

AskForBreadth ==
    work.of = "breadth" /\ \E b \in BreadthSteps(work.b) : work' = [work EXCEPT !.b = b]

AskForSectors ==
    work.of = "sectors" /\ \E s \in SectorSteps(work.s) : work' = [work EXCEPT !.s = s]

RefreshPool ==
    work.of = "pool" /\ \E y \in PoolSteps(work.y) : work' = [work EXCEPT !.y = y]

ReadLocal ==
    work.of = "local" /\ \E l \in LocalSteps(work.l, LocalBoards, LocalDays) : work' = [work EXCEPT !.l = l]

WriteMemory ==
    work.of = "memory" /\ \E m \in MemorySteps(work.m) : work' = [work EXCEPT !.m = m]

TakeTurn ==
    work.of = "turns" /\ \E m \in TurnSteps(work.m) : work' = [work EXCEPT !.m = m]

SyncMarket ==
    work.of = "sync" /\ \E y \in SyncSteps(work.y) : work' = [work EXCEPT !.y = y]

FetchDaily ==
    work.of = "daily" /\ \E d \in DailySteps(work.d) : work' = [work EXCEPT !.d = d]

LiveOn ==
    work.of = "life" /\ \E l \in LifeSteps(work.l) : work' = [work EXCEPT !.l = l]

FillFlow ==
    work.of = "flowJob" /\ \E j \in FlowJobSteps(work.j) : work' = [work EXCEPT !.j = j]

Launch ==
    work.of = "launch" /\ \E n \in AllLaunchSteps(work.n) : work' = [work EXCEPT !.n = n]

Next ==
    \/ SendRequest \/ AskForSlot \/ FetchBars \/ TryCombination
    \/ ReadPage \/ FetchFlow \/ FetchBatch \/ KeepRows
    \/ WriteRow \/ AppendRow
    \/ AskForBreadth \/ AskForSectors \/ RefreshPool \/ ReadLocal
    \/ WriteMemory \/ TakeTurn
    \/ SyncMarket \/ FetchDaily \/ LiveOn \/ FillFlow \/ Launch

Spec == Init /\ [][Next]_work

-----------------------------------------------------------------------------
\* See HttpTransport and KlineFetch.
BarsComplete ==
    /\ work.of = "request" => RequestIsBounded(work.r)
    /\ work.of = "throttle" => SlotsAreSpaced(work.t)
    /\ work.of = "bars" => BarsAreComplete(work.f, work.listed)

\* See FullMarketSync and DataOperations.
SyncAccounted ==
    /\ work.of = "sync" => SyncIsAccounted(work.y)
    /\ work.of = "flowJob" => FlowJobIsAccounted(work.j)
FetchHonest ==
    /\ work.of = "daily" => FetchIsHonest(work.d)
    /\ work.of = "life" => LifeIsSound(work.l)
\* See Launcher.
ServiceIsSingle == work.of = "launch" => LaunchesAreSingle(work.n)
\* See Launcher.  The code does not keep to it: see the README, section 5.
NeverTwoServices == work.of = "launch" => OneServicePerCache(work.n)
\* See DataOperations.  The code does not keep to it: see the README, section 5.
ListedAreSynced == work.of = "life" => ListedIsSynced(work.l)

\* See FlowProviders.
FlowReported ==
    /\ work.of = "matrix" => MatrixIsBounded(work.m)
    /\ work.of = "history" => WalkIsComplete(work.w, work.listed)
    /\ work.of = "flow" => FlowIsReported(work.f)
    /\ work.of = "batch" => BatchIsAccounted(work.b)
    /\ work.of = "kept" => CacheIsRecent(work.history, work.kept, KeptMax)

\* See CoverageGaps.
GapsAgree ==
    work.of = "gaps" => /\ TotalsMatchStocks(work.frame, work.known)
                        /\ GapsAreFetched(work.frame, work.known)
\* warehouse.py:1105, the rule of the list is that of coverage().  The code does not
\* keep to it: see the README, section 5.
GapsAreListed == work.of = "gaps" => CountedAreListed(work.frame, work.known)
\* sync.py:118, the exemptions are those of coverage(), whose tail is never exempt
\* (warehouse.py:665).  The code does not keep to it: see the README, section 5.
SyncEndsGaps == work.of = "gaps" => SkippedAreCurrent(work.frame, work.known)

\* See Conditions.
ConditionsAgree == work.of = "strategy" => PrefilterIsExact(work.strategy, work.rows, work.first)
TextsAreDecided == work.of = "text" => TextsMeanWhatTheySay(work.text, work.days, work.rows)
\* condition_parser.py:13, the share of rising stocks is greater than 55%.  The code
\* takes the limit itself in: see the README, section 5.
WordsAreKept == work.of = "text" => LimitsAreLeftOut(work.text, work.days, work.rows)

\* See RealtimeSources.
SourcesAddUp ==
    /\ work.of = "breadth" => BreadthIsWhole(work.b)
    /\ work.of = "local" => LocalIsOfItsDay(work.l)
    /\ work.of = "sectors" => SectorsAreOfTheirRows(work.s)
    /\ work.of = "pool" => PoolIsWhole(work.y)

\* See Memory.
MemoryIsSound == work.of \in {"memory", "turns"} => MemoryIsKept(work.m) /\ StressedComesFirst(work.m)
\* memory.py:73, a strategy record is put before every conversation, and :82, an
\* update need not name a category.  The code files such a record as a fact:
\* see the README, section 5.
CategoriesStay == work.of = "memory" => KeepsItsCategory(work.m)
=============================================================================
