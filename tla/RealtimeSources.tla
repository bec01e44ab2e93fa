--------------------------- MODULE RealtimeSources ---------------------------
(***************************************************************************)
(* Where the parts of a market snapshot come from: the chain of sources of *)
(* the market breadth, that of the strong sectors, the refresh of          *)
(* yesterday's limit-up sectors behind the polls, and the snapshot of the  *)
(* local warehouse (realtime.py, realtime_parsers.py).  A chain runs       *)
(* within a budget that may be spent at any moment: `late` says that it is.*)
(***************************************************************************)
EXTENDS Integers, Sequences, FiniteSets, SequencesExt, TLC

CONSTANTS MinTotal,        \* MIN_FULL_MARKET_BREADTH_TOTAL
          Listed,          \* the stocks of the latest local day, numbered from 1
          BatchSize,       \* SINA_BREADTH_BATCH_SIZE
          MaxCount,        \* bound: the largest number a breadth source states
          Boards,          \* the rows a source of sectors may answer with
          MinBackupRows,   \* MIN_CONTROLLED_BACKUP_SECTOR_ROWS
          SectorLimit,     \* sectors kept
          PoolPage,        \* rows asked per page of yesterday's pool
          PoolPages,       \* pages asked at most
          MaxPool          \* bound: rows of yesterday's pool

\* A row counts stocks, and has at most one change.
ASSUME SourceAssumption ==
    /\ MinTotal \in Nat \ {0} /\ MaxCount \in Nat /\ IsFiniteSet(Listed) /\ BatchSize \in Nat \ {0}
    /\ \A row \in Boards : row.up \in Nat /\ row.down \in Nat /\ \A u, v \in row.change : u = v
    /\ \A row \in Boards : row.change \subseteq Int
    /\ MinBackupRows \in Nat /\ SectorLimit \in Nat \ {0}
    /\ PoolPage \in Nat \ {0} /\ PoolPages \in Nat \ {0} /\ MaxPool \in Nat

\* The elements of a finite set in the order of a relation, and a sequence sorted as
\* Python does it: what neither precedes the other stays as it was.
Ordered(S, Before(_, _)) ==
    [k \in 1..Cardinality(S) |-> CHOOSE i \in S : Cardinality({j \in S : Before(j, i)}) = k - 1]
Sorted(seq, Above(_, _)) ==
    LET order == Ordered(DOMAIN seq, LAMBDA i, j : Above(seq[i], seq[j]) \/ (~Above(seq[j], seq[i]) /\ i < j))
    IN  [k \in DOMAIN order |-> seq[order[k]]]
At(seq, positions) ==
    LET order == Ordered(positions, LAMBDA i, j : i < j) IN [k \in DOMAIN order |-> seq[order[k]]]

Optional(set) == {{}} \cup {{x} : x \in set}
OrZero(S) == IF S = {} THEN 0 ELSE CHOOSE x \in S : TRUE
NoBreadth == [source |-> "none", up |-> 0, down |-> 0, flat |-> 0, total |-> 0]
Breadth(source, up, down, flat) ==
    [source |-> source, up |-> up, down |-> down, flat |-> flat, total |-> up + down + flat]

-----------------------------------------------------------------------------
\* The sources of the breadth, each as what it makes of what it is answered.
\* CLS: a distribution lacks `flat` for zero, and is no answer without the rest.
FromDistribution(up, down, flat) ==
    IF up = {} \/ down = {} THEN NoBreadth
    ELSE Breadth("cls", OrZero(up), OrZero(down), OrZero(flat))

\* The industry table, page by page: a page that fails, is empty or adds nothing
\* ends it.  (A budget spent meanwhile drops it all, as if no page had come.)
IndustryRows(pages) ==
    LET cells == UNION {{p} \X DOMAIN pages[p] : p \in DOMAIN pages}
        Row(c) == pages[c[1]][c[2]]
        Before(c, d) == c[1] < d[1] \/ (c[1] = d[1] /\ c[2] < d[2])
        new == {c \in cells : Row(c).name # "" /\ \A d \in cells : Before(d, c) => Row(d).name # Row(c).name}
        over == {p \in DOMAIN pages : \A c \in new : c[1] # p}
        order == Ordered({c \in new : \A p \in over : c[1] < p}, Before)
    IN  [k \in DOMAIN order |-> Row(order[k])]

RowSum(rows, Of(_)) == SumFunction([i \in DOMAIN rows |-> Of(rows[i])])

\* The market summary: the numbers of its page, or else the sums of the
\* industry table, completed with the stocks known locally.
SummaryBreadth(page, rows, known) ==
    IF page # {} THEN LET p == CHOOSE p \in page : TRUE IN Breadth("summary", p[1], p[2], p[3])
    ELSE LET up == RowSum(rows, LAMBDA row : row.up)
             down == RowSum(rows, LAMBDA row : row.down)
         IN  IF up + down = 0 THEN NoBreadth
             ELSE Breadth("summary", up, down, IF known >= up + down THEN known - up - down ELSE 0)

\* The signed distribution: without a cookie nothing is asked; of the addresses
\* asked in time the first that answers with both numbers is taken.
FlashBreadth(cookie, answers) ==
    LET usable == {i \in DOMAIN answers : answers[i] # <<>>}
        taken == {i \in usable : \A j \in usable : i <= j}
    IN  IF ~cookie \/ taken = {} THEN NoBreadth
        ELSE LET a == answers[CHOOSE i \in taken : TRUE] IN Breadth("flash", a[1], a[2], 0)

\* The frame of AKShare and the rows of Eastmoney: one direction per usable row.
FrameBreadth(source, rows) ==
    LET Those(d) == Cardinality({i \in DOMAIN rows : rows[i] = d})
    IN  IF Those("up") + Those("down") + Those("flat") = 0 THEN NoBreadth
        ELSE Breadth(source, Those("up"), Those("down"), Those("flat"))

\* The quotes of the local stocks, batch by batch, within a budget of its own.
NewQuotes(source) == [source |-> source, batch |-> 0, of |-> [s \in Listed |-> "none"]]
Batches == (Cardinality(Listed) + BatchSize - 1) \div BatchSize
Batch(q) == {s \in Listed : (s - 1) \div BatchSize = q.batch}
Quotes(q) == [Batch(q) -> {"up", "down", "flat", "zero", "bad"}]

\* "zero" is a quote without a last price: Sina's reader skips it, Tencent's
\* counts it as a fall; "bad" is one without numbers.
Direction(source, quote) ==
    CASE quote = "zero" -> IF source = "sina" THEN "none" ELSE "down"
      [] quote = "bad" -> "none"
      [] OTHER -> quote
ReadBatch(q, quotes) ==
    [q EXCEPT !.batch = @ + 1,
              !.of = [s \in Listed |-> IF s \in DOMAIN quotes THEN Direction(q.source, quotes[s])
                                       ELSE q.of[s]]]
Quoted(q, d) == Cardinality({s \in Listed : q.of[s] = d})
QuotesBreadth(q) ==
    IF \A s \in Listed : q.of[s] = "none" THEN NoBreadth
    ELSE Breadth(q.source, Quoted(q, "up"), Quoted(q, "down"), Quoted(q, "flat"))

-----------------------------------------------------------------------------
\* The chain of the breadth.
BreadthOrder(backup) ==
    <<"cls", "summary", "flash", "sina", "tencent", "akshare", "heavy">>
        \o (IF backup THEN <<"eastmoney">> ELSE <<>>)

NewBreadth(backup, stocks, cached) ==
    [at |-> "asking", order |-> BreadthOrder(backup), next |-> 1,
     late |-> {},               \* the source that was being asked when the budget was spent
     stocks |-> stocks,         \* stocks of the latest local day: none, or those of Listed
     cached |-> cached,         \* the cached size of the warehouse, -1 when not warm
     known |-> {},              \* the local count the chain has memorised
     quotes |-> NewQuotes("none"), got |-> NoBreadth]

FullMarket(breadth, known) ==
    /\ breadth.total > 0 /\ breadth.total >= MinTotal
    /\ known >= MinTotal => breadth.total >= (known * 65) \div 100

\* Mutant: a sample is weighed against the local stocks alone, cold count or not.
WeighLocally(b, breadth) ==
    LET known == IF b.cached > b.stocks THEN b.cached ELSE b.stocks
    IN  IF breadth.total > 0 /\ breadth.total * 100 >= known * 65
        THEN [b EXCEPT !.at = "done", !.got = breadth] ELSE [b EXCEPT !.next = @ + 1]

\* What the chain makes of a source's answer.
Weigh(b, breadth) ==
    LET known == IF b.known # {} THEN b.known
                 ELSE {IF b.cached > b.stocks THEN b.cached ELSE b.stocks}
        taken == [b EXCEPT !.at = "done", !.got = breadth]
    IN  IF breadth = NoBreadth THEN [b EXCEPT !.next = @ + 1]
        ELSE IF (breadth.source = "cls" /\ breadth.total > 0) \/ breadth.total >= MinTotal THEN taken
        ELSE IF FullMarket(breadth, CHOOSE n \in known : TRUE) THEN [taken EXCEPT !.known = known]
        ELSE [b EXCEPT !.next = @ + 1, !.known = known]

\* The answers of a source that does not ask for quotes, one failing among them.
Small == 0..2
FlashReplies == {<<>>} \cup (Small \X Small)
Pages == SeqOf(Boards, 2)
Directions == {"up", "down", "flat", "bad"}
Answers(b, source) ==
    {NoBreadth} \cup
    CASE source = "cls" ->
           {FromDistribution(u, d, f) : u \in Optional(Small), d \in Optional(Small), f \in Optional(Small)}
      [] source = "summary" ->
           {SummaryBreadth({p}, <<>>, b.stocks) : p \in Small \X Small \X Small}
             \cup {SummaryBreadth({}, IndustryRows(pages), b.stocks) : pages \in SeqOf(Pages, 2)}
      [] source = "flash" -> {FlashBreadth(cookie, answers) : cookie \in BOOLEAN, answers \in SeqOf(FlashReplies, 2)}
      [] source \in {"akshare", "eastmoney"} ->
           {FrameBreadth(source, rows) : rows \in SeqOf(Directions, MaxCount)}
      [] OTHER -> {Breadth(source, u, d, 0) : u \in Small, d \in Small}

BreadthSource(b) == b.order[b.next]
Asked(b) == b.at \in {"asking", "quoting"} /\ b.next <= Len(b.order)

Dropped(b, late) ==
    [b EXCEPT !.at = "asking", !.quotes = NewQuotes("none"), !.next = @ + 1, !.late = late]
Quoting(b, quotes, late) == [b EXCEPT !.quotes = ReadBatch(@, quotes), !.late = late]

\* The chain looks at its budget between two sources and at no other time.
BreadthSteps(b) ==
    LET done == [b EXCEPT !.at = "done"]
        late == IF b.late = {} THEN {{}, {b.next}} ELSE {b.late}
        quoting == BreadthSource(b) \in {"sina", "tencent"}
        over == [b EXCEPT !.at = "asking", !.quotes = NewQuotes("none")]
        ended == b.next > Len(b.order) \/ b.late # {}
    IN  CASE b.at = "done" -> {}
          [] b.at = "asking" /\ ended -> {done}
          [] b.at = "asking" /\ ~ended /\ ~quoting ->
               {[Weigh(b, a) EXCEPT !.late = l] : a \in Answers(b, BreadthSource(b)), l \in late}
          [] b.at = "asking" /\ ~ended /\ quoting ->
               IF b.stocks = 0 THEN {[b EXCEPT !.next = @ + 1]}
               ELSE {[b EXCEPT !.at = "quoting", !.quotes = NewQuotes(BreadthSource(b))]}
          [] b.at = "quoting" /\ b.quotes.batch = Batches ->
               LET weighed == Weigh(over, QuotesBreadth(b.quotes))
               IN  {IF weighed.at = "done" THEN [weighed EXCEPT !.quotes = b.quotes] ELSE weighed}
          [] b.at = "quoting" /\ b.quotes.batch # Batches ->
               \* a batch that fails, or a budget that is spent, drops them all
               {Dropped(b, l) : l \in late}
                 \cup {Quoting(b, quotes, l) : quotes \in Quotes(b.quotes), l \in late}

-----------------------------------------------------------------------------
\* The chain of the sectors.  A row has a name, perhaps a change, the stocks
\* that rose and fell in it, and its members where the source lists them.
SectorOrder == <<"cls", "concept", "industry", "sina", "akshare", "akshare-industry",
                 "eastmoney", "eastmoney-industry", "hot">>
BackupTries == 3 * 2          \* hosts of Eastmoney, and spellings of a board's filter

Usable(row) == row.name # "" /\ row.change # {}
UsableRows(rows) == At(rows, {i \in DOMAIN rows : Usable(rows[i])})
ParseSectors(rows) ==
    LET usable == UsableRows(rows)
    IN  [i \in DOMAIN usable |-> [name |-> usable[i].name, change |-> OrZero(usable[i].change)]]
FirstOfName(rows, i) == \A j \in 1..(i - 1) : rows[j].name # rows[i].name
Distinct(rows) == At(rows, {i \in DOMAIN rows : rows[i].name # "" /\ FirstOfName(rows, i)})
DedupeSectors(sectors, limit) ==
    LET distinct == Distinct(sectors) IN SubSeq(distinct, 1, IF Len(distinct) < limit THEN Len(distinct) ELSE limit)

\* The topics stocks rose for: the more stocks the higher, then the larger gain.
HotTopics(stocks) ==
    LET Of(t) == {i \in DOMAIN stocks : t \in stocks[i].topics}
        Gain(t) == SumFunction([i \in Of(t) |-> OrZero(stocks[i].gain)])
        Above(t, u) == \/ Cardinality(Of(t)) > Cardinality(Of(u))
                       \/ Cardinality(Of(t)) = Cardinality(Of(u)) /\ Gain(t) > Gain(u)
        ranked == Sorted(SetToSeq(UNION {stocks[i].topics : i \in DOMAIN stocks}), Above)
    IN  [i \in DOMAIN ranked |-> [name |-> ranked[i], members |-> {stocks[j].stock : j \in Of(ranked[i])}]]

\* Of two concept boards the one that rose more comes first; a change of zero
\* ranks as none at all.
Ranked(rows) ==
    LET Key(row) == IF OrZero(row.change) = 0 THEN -1000 ELSE OrZero(row.change)
    IN  Sorted(rows, LAMBDA r, s : Key(r) > Key(s))

\* What a source makes of its answer; hot topics are rows of another kind.
SourceRows(source, answer) ==
    CASE source = "concept" -> Ranked(Distinct(answer))
      [] source \in {"sina", "akshare", "akshare-industry"} -> UsableRows(answer)
      [] source \in {"eastmoney", "eastmoney-industry"} ->
           LET valid == UsableRows(answer) IN IF Len(valid) < MinBackupRows THEN <<>> ELSE valid
      [] OTHER -> answer

HotStocks == {[topics |-> t, stock |-> s, gain |-> g] : t \in {{"A"}, {"A", "B"}}, s \in {1, 2}, g \in Optional({1})}
SourceAnswers(source) ==
    CASE source = "industry" -> {IndustryRows(pages) : pages \in SeqOf(Pages, 2)}
      [] source = "hot" -> {HotTopics(stocks) : stocks \in SeqOf(HotStocks, 2)}
      [] OTHER -> SeqOf(Boards, 3)

NewSectors == [at |-> "asking", next |-> 1, tries |-> 0, late |-> FALSE,
               rows |-> <<>>,      \* sector_rows_out, which the local snapshot groups by
               by |-> "none", got |-> <<>>]

\* Mutant: rows are published whatever became of the budget.
SettledLate(s, source, rows, late) ==
    LET sectors == IF source = "hot" THEN <<>> ELSE ParseSectors(rows)
        published == [s EXCEPT !.at = "done", !.late = late, !.rows = rows, !.by = source]
    IN  CASE source = "hot" -> published
          [] source # "hot" /\ sectors = <<>> -> [s EXCEPT !.next = @ + 1, !.tries = 0, !.late = late]
          [] OTHER -> [published EXCEPT !.got = DedupeSectors(sectors, SectorLimit)]

\* A source's rows: published and taken only within the budget.  The chain does
\* not look at it between the requests to Eastmoney.
Settled(s, source, rows, late) ==
    LET sectors == IF source = "hot" THEN <<>> ELSE ParseSectors(rows)
        stopped == [s EXCEPT !.at = "done", !.late = late]
        published == [stopped EXCEPT !.rows = IF source = "sina" THEN <<>> ELSE rows, !.by = source]
    IN  IF late /\ source \in {"concept", "industry", "hot"} THEN stopped
        ELSE IF source = "hot" THEN IF rows = <<>> THEN stopped ELSE published
        ELSE IF sectors = <<>>
        THEN IF source \in {"eastmoney", "eastmoney-industry"} /\ s.tries + 1 < BackupTries
             THEN [s EXCEPT !.tries = @ + 1, !.late = late]
             ELSE [s EXCEPT !.next = @ + 1, !.tries = 0, !.late = late]
        ELSE IF late THEN stopped
        ELSE [published EXCEPT !.got = DedupeSectors(sectors, SectorLimit)]

SectorSteps(s) ==
    CASE s.at = "done" -> {}
      [] s.at # "done" /\ s.late /\ s.tries = 0 -> {[s EXCEPT !.at = "done"]}
      [] OTHER -> {Settled(s, SectorOrder[s.next], SourceRows(SectorOrder[s.next], a), late) :
                     a \in SourceAnswers(SectorOrder[s.next]), late \in {s.late, TRUE}}

-----------------------------------------------------------------------------
\* Yesterday's limit-up sectors: a poll takes what is cached for its day, and
\* has it refreshed in the background, one refresh at a time, when that is old.
\* The service holds `pool` rows for every day and hands out `per` of a page.
NewPool(pool, per, declares) ==
    [pool |-> pool, per |-> per, declares |-> declares, day |-> 1,
     cache |-> [day |-> 0, of |-> 0, rows |-> 0], aged |-> FALSE,
     flight |-> FALSE, walk |-> {}, asked |-> 0, shown |-> 0]

PollPool(y) ==
    LET has == y.cache.day = y.day
        seen == [y EXCEPT !.asked = y.day, !.shown = IF has THEN y.cache.of ELSE 0]
        started == [seen EXCEPT !.flight = TRUE, !.walk = {[at |-> "queued", day |-> 0, page |-> 0, rows |-> 0]}]
    IN  IF (has /\ ~y.aged) \/ y.flight THEN {seen} ELSE {started, seen}   \* or it cannot be submitted

\* The days are taken when the worker starts, not when the poll scheduled it.
StartWalk(y, w) ==
    IF y.cache.day = y.day /\ ~y.aged THEN [y EXCEPT !.flight = FALSE, !.walk = {}]
    ELSE [y EXCEPT !.walk = {[w EXCEPT !.at = "walking", !.day = y.day]}]

Released(y) == [y EXCEPT !.flight = FALSE, !.walk = {}]
Cached(y, w) ==
    [Released(y) EXCEPT !.cache = [day |-> w.day, of |-> w.day, rows |-> w.rows], !.aged = FALSE]

\* A page that fails, comes too late or is no list ends the walk: what was read
\* so far is used by nobody.  Rows without a sector make no result.
PageCounts(y) == (y.pool + y.per - 1) \div y.per
\* Mutant: what was read of the pool is cached, whole or not.
CachePartialPool(y, w) ==
    LET left == y.pool - w.page * y.per
        served == IF left < 0 THEN 0 ELSE IF left > y.per THEN y.per ELSE left
        read == [w EXCEPT !.page = @ + 1, !.rows = @ + served]
        more == IF y.declares = "nothing" THEN served >= PoolPage ELSE read.rows < y.pool
    IN  {Released(y)} \cup {IF more /\ read.page < PoolPages THEN [y EXCEPT !.walk = {read}] ELSE Cached(y, read)}

ReadPoolPage(y, w) ==
    LET left == y.pool - w.page * y.per
        served == IF left < 0 THEN 0 ELSE IF left > y.per THEN y.per ELSE left
        read == [w EXCEPT !.page = @ + 1, !.rows = @ + served]
        more == CASE y.declares = "total" -> read.rows < y.pool
                  [] y.declares = "pages" -> read.page < PageCounts(y)
                  [] OTHER -> served >= PoolPage
        empty == read.rows = 0 /\ y.declares # "total"
    IN  {Released(y)}
          \cup IF more THEN IF served = 0 \/ read.page = PoolPages THEN {} ELSE {[y EXCEPT !.walk = {read}]}
               ELSE IF empty THEN {} ELSE {Cached(y, read)}

PoolSteps(y) ==
    PollPool(y) \cup (IF y.cache.day # 0 /\ ~y.aged THEN {[y EXCEPT !.aged = TRUE]} ELSE {})
      \cup (IF y.day < 2 THEN {[y EXCEPT !.day = 2]} ELSE {})
      \cup UNION {IF w.at = "queued" THEN {StartWalk(y, w)} ELSE ReadPoolPage(y, w) : w \in y.walk}

-----------------------------------------------------------------------------
\* The local snapshot: the last three days of the warehouse, a day a function
\* from its stocks to their bars, and the boards grouped by their members.
NewLocal == [frame |-> <<>>, at |-> "reading", next |-> 1, late |-> {},
             members |-> [b \in {} |-> {}], groups |-> [today |-> <<>>, yesterday |-> <<>>]]

\* Against the close of the day before, or the day's own open without one.
PreviousClose(frame, day, s) ==
    IF day > 1 /\ s \in DOMAIN frame[day - 1] THEN frame[day - 1][s].close ELSE frame[day][s].open
LocalChange(frame, day, s) == (frame[day][s].close * 100) \div PreviousClose(frame, day, s) - 100

LocalBreadth(frame) ==
    LET day == Len(frame)
        Those(Is(_)) == Cardinality({s \in DOMAIN frame[day] : Is(LocalChange(frame, day, s))})
    IN  Breadth("local", Those(LAMBDA c : c > 0), Those(LAMBDA c : c < 0), Those(LAMBDA c : c = 0))
ShownLocally(breadth, cached) == FullMarket(breadth, IF cached < 0 THEN 0 ELSE cached)

\* Yesterday's groups need the day before it.
GroupDay(frame, which) ==
    IF which = "today" THEN Len(frame) ELSE IF Len(frame) >= 3 THEN Len(frame) - 1 ELSE 0

GroupOf(frame, day, name, members) ==
    LET stocks == members \cap DOMAIN frame[day]
        Change(s) == LocalChange(frame, day, s)
    IN  [name |-> name, stocks |-> stocks,
         sum |-> SumFunction([s \in stocks |-> Change(s)]),
         leader |-> CHOOSE s \in stocks : \A t \in stocks : Change(t) <= Change(s)]

\* The board whose stocks gained more on average comes first.
Gained(g, h) == g.sum * Cardinality(h.stocks) > h.sum * Cardinality(g.stocks)

\* Mutant: members are kept without a second look at the budget.
MembersKeptLate(l, board, read) ==
    IF board.members # {} \/ board.name \in DOMAIN l.members THEN l
    ELSE [l EXCEPT !.members = (board.name :> read) @@ @]

\* The members of a board come from its row, from the cache, or from a page that
\* may fail; they are kept for later requests unless the budget is spent.
WithMembers(l, board, read) ==
    IF board.members # {} \/ board.name \in DOMAIN l.members \/ l.late # {} THEN l
    ELSE [l EXCEPT !.members = (board.name :> read) @@ @]
MembersOf(l, board, read) ==
    IF board.members # {} THEN board.members
    ELSE IF board.name \in DOMAIN l.members THEN l.members[board.name] ELSE read

Grouped(l, which, board, read) ==
    LET day == GroupDay(l.frame, which)
        members == MembersOf(l, board, read)
    IN  IF members \cap DOMAIN l.frame[day] = {} THEN WithMembers(l, board, read)
        ELSE [WithMembers(l, board, read) EXCEPT
                !.groups[which] = Sorted(Append(@, GroupOf(l.frame, day, board.name, members)), Gained)]

\* One board of a day, with what its page may answer.
NextGroup(l, which, board) ==
    IF board.name = "" \/ GroupDay(l.frame, which) = 0 THEN {[l EXCEPT !.next = @ + 1]}
    ELSE {[Grouped(l, which, board, read) EXCEPT !.next = @ + 1] : read \in {{}, {1, 2}}}

\* Today's groups, then yesterday's, over the same boards.
LocalSteps(l, boards, days) ==
    LET spent == IF l.late = {} THEN {l, [l EXCEPT !.late = {l.members}]} ELSE {l}
        n == Len(boards)
        Step(which, board) == UNION {NextGroup(m, which, board) : m \in spent}
    IN  CASE l.at = "reading" ->
               (IF l.frame = <<>> THEN {} ELSE {[l EXCEPT !.at = "grouping"]})
                 \cup IF Len(l.frame) = 3 THEN {} ELSE {[l EXCEPT !.frame = Append(@, day)] : day \in days}
          [] l.at = "grouping" /\ l.next <= n -> Step("today", boards[l.next])
          [] l.at = "grouping" /\ n < l.next /\ l.next <= 2 * n -> Step("yesterday", boards[l.next - n])
          [] OTHER -> {}

-----------------------------------------------------------------------------
\* The breadth shown adds up, is no sample (but for the distribution of CLS,
\* taken as it is), and came from a source asked within the budget; one made of
\* quotes had every batch of them answered and counts a stock once.
BreadthIsWhole(b) ==
    /\ \A i \in b.late : b.next <= i + 1
    /\ b.got # NoBreadth =>
         /\ b.got.total = b.got.up + b.got.down + b.got.flat /\ b.got.flat >= 0
         /\ b.got.source = b.order[b.next] /\ b.got.total > 0
         /\ b.got.source # "cls" => b.got.total >= MinTotal
         /\ b.got.source \in {"sina", "tencent"} =>
              /\ b.quotes.source = b.got.source /\ b.quotes.batch = Batches
              /\ b.got.total = Cardinality({s \in Listed : b.quotes.of[s] # "none"})

\* Sectors are shown with the rows they were made of, once each; rows without
\* sectors are topics; and nothing is published once the budget is spent.
SectorsAreOfTheirRows(s) ==
    /\ s.by # "none" => ~s.late
    /\ s.got = <<>> /\ s.rows # <<>> => s.by = "hot"
    /\ s.got # <<>> =>
         /\ Len(s.got) <= SectorLimit /\ Cardinality({s.got[i].name : i \in DOMAIN s.got}) = Len(s.got)
         /\ s.by = "sina" \/ \A i \in DOMAIN s.got : \E j \in DOMAIN s.rows :
              s.rows[j].name = s.got[i].name /\ s.rows[j].change = {s.got[i].change}
         /\ s.by \in {"eastmoney", "eastmoney-industry"} => Len(s.rows) >= MinBackupRows

\* What is cached is the whole pool of the day it is cached for (as far as the
\* service lets one know), a poll shows that of its own day, and one refresh
\* runs at a time and none is lost.
PoolIsWhole(y) ==
    /\ y.cache.day = y.cache.of
    /\ y.cache.day # 0 /\ (y.declares # "nothing" \/ y.per >= PoolPage) => y.cache.rows = y.pool
    /\ y.shown \in {0, y.asked}
    /\ y.flight <=> y.walk # {}

\* A board of a day counts stocks of that day only and is led by the one that
\* rose most, boards come in the order of their means, the breadth counts every
\* stock of the day, and no member list is kept that was read past the budget.
LocalIsOfItsDay(l) ==
    /\ l.frame # <<>> => LocalBreadth(l.frame).total = Cardinality(DOMAIN l.frame[Len(l.frame)])
    /\ \A known \in l.late : l.members = known
    /\ \A which \in {"today", "yesterday"} : LET day == GroupDay(l.frame, which) IN
         \A i \in DOMAIN l.groups[which] : LET g == l.groups[which][i] IN
           /\ g.stocks \subseteq DOMAIN l.frame[day] /\ g.leader \in g.stocks
           /\ \A s \in g.stocks : LocalChange(l.frame, day, s) <= LocalChange(l.frame, day, g.leader)
           /\ i > 1 => l.groups[which][i - 1].sum * Cardinality(g.stocks)
                         >= g.sum * Cardinality(l.groups[which][i - 1].stocks)
=============================================================================
