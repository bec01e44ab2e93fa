----------------------------- MODULE KlineFetch -----------------------------
(***************************************************************************)
(* The daily bars of one stock (data/astock_adapter.py, _fetch_one up to   *)
(* the first non-empty source): Tencent's pages walked backwards from the  *)
(* end of the window, Sina's newest bars, then Baidu.  Days are numbers; a *)
(* bar is its day.  The state of one fetch is a record.                    *)
(***************************************************************************)
EXTENDS Integers, FiniteSetsExt

CONSTANTS PageSize,      \* TENCENT_KLINE_MAX_COUNT
          MaxPages,      \* TENCENT_KLINE_MAX_PAGES
          WarmupDays,    \* KLINE_WARMUP_DAYS
          SinaMax,       \* SINA_KLINE_MAX_LENGTH
          SinaSlack      \* the 30 bars _sina_window_length adds

ASSUME KlineConstants ==
    /\ PageSize \in Nat \ {0} /\ MaxPages \in Nat \ {0} /\ WarmupDays \in Nat
    /\ SinaMax \in Nat \ {0} /\ SinaSlack \in Nat \ {0}

Newest(days, n) ==
    {d \in days : Cardinality({e \in days : e > d}) < n}

WarmupStart(start) == start - WarmupDays

\* _sina_window_length: 0.72 * 1.3 of the span, and the slack.
SinaWindow(start, end) == Max({SinaSlack, ((end - start) * 936) \div 1000 + SinaSlack})

-----------------------------------------------------------------------------
\* A fetch of the window start..end; board "bj" is not at Tencent.  rows are
\* the bars of the source that is being asked, walk how its walk ended.
NewFetch(board, start, end) ==
    [at |-> IF board = "bj" THEN "sina" ELSE "tencent",
     start |-> start, end |-> end,
     cursor |-> end, pages |-> 0, rows |-> {}, walk |-> "going", warned |-> FALSE,
     bars |-> {}, source |-> "none"]

\* The rows of a source, clipped to the window: accepted if any is left,
\* otherwise the next source is asked.
Accept(f, source, rows, following) ==
    LET clipped == {d \in rows : f.start <= d /\ d <= f.end}
    IN  IF clipped # {}
        THEN [f EXCEPT !.at = "done", !.bars = clipped, !.rows = rows, !.source = source]
        ELSE [f EXCEPT !.at = following, !.rows = {}]

\* The walk is over, with what it has.
EndWalk(f, why) == Accept([f EXCEPT !.walk = why], "tencent", f.rows, "sina")

\* An exception drops the pages read so far.
TencentFails(f) == [f EXCEPT !.at = "sina", !.rows = {}, !.walk = "raised"]

\* The tests before a page is asked for.
WalkMayAsk(f) == f.cursor >= WarmupStart(f.start) /\ f.pages < MaxPages

StopWalk(f) ==
    IF f.cursor < WarmupStart(f.start) THEN EndWalk(f, "covered") ELSE EndWalk(f, "capped")

BudgetOver(f) == EndWalk(f, "late")

\* A page that does not rewind the window is neither kept nor asked for again.
Rewinds(f, page) == f.rows = {} \/ Min(page) < Min(f.rows)

\* Mutant: the walk goes on two days before the oldest row of the page.
TencentPageSkips(f, page) ==
    LET gathered == [f EXCEPT !.pages = @ + 1, !.rows = @ \cup page]
    IN  IF page = {} THEN EndWalk(f, "empty")
        ELSE IF ~Rewinds(f, page) THEN EndWalk(gathered, "stuck")
        ELSE IF Min(page) <= WarmupStart(f.start) THEN EndWalk(gathered, "covered")
        ELSE [gathered EXCEPT !.cursor = Min(page) - 2]

TencentPage(f, page) ==
    LET asked    == [f EXCEPT !.pages = @ + 1]
        gathered == [asked EXCEPT !.rows = @ \cup page]
    IN  IF page = {} THEN EndWalk(asked, "empty")
        ELSE IF ~Rewinds(f, page) THEN EndWalk(asked, "stuck")
        ELSE IF Min(page) <= WarmupStart(f.start) THEN EndWalk(gathered, "covered")
        ELSE [gathered EXCEPT !.cursor = Min(page) - 1]

\* _fetch_sina_kline and _report_sina_under_coverage.
SinaRows(f, rows) ==
    LET needed  == SinaWindow(f.start, f.end)
        clamped == needed > SinaMax /\ rows # {} /\ Cardinality(rows) >= SinaMax
                   /\ Min(rows) > f.start
    IN  Accept([f EXCEPT !.warned = clamped], "sina", rows, "baidu")

SinaFails(f) == [f EXCEPT !.at = "baidu"]

BaiduRows(f, rows) == Accept(f, "baidu", rows, "done")

-----------------------------------------------------------------------------
(* The hosts.  `listed` are the days the stock traded, up to the newest.    *)

TencentAnswers(f, listed) ==
    Newest({d \in listed : WarmupStart(f.start) <= d /\ d <= f.cursor}, PageSize)

SinaAnswers(f, listed) == Newest(listed, Min({SinaWindow(f.start, f.end), SinaMax}))

BaiduAnswers(f, listed) == {d \in listed : d >= f.start}

\* What may happen next when every host that answers tells the truth; any of
\* them may fail, and Tencent may run out of time or repeat an earlier page.
FetchSteps(f, listed) ==
    CASE f.at = "tencent" /\ ~WalkMayAsk(f) -> {StopWalk(f)}
      [] f.at = "tencent" /\ WalkMayAsk(f) ->
            {TencentPage(f, TencentAnswers(f, listed)),
             TencentPage(f, Newest(listed, PageSize)),       \* `end` ignored
             TencentFails(f), BudgetOver(f)}
      [] f.at = "sina" -> {SinaRows(f, SinaAnswers(f, listed)), SinaFails(f)}
      [] f.at = "baidu" -> {BaiduRows(f, BaiduAnswers(f, listed)), BaiduRows(f, {})}
      [] OTHER -> {}

-----------------------------------------------------------------------------
(* What the fetch promises *)

Wanted(f, listed) == {d \in listed : f.start <= d /\ d <= f.end}

\* Bars that are accepted from Tencent without one of its warnings are all the
\* bars of the window, and of the warm-up, so that the first of them has a
\* previous close: nothing is dropped between two pages.  Bars from Sina that
\* end with the newest day are complete or the gap has been reported.  No bar is
\* made up or outside the window.
BarsAreComplete(f, listed) ==
    f.at = "done" =>
        /\ f.bars \subseteq Wanted(f, listed)
        /\ f.source = "tencent" /\ f.walk \in {"covered", "empty"} =>
              /\ f.bars = Wanted(f, listed)
              /\ {d \in listed : WarmupStart(f.start) <= d /\ d <= f.end} \subseteq f.rows
        /\ f.source = "sina" /\ f.end >= Max(listed) =>
              f.bars = Wanted(f, listed) \/ f.warned
============================================================================
