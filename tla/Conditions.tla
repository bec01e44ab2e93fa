----------------------------- MODULE Conditions -----------------------------
(***************************************************************************)
(* Conditions on a stock's rows: the text a user writes is parsed into a   *)
(* node; a node is decided twice, by an evaluator for one row and by a     *)
(* vectorised mask for all of them.  The backtest asks the masks first and *)
(* the evaluators only about what they let through; the screening tool     *)
(* asks the masks alone.                                                   *)
(*                                                                         *)
(* rows is the history of one stock, oldest first.  A cell that may lack   *)
(* its value is the set of its values, {} or {v}, so that a comparison     *)
(* with a missing value is false, as it is with NaN.  Fractions are in     *)
(* thousandths, and a quotient is compared by its product.                 *)
(***************************************************************************)
EXTENDS Integers, Sequences, FiniteSetsExt, SequencesExt

\* The conditions that are registered; the evaluator raises on any other.
ConditionIds ==
    {"flow sum at least", "flow sum at most", "flow today at least", "flow today at most", "positive count",
     "market cap", "turnover", "rising ratio", "histogram", "above ma", "below ma", "return at most",
     "return between", "volume ratio", "breakout", "breakdown", "dead cross"}

\* A node of a strategy; what its condition has no use for is 0.
ConditionNode ==
    [id : ConditionIds, window : Nat, lo : Int, hi : Int, enabled : BOOLEAN, lag : Nat, weight : Int]

-----------------------------------------------------------------------------
(* The columns enrich_for_strategy adds, at row i.  A rolling window of w    *)
(* rows has a value only when it is full and all its values are there.       *)

\* w times the moving average.
MovingAverage(rows, i, w) == IF i < w THEN {} ELSE {SumFunction([j \in i - w + 1..i |-> rows[j].close])}

\* pct_change(w), as the pair of closes it is made of.
Returns(rows, i, w) == IF i <= w THEN {} ELSE {<<rows[i].close, rows[i - w].close>>}

\* The sum of the w volumes before row i.
PriorVolume(rows, i, w) ==
    IF i <= w THEN {} ELSE {SumFunction([j \in i - w..i - 1 |-> rows[j].volume])} \ {0}

FlowSum(rows, i, w) ==
    IF i < w \/ \E j \in i - w + 1..i : rows[j].flow = {} THEN {}
    ELSE {SumFunction([j \in i - w + 1..i |-> CHOOSE v \in rows[j].flow : TRUE])}

\* A missing flow is not positive, and counts as a day.
PositiveCount(rows, i, w) ==
    IF i < w THEN {} ELSE {Cardinality({j \in i - w + 1..i : \E v \in rows[j].flow : v > 0})}

\* Mutant: the day itself is among the days before it.
PriorHighWithToday(rows, i, w) == IF i < w THEN {} ELSE {Max({rows[j].high : j \in i - w + 1..i})}

\* The extreme of no rows is no value.
PriorHigh(rows, i, w) == IF i <= w \/ w = 0 THEN {} ELSE {Max({rows[j].high : j \in i - w..i - 1})}
PriorLow(rows, i, w) == IF i <= w \/ w = 0 THEN {} ELSE {Min({rows[j].low : j \in i - w..i - 1})}

\* Mutant: the difference itself.
HistogramOnce(row) == row.dif - row.dea

\* macd_hist, twice the difference.
Histogram(row) == 2 * (row.dif - row.dea)

-----------------------------------------------------------------------------
(* The evaluators                                                           *)

\* turnover_rate is a percentage, a parameter a fraction; both codes use it.
TurnoverRatio(rate) == rate * 10

Within(n, cell) == \E v \in cell : n.lo <= v /\ v <= n.hi

EvaluateFlow(n, rows, i) ==
    CASE n.id = "flow sum at least" -> \E v \in FlowSum(rows, i, n.window) : v >= n.lo
      [] n.id = "flow sum at most" -> \E v \in FlowSum(rows, i, n.window) : v <= n.hi
      [] n.id = "flow today at least" -> \E v \in rows[i].flow : v >= n.lo
      [] n.id = "flow today at most" -> \E v \in rows[i].flow : v <= n.hi
      [] n.id = "positive count" -> \E v \in PositiveCount(rows, i, n.window) : v >= n.lo
      [] OTHER -> FALSE

EvaluateLevel(n, rows, i) ==
    CASE n.id = "market cap" -> Within(n, rows[i].cap)
      [] n.id = "turnover" -> \E v \in rows[i].turnover : n.lo <= TurnoverRatio(v) /\ TurnoverRatio(v) <= n.hi
      [] n.id = "rising ratio" -> rows[i].heat >= n.lo
      [] n.id = "histogram" -> Histogram(rows[i]) >= n.lo
      [] OTHER -> FALSE

\* The difference to the average, the return and the volume ratio are computed first.
EvaluateTrend(n, rows, i) ==
    CASE n.id = "above ma" -> \E m \in MovingAverage(rows, i, n.window) : n.window * rows[i].close - m > 0
      [] n.id = "below ma" -> \E m \in MovingAverage(rows, i, n.window) : n.window * rows[i].close - m < 0
      [] n.id \in {"return at most", "return between"} ->
           \E r \in Returns(rows, i, n.window) :
             /\ 1000 * (r[1] - r[2]) <= n.hi * r[2]
             /\ n.id = "return between" => n.lo * r[2] <= 1000 * (r[1] - r[2])
      [] n.id = "volume ratio" ->
           \E p \in PriorVolume(rows, i, n.window) :
             n.lo * p <= n.window * rows[i].volume /\ n.window * rows[i].volume <= n.hi * p
      [] OTHER -> FALSE

\* first is the first row of the window that is back-tested: the rows before it have
\* entered the columns, and are not in the frame the evaluator is given.
EvaluatePattern(n, rows, first, i) ==
    CASE n.id = "breakout" -> \E h \in PriorHigh(rows, i, n.window) : rows[i].close - h > 0
      [] n.id = "breakdown" -> \E l \in PriorLow(rows, i, n.window) : rows[i].close - l < 0
      [] n.id = "dead cross" ->
           i > first /\ rows[i - 1].dif >= rows[i - 1].dea /\ rows[i].dif < rows[i].dea
      [] OTHER -> FALSE

Evaluate(n, rows, first, i) ==
    EvaluateFlow(n, rows, i) \/ EvaluateLevel(n, rows, i)
        \/ EvaluateTrend(n, rows, i) \/ EvaluatePattern(n, rows, first, i)

\* A node that lags is decided on an earlier row of the frame.
EvaluateCondition(n, rows, first, i) ==
    \/ ~n.enabled
    \/ n.enabled /\ i - n.lag >= first /\ Evaluate(n, rows, first, i - n.lag)

ScoreOf(group, rows, first, i) ==
    SumFunction([k \in DOMAIN group.nodes |->
                   IF EvaluateCondition(group.nodes[k], rows, first, i) THEN group.nodes[k].weight ELSE 0])

\* A group that scores passes from the threshold on, and never without one.
EvaluateGroup(group, threshold, rows, first, i) ==
    CASE group.op = "and" -> \A k \in DOMAIN group.nodes : EvaluateCondition(group.nodes[k], rows, first, i)
      [] group.op = "or" -> \E k \in DOMAIN group.nodes : EvaluateCondition(group.nodes[k], rows, first, i)
      [] group.op = "score" -> \E t \in threshold : ScoreOf(group, rows, first, i) >= t

PassesMarketFilters(strategy, rows, first, i) ==
    \A k \in DOMAIN strategy.filters : EvaluateCondition(strategy.filters[k], rows, first, i)
PassesEntry(strategy, rows, first, i) ==
    \A k \in DOMAIN strategy.groups : EvaluateGroup(strategy.groups[k], strategy.threshold, rows, first, i)
Passes(strategy, rows, first, i) ==
    PassesMarketFilters(strategy, rows, first, i) /\ PassesEntry(strategy, rows, first, i)

-----------------------------------------------------------------------------
(* The masks, over a frame that begins at row first                         *)

MaskFlow(n, rows, i) ==
    CASE n.id = "flow sum at least" -> \E v \in FlowSum(rows, i, n.window) : v >= n.lo
      [] n.id = "flow sum at most" -> \E v \in FlowSum(rows, i, n.window) : v <= n.hi
      [] n.id = "flow today at least" -> \E v \in rows[i].flow : v >= n.lo
      [] n.id = "flow today at most" -> \E v \in rows[i].flow : v <= n.hi
      [] n.id = "positive count" -> \E v \in PositiveCount(rows, i, n.window) : v >= n.lo
      [] OTHER -> FALSE

MaskColumn(n, rows, i) ==
    CASE n.id = "market cap" -> Within(n, rows[i].cap)
      [] n.id = "turnover" -> Within(n, {TurnoverRatio(v) : v \in rows[i].turnover})
      [] n.id = "rising ratio" -> rows[i].heat >= n.lo
      [] n.id = "histogram" -> Histogram(rows[i]) >= n.lo
      [] n.id = "above ma" -> \E m \in MovingAverage(rows, i, n.window) : n.window * rows[i].close > m
      [] n.id = "below ma" -> \E m \in MovingAverage(rows, i, n.window) : n.window * rows[i].close < m
      [] n.id = "return at most" ->
           \E r \in Returns(rows, i, n.window) : 1000 * r[1] <= (1000 + n.hi) * r[2]
      [] n.id = "return between" ->
           \E r \in Returns(rows, i, n.window) :
             (1000 + n.lo) * r[2] <= 1000 * r[1] /\ 1000 * r[1] <= (1000 + n.hi) * r[2]
      [] n.id = "volume ratio" ->
           \E p \in PriorVolume(rows, i, n.window) : n.window * rows[i].volume \in n.lo * p..n.hi * p
      [] n.id = "breakout" -> \E h \in PriorHigh(rows, i, n.window) : rows[i].close > h
      [] n.id = "breakdown" -> \E l \in PriorLow(rows, i, n.window) : rows[i].close < l
      [] OTHER -> FALSE

\* shift(1) within the frame.
MaskDeadCross(n, rows, first, i) ==
    LET shifted == IF i = first THEN {} ELSE {rows[i - 1]}
    IN  n.id = "dead cross" /\ rows[i].dif < rows[i].dea /\ \E p \in shifted : p.dif >= p.dea

Mask(n, rows, first, i) == MaskFlow(n, rows, i) \/ MaskColumn(n, rows, i) \/ MaskDeadCross(n, rows, first, i)

\* Mutant: what lags is masked by the row itself.
FilterIgnoringLag(n, rows, first, i) == ~n.enabled \/ Mask(n, rows, first, i)

FilterMask(n, rows, first, i) == ~n.enabled \/ n.lag > 0 \/ Mask(n, rows, first, i)

CandidatePrefilter(strategy, rows, first, i) ==
    /\ \A k \in DOMAIN strategy.filters : FilterMask(strategy.filters[k], rows, first, i)
    /\ \A k \in DOMAIN strategy.groups :
         LET g == strategy.groups[k]
         IN  CASE g.op = "score" -> TRUE
               [] g.op = "or" -> \E m \in DOMAIN g.nodes : FilterMask(g.nodes[m], rows, first, i)
               [] OTHER -> \A m \in DOMAIN g.nodes : FilterMask(g.nodes[m], rows, first, i)

\* screen_stocks, of the last row of the whole history; it refuses nodes that lag.
Screened(nodes, rows) == \A k \in DOMAIN nodes : Mask(nodes[k], rows, 1, Len(rows))

-----------------------------------------------------------------------------
(* Texts: [says, window, lo, hi, units, strict], window a numeral (a sequence *)
(* of its characters, d7 the digit 7 and qi the Chinese one), the amounts as  *)
(* they are written, their two units, and whether the words leave the limit   *)
(* itself out (greater than, above, less than, below) or take it in.          *)

DecimalDigits == [d0 |-> 0, d1 |-> 1, d2 |-> 2, d3 |-> 3, d4 |-> 4, d5 |-> 5, d6 |-> 6, d7 |-> 7, d8 |-> 8, d9 |-> 9]
ChineseDigits == [ling |-> 0, yi |-> 1, er |-> 2, liang |-> 2, san |-> 3, si |-> 4, wu |-> 5,
                  liu |-> 6, qi |-> 7, ba |-> 8, jiu |-> 9]
Digit(c) == IF c \in DOMAIN ChineseDigits THEN ChineseDigits[c] ELSE 0

DecimalValue(numeral) ==
    LET value[k \in 0..Len(numeral)] == IF k = 0 THEN 0 ELSE 10 * value[k - 1] + DecimalDigits[numeral[k]]
    IN  value[Len(numeral)]

\* The first ten is at k.
TenAt(numeral, k) == numeral[k] = "shi" /\ \A j \in 1..k - 1 : numeral[j] # "shi"

\* What stands around it counts when it is one Chinese digit, and one ten when nothing is before.
AroundTen(numeral, at) ==
    10 * (IF at = 1 THEN 1 ELSE IF at = 2 THEN Digit(numeral[1]) ELSE 0)
      + (IF at + 1 = Len(numeral) THEN Digit(numeral[at + 1]) ELSE 0)

\* Several Chinese digits in a row are no number, and yield 0.
ParseWindow(numeral) ==
    IF \A k \in DOMAIN numeral : numeral[k] \in DOMAIN DecimalDigits THEN DecimalValue(numeral)
    ELSE IF \E k \in DOMAIN numeral : numeral[k] = "shi"
    THEN AroundTen(numeral, CHOOSE k \in DOMAIN numeral : TenAt(numeral, k))
    ELSE IF Len(numeral) = 1 THEN Digit(numeral[1]) ELSE 0

Money(amount, unit) == amount * (CASE unit = "wan" -> 10000 [] unit = "yi" -> 100000000 [] OTHER -> 1)
Percent(amount) == amount * 10

NodeOf(id, window, lo, hi) ==
    [id |-> id, window |-> window, lo |-> lo, hi |-> hi, enabled |-> TRUE, lag |-> 0, weight |-> 0]

\* Outflow is negative inflow; without an amount, any.
Outflow(t) == NodeOf("flow sum at most", ParseWindow(t.window), 0, -Money(t.hi, t.units[1]))

\* validate_condition_text and validate_exit_condition_text: {} is an unrecognised text.
EntryNode(t) ==
    LET w == ParseWindow(t.window)
    IN  CASE t.says \in {"above ma", "below ma", "breakout"} -> {NodeOf(t.says, w, 0, 0)}
          [] t.says = "volume ratio" -> {NodeOf(t.says, w, t.lo, t.hi)}
          [] t.says = "market cap" -> {NodeOf(t.says, 0, Money(t.lo, t.units[1]), Money(t.hi, t.units[2]))}
          [] t.says = "turnover" -> {NodeOf(t.says, 0, Percent(t.lo), Percent(t.hi))}
          [] t.says = "rising ratio" -> {NodeOf(t.says, 0, Percent(t.lo), 0)}
          [] t.says \in {"return at most", "return between"} -> {NodeOf(t.says, w, Percent(t.lo), Percent(t.hi))}
          [] t.says = "inflow" -> {NodeOf("flow sum at least", w, Money(t.lo, t.units[1]), 0)}
          [] t.says = "outflow" /\ t.hi > 0 -> {Outflow(t)}
          [] t.says = "histogram" -> {NodeOf(t.says, 0, t.lo, 0)}
          [] OTHER -> {}

ExitNode(t) ==
    LET w == ParseWindow(t.window)
    IN  CASE t.says \in {"below ma", "breakdown"} -> {NodeOf(t.says, w, 0, 0)}
          [] t.says = "return at most" -> {NodeOf(t.says, w, 0, Percent(t.hi))}
          [] t.says = "dead cross" -> {NodeOf(t.says, 0, 0, 0)}
          [] t.says = "outflow today" -> {NodeOf("flow today at most", 0, 0, 0)}
          [] t.says = "outflow" -> {Outflow(t)}
          [] OTHER -> {}

-----------------------------------------------------------------------------
(* What they promise *)

\* What a numeral below a hundred stands for.
Reads(numeral, days) ==
    LET Decimal(d) == {<<c>> : c \in {c \in DOMAIN DecimalDigits : DecimalDigits[c] = d}}
        Chinese(d) == {<<c>> : c \in {c \in DOMAIN ChineseDigits : ChineseDigits[c] = d}}
    IN  \E tens, ones \in 0..9 :
          /\ days = 10 * tens + ones
          /\ \/ tens = 0 /\ numeral \in Decimal(ones) \cup Chinese(ones)
             \/ \E a \in Decimal(tens), c \in Decimal(ones) : numeral = a \o c
             \/ /\ tens > 0
                /\ \E a \in Chinese(tens) \cup (IF tens = 1 THEN {<<>>} ELSE {}),
                      c \in Chinese(ones) \cup (IF ones = 0 THEN {<<>>} ELSE {}) : numeral = a \o <<"shi">> \o c

\* The texts one of the two sides offers as an example, and the days they name.
OfDays == {"above ma", "below ma", "breakout", "breakdown", "inflow", "outflow",
           "return at most", "return between", "volume ratio"}
OfToday == {"outflow today", "turnover", "market cap", "rising ratio", "histogram", "dead cross"}
OfferedText(t, days) ==
    /\ t.lo \in Int /\ t.hi \in Int /\ t.strict \in BOOLEAN
    /\ \/ t.says \in OfDays /\ days \in Nat \ {0} /\ Reads(t.window, days)
       \/ t.says \in OfToday /\ t.window = <<>>

Unlagged(strategy) ==
    /\ \A k \in DOMAIN strategy.filters : strategy.filters[k].lag = 0
    /\ \A k \in DOMAIN strategy.groups :
         /\ strategy.groups[k].op # "score"
         /\ \A m \in DOMAIN strategy.groups[k].nodes : strategy.groups[k].nodes[m].lag = 0

\* The prefilter drops no row that passes, and passes none that does not unless a
\* node lags or a group scores; and what is decided of a row does not change when
\* later rows arrive.
PrefilterIsExact(strategy, rows, first) ==
    LET i == Len(rows)
        passes == Passes(strategy, rows, first, i)
        kept == CandidatePrefilter(strategy, rows, first, i)
    IN  i >= first =>
          /\ passes => kept
          /\ Unlagged(strategy) => (kept => passes)
          /\ i > first => Passes(strategy, rows, first, i - 1) = Passes(strategy, Front(rows), first, i - 1)

\* The texts with one limit, and what is to reach it, where the rows have it: the
\* pairs of which the text says that the first is not below the second.
Comparisons == {"inflow", "outflow", "outflow today", "return at most", "rising ratio", "histogram"}
Compared(t, days, rows) ==
    LET i == Len(rows)
        last == i - days + 1..i
        inflows == IF i < days \/ \E j \in last : rows[j].flow = {} THEN {}
                   ELSE {SumFunction([j \in last |-> CHOOSE v \in rows[j].flow : TRUE])}
        changes == IF i <= days THEN {} ELSE {rows[i].close - rows[i - days].close}
    IN  CASE t.says = "inflow" -> {<<net, Money(t.lo, t.units[1])>> : net \in inflows}
          [] t.says = "outflow" -> {<<-net, Money(t.hi, t.units[1])>> : net \in inflows}
          [] t.says = "outflow today" -> {<<0, v>> : v \in rows[i].flow}
          [] t.says = "return at most" -> {<<t.hi * rows[i - days].close, 100 * change>> : change \in changes}
          [] t.says = "rising ratio" -> {<<rows[i].heat, 10 * t.lo>>}
          [] t.says = "histogram" -> {<<2 * (rows[i].dif - rows[i].dea), t.lo>>}

\* What a text says of the last row, from the rows themselves.
Means(t, days, rows) ==
    LET i == Len(rows)
        last == i - days + 1..i
        before == i - days..i - 1
        closes == SumFunction([j \in last |-> rows[j].close])
        change == rows[i].close - rows[i - days].close
    IN  IF t.says \in Comparisons
        THEN \E p \in Compared(t, days, rows) : p[1] >= p[2] /\ (t.strict => p[1] # p[2])
        ELSE
        CASE t.says = "above ma" -> i >= days /\ days * rows[i].close > closes
          [] t.says = "below ma" -> i >= days /\ days * rows[i].close < closes
          [] t.says = "breakout" -> i > days /\ \A j \in before : rows[j].high < rows[i].close
          [] t.says = "breakdown" -> i > days /\ \A j \in before : rows[j].low > rows[i].close
          [] t.says = "return between" ->
               i > days /\ t.lo * rows[i - days].close <= 100 * change /\ 100 * change <= t.hi * rows[i - days].close
          [] t.says = "volume ratio" ->
               /\ i > days
               /\ LET p == SumFunction([j \in before |-> rows[j].volume])
                  IN  p > 0 /\ t.lo * p <= days * rows[i].volume /\ days * rows[i].volume <= t.hi * p
          [] t.says = "turnover" -> \E v \in rows[i].turnover : t.lo <= v /\ v <= t.hi
          [] t.says = "market cap" -> \E v \in rows[i].cap : Money(t.lo, t.units[1]) <= v /\ v <= Money(t.hi, t.units[2])
          [] t.says = "dead cross" ->
               i > 1 /\ rows[i].dif < rows[i].dea /\ rows[i - 1].dif >= rows[i - 1].dea

\* The row is on a limit that the words leave out.
OnLimit(t, days, rows) ==
    t.says \in Comparisons /\ t.strict /\ \E p \in Compared(t, days, rows) : p[1] = p[2]

\* The evaluator and, on the entry side, the screen decide the last row as the text reads.
DecidedAsItReads(t, days, rows) ==
    /\ \A n \in EntryNode(t) \cup ExitNode(t) :
         EvaluateCondition(n, rows, 1, Len(rows)) <=> Means(t, days, rows)
    /\ \A n \in EntryNode(t) : Screened(<<n>>, rows) <=> Means(t, days, rows)

\* A text is decided as it reads, days being the number its numeral stands for,
\* except on a limit that its words leave out; and no text that either side offers
\* as an example is refused by both.
TextsMeanWhatTheySay(t, days, rows) ==
    /\ EntryNode(t) \cup ExitNode(t) # {}
    /\ t.window # <<>> => ParseWindow(t.window) = days
    /\ rows # <<>> => OnLimit(t, days, rows) \/ DecidedAsItReads(t, days, rows)

\* The examples that say greater or less are decided as they read on the limit too.
LimitsAreLeftOut(t, days, rows) ==
    t.says \in {"rising ratio", "return at most", "inflow", "histogram"} /\ rows # <<>> =>
        DecidedAsItReads(t, days, rows)
=============================================================================
