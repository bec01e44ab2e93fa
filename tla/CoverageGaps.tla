---------------------------- MODULE CoverageGaps ----------------------------
(***************************************************************************)
(* What the program says is missing from the daily bars.  Five places of   *)
(* the code answer that question, each in its own way: the totals of       *)
(* Warehouse.coverage, the table per stock (build_daily_bars_coverage),    *)
(* the gap profile, the list of stocks that lack capital flow, and the     *)
(* snapshot that lets a full-market sync skip a stock.  Every operator is  *)
(* a function of the frame on disk.                                        *)
(*                                                                         *)
(* A frame maps a stock and a trading day to what its row holds: nothing,  *)
(* capital flow alone ("flow"), prices alone ("bar") or everything.        *)
(* known[s] is the stock's lifecycle: its first and last possible day (0   *)
(* and past the last day where the record has none), whether the sources   *)
(* of capital flow are known to begin late for it, by its code, and the    *)
(* days on which its row says that it was listed ten days ago at most.     *)
(***************************************************************************)
EXTENDS Integers, Sequences, FiniteSetsExt, SequencesExt

CONSTANTS Stocks, LastDay,
          SourceGaps,           \* KNOWN_CAPITAL_FLOW_SOURCE_GAP_DATES
          SourceStarts,         \* KNOWN_CAPITAL_FLOW_SOURCE_START_DATES
          SourceLag,            \* KNOWN_CAPITAL_FLOW_LISTING_LAG_DAYS
          MinDays               \* MIN_TRADE_DAYS_FOR_..., 5 in all three modules

Days == 1..LastDay

ASSUME GapAssumption ==
    /\ IsFiniteSet(Stocks) /\ LastDay \in Nat /\ SourceGaps \subseteq Days /\ MinDays \in Nat
    /\ SourceStarts \subseteq Days /\ SourceLag \in Nat

Rows == {"none", "flow", "bar", "full"}
Unknown == [born |-> 0, gone |-> LastDay + 1, late |-> FALSE, young |-> {}]

BarDays(frame, s) == {d \in Days : frame[s, d] \in {"bar", "full"}}
FlowDays(frame, s) == {d \in Days : frame[s, d] \in {"flow", "full"}}
RowDays(frame, s) == BarDays(frame, s) \cup FlowDays(frame, s)
AllBarDays(frame) == UNION {BarDays(frame, s) : s \in Stocks}
AllRowDays(frame) == UNION {RowDays(frame, s) : s \in Stocks}
Traded(frame) == {s \in Stocks : BarDays(frame, s) # {}}
RowsOn(frame, d) == Cardinality({s \in Stocks : d \in BarDays(frame, s)})
WindowEnd(frame) == Max({d \in Days : RowsOn(frame, d) > 0})

-----------------------------------------------------------------------------
(* classify_market_days_by_cross_section: a day with rows is normal when it *)
(* has half the median of them, else thin.  Twice the median is an integer. *)

TwiceMedian(counts) ==
    LET n == Len(counts)
    IN  IF n % 2 = 1 THEN 2 * counts[n \div 2 + 1] ELSE counts[n \div 2] + counts[n \div 2 + 1]

\* The counts of the days that have rows, in order.
Counts(frame, counted) ==
    LET before(a, b) == RowsOn(frame, a) < RowsOn(frame, b) \/ (RowsOn(frame, a) = RowsOn(frame, b) /\ a < b)
        sorted == SetToSortSeq(counted, before)
    IN  [i \in 1..Len(sorted) |-> RowsOn(frame, sorted[i])]

NormalDays(frame, days) ==
    LET counted == {d \in days : RowsOn(frame, d) > 0}
        counts == Counts(frame, counted)
    IN  {d \in counted : 4 * RowsOn(frame, d) >= TwiceMedian(counts)}

-----------------------------------------------------------------------------
(* Warehouse.coverage                                                       *)

\* The span of a stock, clipped to its lifecycle.
From(frame, known, s) == Max({Min(BarDays(frame, s)), known[s].born})
To(frame, known, s) == Min({Max(BarDays(frame, s)), known[s].gone})
Spanned(frame, known) == {s \in Traded(frame) : From(frame, known, s) <= To(frame, known, s)}

\* Mutant: the last day of a span is not part of it.
SpanningBefore(frame, known, d) ==
    Cardinality({s \in Spanned(frame, known) : From(frame, known, s) <= d})
        - Cardinality({s \in Spanned(frame, known) : To(frame, known, s) <= d})

\* _classified_internal_missing: the stocks that span a day less those that have it.
Spanning(frame, known, d) ==
    Cardinality({s \in Spanned(frame, known) : From(frame, known, s) <= d})
        - Cardinality({s \in Spanned(frame, known) : To(frame, known, s) < d})

Internal(frame, known, d) ==
    LET starts == {From(frame, known, s) : s \in Spanned(frame, known)}
    IN  IF starts = {} \/ d < Min(starts) \/ d > WindowEnd(frame) THEN 0
        ELSE Max({0, Spanning(frame, known, d) - RowsOn(frame, d)})

Suspended(frame, known) ==
    SumFunction([d \in NormalDays(frame, Days) |-> Internal(frame, known, d)])
InternalMissing(frame, known) ==
    SumFunction([d \in Days \ NormalDays(frame, Days) |-> Internal(frame, known, d)])

\* _tail_missing_rows, of one stock whose last row is on day `last`.
Behind(frame, known, s, last) == last + 1..Min({WindowEnd(frame), known[s].gone})

DailyMissing(frame, known) ==
    InternalMissing(frame, known)
        + SumFunction([s \in Traded(frame) |-> Cardinality(Behind(frame, known, s, Max(BarDays(frame, s))))])

\* uses_symbol_capital_flow_source_start: the flow that starts on day `start` had no
\* source before, by the stock's code or by that day, or because the stock appeared
\* on day `first`, after the first day `opens` of the frame, and its flow soon after.
BeginsLate(known, s, start, first, opens) ==
    \/ known[s].late \/ start \in SourceStarts
    \/ first > opens /\ start - first \in 0..SourceLag

\* uses_listing_day_capital_flow_source_start: the first row is of a stock just listed.
BeginsYoung(known, s, start, first) == first \in known[s].young /\ start - first \in 0..SourceLag

\* The stocks whose days before the first capital flow are not counted: coverage()
\* asks the first rule alone, of the days that have prices.
CountedLate(frame, known, s) ==
    /\ FlowDays(frame, s) # {}
    /\ BeginsLate(known, s, Min(FlowDays(frame, s)), Min(BarDays(frame, s)), Min(AllBarDays(frame)))

\* The days of a stock that are counted as lacking capital flow.
Empty(frame, s) == {d \in Days : frame[s, d] = "bar"} \ SourceGaps
FlowMissing(frame, known, s) ==
    {d \in Empty(frame, s) : CountedLate(frame, known, s) => d >= Min(FlowDays(frame, s))}
        \cup (IF RowDays(frame, s) = {} THEN {}
              ELSE Behind(frame, known, s, Max(RowDays(frame, s))))

\* _compute_gap_profile: the stocks that are behind, without the delisted ones.
Stale(frame, known) ==
    {s \in Traded(frame) : known[s].gone > LastDay /\ Max(BarDays(frame, s)) < WindowEnd(frame)}

-----------------------------------------------------------------------------
(* build_daily_bars_coverage without dates, or for a window                 *)

\* _market_day_classification; too short a window has none.
Classified(frame, days) == IF Cardinality(days) < MinDays THEN {} ELSE NormalDays(frame, days)

OwnWindow(frame) == Min(AllRowDays(frame))..Max(AllRowDays(frame))

\* days are those that are classified: the requested ones, or those of the warehouse.
TableMissing(frame, known, s, first, last, days) ==
    LET window == Max({first, known[s].born})..Min({last, known[s].gone})
        normal == Classified(frame, days)
    IN  {d \in window \ RowDays(frame, s) : d > Max(RowDays(frame, s)) \/ d \notin normal}

\* Without dates: from the stock's first row to the last day of the warehouse.
TableOf(frame, known, s) ==
    TableMissing(frame, known, s, Min(RowDays(frame, s)),
                 Max({WindowEnd(frame), Max(RowDays(frame, s))}), OwnWindow(frame))

\* Mutant: a day after the last row counts as a suspension too.
NeededWithoutTail(frame, normal, s, d) == d \in BarDays(frame, s) \/ d \notin normal

-----------------------------------------------------------------------------
(* read_capital_flow_missing_symbols, over all days                         *)

Needed(frame, normal, s, d) ==
    d \in BarDays(frame, s) \/ d > Max(RowDays(frame, s)) \/ d \notin normal

\* Mutant: the list asks the rule of listing days alone.
LateByListing(frame, known, s) ==
    /\ FlowDays(frame, s) # {}
    /\ BeginsYoung(known, s, Min(FlowDays(frame, s)), Min(RowDays(frame, s)))

\* The list asks both rules, of the days that have any row.
ListedLate(frame, known, s) ==
    LET start == Min(FlowDays(frame, s))
        first == Min(RowDays(frame, s))
    IN  /\ FlowDays(frame, s) # {}
        /\ \/ BeginsLate(known, s, start, first, Min(AllRowDays(frame)))
           \/ BeginsYoung(known, s, start, first)

FlowList(frame, known) ==
    LET normal == Classified(frame, Days)
    IN  {s \in {t \in Stocks : RowDays(frame, t) # {}} :
          \E d \in (Days \ SourceGaps) \ FlowDays(frame, s) :
            /\ known[s].born <= d /\ d <= known[s].gone
            /\ ListedLate(frame, known, s) => d >= Min(FlowDays(frame, s))
            /\ Needed(frame, normal, s, d)}

-----------------------------------------------------------------------------
(* _daily_completeness_snapshot of a full-market sync over all days         *)

\* _lifecycle_clipped_required_dates, then _suspension_exempt_required_dates: only
\* a day without rows of its own is exempt, and only when the market was normal.
Required(frame, known, s) ==
    LET lived == {d \in Days : known[s].born <= d /\ d <= known[s].gone}
        normal == Classified(frame, Days)
    IN  {d \in lived : d \in BarDays(frame, s) \/ d \notin normal}

\* Rows that have their market capitalisation.
Capped(frame, s) == {d \in Days : frame[s, d] = "full"}

Complete(frame, known) ==
    {s \in Stocks : Capped(frame, s) # {} /\ Required(frame, known, s) \subseteq Capped(frame, s)}

-----------------------------------------------------------------------------
(* What they promise each other *)

\* No row lies outside the lifecycle of its stock.
RowsAreLived(frame, known) ==
    \A s \in Stocks : \A d \in RowDays(frame, s) : known[s].born <= d /\ d <= known[s].gone

\* The totals, which are made of counts per day, are what one gets stock by stock:
\* every day without prices between a stock's first row and the last day of the
\* warehouse is in exactly one of the two totals, and the days called missing are
\* those of the table per stock, once there are days enough for it to classify
\* and no stock has capital flow alone; the profile finds the same stocks behind.
TotalsMatchStocks(frame, known) ==
    Traded(frame) # {} /\ RowsAreLived(frame, known) =>
        LET lacking(s) == Min(BarDays(frame, s))..Min({WindowEnd(frame), known[s].gone}) \ BarDays(frame, s)
        IN  /\ DailyMissing(frame, known) + Suspended(frame, known)
                 = SumFunction([s \in Traded(frame) |-> Cardinality(lacking(s))])
            /\ (\A s \in Stocks : RowDays(frame, s) = BarDays(frame, s))
                 /\ Cardinality(OwnWindow(frame)) >= MinDays
               => DailyMissing(frame, known)
                    = SumFunction([s \in Traded(frame) |-> Cardinality(TableOf(frame, known, s))])
            /\ \A s \in Traded(frame) : known[s].gone > LastDay =>
                 (s \in Stale(frame, known) <=> Behind(frame, known, s, Max(BarDays(frame, s))) # {})

\* A day that is counted as lacking capital flow, and that some source may have,
\* puts its stock on the list of those to fetch, unless the list takes the day to be
\* one before the source begins; a stock whose early days the totals leave out has
\* them left out by the list; and a stock that the sync skips has no hole before
\* its last row that the table per stock shows.
GapsAreFetched(frame, known) ==
    Traded(frame) # {} /\ RowsAreLived(frame, known) =>
        /\ \A s \in Stocks : \A d \in FlowMissing(frame, known, s) \ SourceGaps :
             \/ s \in FlowList(frame, known)
             \/ ListedLate(frame, known, s) /\ d < Min(FlowDays(frame, s))
        /\ \A s \in Traded(frame) : CountedLate(frame, known, s) => ListedLate(frame, known, s)
        /\ \A s \in Complete(frame, known) :
             \A d \in TableMissing(frame, known, s, 1, LastDay, Days) : d > Max(BarDays(frame, s))

\* Every day that is counted as lacking capital flow puts its stock on the list.
CountedAreListed(frame, known) ==
    Traded(frame) # {} /\ RowsAreLived(frame, known) =>
        \A s \in Stocks : FlowMissing(frame, known, s) \ SourceGaps # {} => s \in FlowList(frame, known)

\* A stock that the sync skips is not behind either.
SkippedAreCurrent(frame, known) ==
    Traded(frame) # {} /\ RowsAreLived(frame, known) =>
        \A s \in Complete(frame, known) : Behind(frame, known, s, Max(BarDays(frame, s))) = {}
=============================================================================
