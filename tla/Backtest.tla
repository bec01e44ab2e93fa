------------------------------ MODULE Backtest ------------------------------
(***************************************************************************)
(* The day loop of the backtest engine (engine.py, run_backtest): each     *)
(* trade day closes positions, scans for candidates, marks to market and   *)
(* opens positions at the next day's open.  Bars arrive day by day, any    *)
(* bar for any symbol; what the strategy's conditions say of a row (which  *)
(* symbols are candidates, in which order of score, whether an exit rule   *)
(* hits) is any outcome.                                                   *)
(*                                                                         *)
(* Prices are integers, rates percents; a traded price is in hundredths,   *)
(* an amount of money in ten-thousandths, so that slippage and fees are    *)
(* exact.                                                                  *)
(***************************************************************************)
EXTENDS Integers, Sequences, FiniteSets, Functions

CONSTANTS
  Symbols,
  Bars,              \* the bars a symbol may have on a day
  NoBar,             \* no row of the symbol on that day
  Days,              \* number of trade days, the bound of the model
  InitialCash,
  BoardLot,          \* BOARD_LOT_SIZE
  FeePct, TaxPct, SlippagePct,     \* fee_rate, stamp_tax_rate, slippage_rate
  SizePct,           \* position_size_pct
  EqualSlots,        \* position_sizing_mode = "equal_slots"
  LimitUpBlocks, LimitDownBlocks,  \* limit_up_blocks_buy, limit_down_blocks_sell
  HoldingDays,       \* fixed_holding_days
  ProfitPct, LossPct,              \* take_profit_pct, -stop_loss_pct; 0: not set
  MaxPositions, MaxDailyBuys

Bar == [open : Nat, high : Nat, low : Nat, close : Nat,
        suspended : BOOLEAN,
        up : BOOLEAN, down : BOOLEAN]   \* it opens near its limit

ASSUME BarAssumption ==
  /\ Bars \subseteq Bar /\ NoBar \notin Bars
  /\ \A b \in Bars : /\ 0 < b.low /\ b.low <= b.open /\ b.open <= b.high
                     /\ b.low <= b.close /\ b.close <= b.high
                     /\ ~(b.up /\ b.down)
\* models.py, BacktestSettings.  It puts no upper limit on the three rates; that the fees
\* and the tax do not exceed the amount traded, nor the slippage the price, is assumed here.
ASSUME SettingAssumption ==
  /\ IsFiniteSet(Symbols)
  /\ Days \in Nat \ {0} /\ InitialCash \in Nat \ {0} /\ BoardLot \in Nat \ {0}
  /\ FeePct \in Nat /\ TaxPct \in Nat /\ SlippagePct \in Nat
  /\ FeePct + TaxPct <= 100 /\ SlippagePct <= 100
  /\ SizePct \in 1 .. 100
  /\ {EqualSlots, LimitUpBlocks, LimitDownBlocks} \subseteq BOOLEAN
  /\ HoldingDays \in Nat \ {0} /\ ProfitPct \in Nat /\ LossPct \in Nat
  /\ MaxPositions \in Nat \ {0} /\ MaxDailyBuys \in Nat \ {0}

VARIABLES
  day, phase,        \* "exit" (exits, then the scan), "buy" or "done"
  today, next,       \* the rows of the day and of the next trade day
  queue,             \* positions the exit loop has still to look at
  open,              \* open_positions (still_open in the exit loop)
  trades,            \* closed positions
  cash,
  candidates,        \* symbols the entry loop has still to look at
  bought,            \* opened_today
  value,             \* current_market_value
  lastClose,         \* last_close_by_symbol; 0: none yet
  peak, point        \* peak_equity and the last point of the equity curve

vars == <<day, phase, today, next, queue, open, trades, cash, candidates, bought,
          value, lastClose, peak, point>>

-----------------------------------------------------------------------------
(* Prices and amounts.                                                     *)

Smaller(a, b) == IF a <= b THEN a ELSE b
Larger(a, b)  == IF a <= b THEN b ELSE a

BuyPrice(bar)  == bar.open * (100 + SlippagePct)
CostOf(price)  == price * (100 + FeePct)          \* of one share
Proceeds(raw, shares) == raw * (100 - SlippagePct) * shares * (100 - FeePct - TaxPct)

ProfitHit(p, price) == ProfitPct > 0 /\ price * 10000 >= p.price * (100 + ProfitPct)
LossHit(p, price)   == LossPct > 0   /\ price * 10000 <= p.price * (100 - LossPct)

\* A stop or target price in whole prices, on the side that is hit.
ProfitPrice(p) == (p.price * (100 + ProfitPct) + 9999) \div 10000
LossPrice(p)   == (p.price * (100 - LossPct)) \div 10000

IntradayAtStop(p, bar) ==             \* mutant: the stop price also below a gap
  IF LossHit(p, bar.low) THEN LossPrice(p)
  ELSE IF ProfitHit(p, bar.open) THEN bar.open
  ELSE IF ProfitHit(p, bar.high) THEN ProfitPrice(p)
  ELSE 0
Intraday(p, bar) ==                   \* the raw price of an intraday exit, 0: none
  IF ProfitHit(p, bar.open) \/ LossHit(p, bar.open) THEN bar.open
  ELSE IF LossHit(p, bar.low) THEN LossPrice(p)
  ELSE IF ProfitHit(p, bar.high) THEN ProfitPrice(p)
  ELSE 0

Total(amounts) ==
  LET upTo[n \in 0 .. Len(amounts)] == IF n = 0 THEN 0 ELSE upTo[n - 1] + amounts[n]
  IN  upTo[Len(amounts)]

MarkPrice(p, rows, last) ==
  IF rows[p.symbol] # NoBar THEN 100 * rows[p.symbol].close
  ELSE IF last[p.symbol] # 0 THEN 100 * last[p.symbol]
  ELSE p.price

MarkedTo(rows, last, positions) ==
  Total([i \in DOMAIN positions |-> 100 * MarkPrice(positions[i], rows, last) * positions[i].shares])

PlannedSlots(held) ==                 \* mutant: no cap per stock
  IF EqualSlots THEN cash \div Larger(1, MaxPositions - held) ELSE cash
Planned(held) ==                      \* _planned_entry_amount
  LET cap   == Smaller(cash, ((cash + value) * SizePct) \div 100)
      slots == Larger(1, MaxPositions - held)
  IN  IF EqualSlots THEN Smaller(cap, cash \div slots) ELSE cap

LotsUp(amount, cost) ==               \* mutant: rounded to a whole lot upwards
  (((amount \div cost) + BoardLot - 1) \div BoardLot) * BoardLot
Lots(amount, cost) == ((amount \div cost) \div BoardLot) * BoardLot

-----------------------------------------------------------------------------
Rows == {r \in [Symbols -> Bars \cup {NoBar}] : \E s \in Symbols : r[s] # NoBar}
NoRows == [s \in Symbols |-> NoBar]
RowsOf(d) == IF d <= Days THEN Rows ELSE {NoRows}

Init == /\ day = 1 /\ phase = "exit"
        /\ today \in Rows /\ next \in RowsOf(2)
        /\ queue = <<>> /\ open = <<>> /\ trades = <<>> /\ candidates = <<>>
        /\ cash = InitialCash /\ bought = 0 /\ value = 0
        /\ lastClose = [s \in Symbols |-> 0]
        /\ peak = InitialCash
        /\ point = [day |-> 0, cash |-> InitialCash, equity |-> InitialCash]

market == <<day, today, next, lastClose>>
entry  == <<candidates, bought, value, peak, point>>

-----------------------------------------------------------------------------
(* The exit loop, one position at a time.                                  *)

Exiting  == phase = "exit" /\ queue # <<>>
Position == Head(queue)
BarOf(p) == today[p.symbol]

Keep(p) == /\ open' = Append(open, p) /\ queue' = Tail(queue)
           /\ UNCHANGED <<phase, trades, cash, market, entry>>

Close(p, signal, raw) ==
  /\ queue' = Tail(queue)
  /\ cash' = cash + Proceeds(raw, p.shares)
  /\ trades' = Append(trades, [symbol |-> p.symbol, bought |-> p.bought, amount |-> p.amount,
                               signal |-> signal, sold |-> day, raw |-> raw,
                               proceeds |-> Proceeds(raw, p.shares)])
  /\ UNCHANGED <<phase, open, market, entry>>

\* A sale at the given raw price, unless the bar opens near its lower limit.
Sell(p, signal, raw) ==
  IF LimitDownBlocks /\ BarOf(p).down THEN Keep(p) ELSE Close(p, signal, raw)

TradableAtOnce(p) == BarOf(p) # NoBar /\ ~BarOf(p).suspended    \* mutant: no T+1
Tradable(p) == p.bought < day /\ BarOf(p) # NoBar /\ ~BarOf(p).suspended
Pending(p)  == p.sellSignal # 0
HeldOutLate(p) == day - p.bought + 1 > HoldingDays             \* mutant: a day later
HeldOut(p)     == day - p.bought + 1 >= HoldingDays

\* T+1, no row, or suspended.
HoldOnForgets ==                      \* mutant: a suspended position is not kept
  /\ Exiting /\ ~Tradable(Position)
  /\ queue' = Tail(queue)
  /\ open' = IF Position.bought < day THEN open ELSE Append(open, Position)
  /\ UNCHANGED <<phase, trades, cash, market, entry>>
HoldOn == Exiting /\ ~Tradable(Position) /\ Keep(Position)

SellPending == /\ Exiting /\ Tradable(Position) /\ Pending(Position)
               /\ Sell(Position, Position.sellSignal, BarOf(Position).open)

SellHeld == /\ Exiting /\ Tradable(Position) /\ ~Pending(Position)
            /\ HeldOut(Position)
            /\ Sell(Position, day, BarOf(Position).open)

SellIntraday ==
  /\ Exiting /\ Tradable(Position) /\ ~Pending(Position)
  /\ ~HeldOut(Position)
  /\ LET raw == Intraday(Position, BarOf(Position))
     IN  raw # 0 /\ Sell(Position, day, raw)

\* No exit today; an exit rule may signal one for the next tradable open.
ExitRules ==
  /\ Exiting /\ Tradable(Position) /\ ~Pending(Position)
  /\ ~HeldOut(Position) /\ Intraday(Position, BarOf(Position)) = 0
  /\ \E hit \in BOOLEAN : Keep([Position EXCEPT !.sellSignal = IF hit THEN day ELSE 0])

-----------------------------------------------------------------------------
(* The scan, the equity point and the entry loop.                          *)

Ranked(set) == {s \in [1 .. Cardinality(set) -> set] : IsInjective(s)}
Quoted      == {s \in Symbols : today[s] # NoBar /\ ~today[s].suspended}
Room        == day < Days /\ Len(open) < MaxPositions

Scan ==
  /\ phase = "exit" /\ queue = <<>>
  /\ LET marked == MarkedTo(today, lastClose, open)
     IN  /\ value' = marked
         /\ peak' = Larger(peak, cash + marked)
         /\ point' = [day |-> day, cash |-> cash, equity |-> cash + marked]
  /\ \E found \in SUBSET Quoted : \E ranked \in Ranked(found) :
       candidates' = IF Room THEN ranked ELSE <<>>
  /\ phase' = "buy" /\ bought' = 0
  /\ UNCHANGED <<market, queue, open, trades, cash>>

Candidate == Head(candidates)
Entering  == /\ phase = "buy" /\ candidates # <<>>
             /\ Len(open) < MaxPositions /\ bought < MaxDailyBuys
Shares(s) == Lots(Planned(Len(open)), CostOf(BuyPrice(next[s])))

HoldsIt(s) == \E i \in DOMAIN open : open[i].symbol = s
BuyableAgain(s) == /\ next[s] # NoBar /\ ~next[s].suspended   \* mutant: whatever is held
                   /\ ~(LimitUpBlocks /\ next[s].up)
                   /\ Shares(s) > 0
Buyable(s) == /\ ~HoldsIt(s) /\ next[s] # NoBar /\ ~next[s].suspended
              /\ ~(LimitUpBlocks /\ next[s].up)
              /\ Shares(s) > 0

SkipCandidate == /\ Entering /\ ~Buyable(Candidate)
                 /\ candidates' = Tail(candidates)
                 /\ UNCHANGED <<phase, market, queue, open, trades, cash, bought, value, peak, point>>

OpenPosition ==
  /\ Entering /\ Buyable(Candidate)
  /\ LET s      == Candidate
         price  == BuyPrice(next[s])
         shares == Shares(s)
     IN  /\ open' = Append(open, [symbol |-> s, signal |-> day, bought |-> day + 1,
                                  price |-> price, shares |-> shares,
                                  amount |-> shares * CostOf(price), sellSignal |-> 0])
         /\ cash' = cash - shares * CostOf(price)
         /\ value' = value + 100 * price * shares
  /\ bought' = bought + 1
  /\ candidates' = Tail(candidates)
  /\ UNCHANGED <<phase, market, queue, trades, peak, point>>

MoreDays      == day < Days
\* No candidate left, or no room for one: the closes of the day are kept.
EndDay ==
  /\ phase = "buy" /\ ~Entering
  /\ lastClose' = [s \in Symbols |-> IF today[s] # NoBar THEN today[s].close ELSE lastClose[s]]
  /\ candidates' = <<>> /\ bought' = 0 /\ value' = 0
  /\ IF MoreDays
       THEN /\ day' = day + 1 /\ phase' = "exit"
            /\ today' = next /\ next' \in RowsOf(day + 2)
            /\ queue' = open /\ open' = <<>>
       ELSE /\ phase' = "done" /\ UNCHANGED <<day, today, next, queue, open>>
  /\ UNCHANGED <<trades, cash, peak, point>>

Next == \/ HoldOn \/ SellPending \/ SellHeld \/ SellIntraday \/ ExitRules
        \/ Scan \/ SkipCandidate \/ OpenPosition \/ EndDay

Spec == Init /\ [][Next]_vars

-----------------------------------------------------------------------------
(* Properties                                                              *)

Open == [symbol : Symbols, signal : 1 .. Days, bought : 2 .. Days, price : Nat, shares : Nat,
         amount : Nat, sellSignal : 0 .. Days]
Closed == [symbol : Symbols, bought : 2 .. Days, amount : Nat, signal : 1 .. Days,
           sold : 1 .. Days, raw : Nat, proceeds : Nat]

TypeOK == /\ day \in 1 .. Days /\ phase \in {"exit", "buy", "done"}
          /\ {today, next} \subseteq Rows \cup {NoRows}
          /\ queue \in Seq(Open) /\ open \in Seq(Open) /\ trades \in Seq(Closed)
          /\ cash \in Int /\ candidates \in Seq(Symbols)
          /\ bought \in 0 .. MaxDailyBuys /\ value \in Nat
          /\ lastClose \in [Symbols -> Nat]
          /\ peak \in Nat /\ point \in [day : 0 .. Days, cash : Int, equity : Int]

Positions == queue \o open

AtCost(items)   == Total([i \in DOMAIN items |-> items[i].amount])    \* positions or trades
Earned(closed)  == Total([i \in DOMAIN closed |-> closed[i].proceeds])

\* Buying rounds down to whole lots after fees: cash never goes below zero,
\* however many candidates share it on a day (engine.py:781-788).
CashSuffices == cash >= 0

\* Money is neither made nor lost: what is in cash and in positions at cost is
\* the initial cash and what closed trades earned, on every path of the exit
\* loop that keeps or closes a position (engine.py:620-701).
BooksBalance ==
  cash + AtCost(Positions) = InitialCash + Earned(trades) - AtCost(trades)

\* One position per symbol and no more than max_positions, over exits, rebuys and
\* several buys a day (engine.py:741-747).
PortfolioBounded ==
  /\ Len(Positions) <= MaxPositions
  /\ \A i, j \in DOMAIN Positions : Positions[i].symbol = Positions[j].symbol => i = j

\* The portfolio is sound: see the three above.
PortfolioIsSound == CashSuffices /\ BooksBalance /\ PortfolioBounded

\* A-share T+1: a position is bought after its signal, is never sold on the day it
\* was bought, and not before its sell signal (engine.py:622, 790-793).
SettlesLater ==
  /\ \A i \in DOMAIN Positions : Positions[i].signal < Positions[i].bought
  /\ \A i \in DOMAIN trades : trades[i].bought <= trades[i].signal
                              /\ trades[i].bought < trades[i].sold
                              /\ trades[i].signal <= trades[i].sold

Unsellable(p) == \/ p.bought >= day \/ today[p.symbol] = NoBar \/ today[p.symbol].suspended
                 \/ LimitDownBlocks /\ today[p.symbol].down

\* After the exits of a day a position is left only if nothing asked for its sale or
\* the day did not allow it: no pending signal, holding limit, stop or target is
\* ever forgotten (engine.py:620-701).
SellsWhenDue ==
  phase # "exit" => \A i \in DOMAIN open :
    LET p == open[i]
    IN  \/ Unsellable(p)
        \/ /\ p.sellSignal \in {0, day}
           /\ day - p.bought + 1 < HoldingDays
           /\ ~ProfitHit(p, today[p.symbol].high) /\ ~LossHit(p, today[p.symbol].low)

\* A position opened for the next day costs no more than its share of the equity on
\* the signal day, although equity is taken anew after every buy (engine.py:556-567).
SizedBySignalEquity ==
  \A i \in DOMAIN open : phase = "buy" /\ open[i].signal = day =>
    100 * open[i].amount <= SizePct * point.equity

\* A sale happens in a bar that trades and at a price the bar has (engine.py:383-419).
FillsInTheBar ==
  [][Len(trades') > Len(trades) =>
       LET t   == trades'[Len(trades')]
           bar == today[t.symbol]
       IN  /\ bar # NoBar /\ ~bar.suspended /\ ~(LimitDownBlocks /\ bar.down)
           /\ bar.low <= t.raw /\ t.raw <= bar.high]_vars

\* Every trade is one the market would have made: on a day it may be, at a price it had.
TradesAreLegal == []SettlesLater /\ FillsInTheBar

=============================================================================
