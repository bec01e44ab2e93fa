--------------------------- MODULE BacktestProofs ---------------------------
(***************************************************************************)
(* The books, the portfolio and the trades of a backtest, for any number   *)
(* of symbols and days, any bars, and any setting of sizes, fees, limits   *)
(* and exits.                                                              *)
(***************************************************************************)
EXTENDS Backtest, SequenceTheorems, FiniteSetTheorems, TLAPS

-----------------------------------------------------------------------------
(* Arithmetic.                                                             *)

\* The rounded quotient times the divisor.
LEMMA Quotient ==
  ASSUME NEW a \in Nat, NEW b \in Nat, 0 < b
  PROVE  /\ a \div b \in Nat
         /\ (a \div b) * b <= a
         /\ a < (a \div b) * b + b
  OBVIOUS

LEMMA Product ==
  ASSUME NEW a \in Nat, NEW b \in Nat
  PROVE  a * b \in Nat
  OBVIOUS

LEMMA Monotone ==
  ASSUME NEW a \in Nat, NEW b \in Nat, NEW c \in Nat, a <= b
  PROVE  a * c <= b * c
  OBVIOUS

-----------------------------------------------------------------------------
(* Sums of sequences.  An induction over the length is a search for the    *)
(* least length for which the fact fails.                                  *)

LEMMA Least ==
  ASSUME NEW T, T \subseteq Nat, T # {}
  PROVE  \E x \in T : \A y \in T : x <= y
<1>1. PICK x \in T : \A y \in T : ~(<<y, x>> \in OpToRel(<, Nat))
  BY NatLessThanWellFounded, WFMin
<1>2. \A y \in T : ~(y < x)
  BY <1>1 DEF OpToRel
<1> QED
  BY <1>2

\* f gives the sums of the first n amounts, for n up to m.
SumsUpTo(amounts, m, f) ==
  f = [n \in 0 .. m |-> IF n = 0 THEN 0 ELSE f[n - 1] + amounts[n]]

LEMMA SumsExist ==
  ASSUME NEW amounts \in Seq(Int), NEW m \in 0 .. Len(amounts)
  PROVE  \E f \in [0 .. m -> Int] : SumsUpTo(amounts, m, f)
<1> DEFINE T == {k \in 0 .. Len(amounts) : ~ \E f \in [0 .. k -> Int] : SumsUpTo(amounts, k, f)}
<1> SUFFICES ASSUME T # {} PROVE FALSE
  OBVIOUS
<1>1. PICK k \in T : \A y \in T : k <= y
  <2>1. T \subseteq Nat
    OBVIOUS
  <2> HIDE DEF T
  <2> QED
    BY <2>1, Least
<1>2. k # 0
  <2> DEFINE z == [n \in 0 .. 0 |-> 0]
  <2>1. SumsUpTo(amounts, 0, z) /\ z \in [0 .. 0 -> Int]
    BY DEF SumsUpTo
  <2> HIDE DEF z
  <2>2. 0 \notin T
    BY <2>1
  <2> QED
    BY <2>2
<1>3. k - 1 \in 0 .. Len(amounts) /\ k - 1 \notin T
  <2>1. k \in 0 .. Len(amounts) /\ Len(amounts) \in Nat
    OBVIOUS
  <2> HIDE DEF T
  <2> QED
    BY <1>1, <1>2, <2>1
<1>4. PICK f \in [0 .. k - 1 -> Int] : SumsUpTo(amounts, k - 1, f)
  BY <1>3
<1> DEFINE g == [n \in 0 .. k |-> IF n < k THEN f[n] ELSE f[k - 1] + amounts[k]]
<1>5. g \in [0 .. k -> Int]
  BY <1>2
<1>6. SumsUpTo(amounts, k, g)
  <2>1. k \in Nat /\ \A n \in 0 .. k - 1 : f[n] = IF n = 0 THEN 0 ELSE f[n - 1] + amounts[n]
    BY <1>4 DEF SumsUpTo
  <2>2. ASSUME NEW n \in 0 .. k
        PROVE  g[n] = IF n = 0 THEN 0 ELSE g[n - 1] + amounts[n]
    <3>1. CASE n < k
      <4>1. n \in 0 .. k - 1 /\ (n # 0 => n - 1 \in 0 .. k /\ n - 1 < k)
        BY <2>1, <3>1
      <4> QED BY <2>1, <3>1, <4>1
    <3>2. CASE ~(n < k)
      <4>1. n = k /\ n # 0 /\ n - 1 \in 0 .. k /\ n - 1 < k
        BY <1>2, <2>1, <3>2
      <4> QED BY <4>1
    <3> QED BY <3>1, <3>2
  <2> HIDE DEF g
  <2>3. g = [n \in 0 .. k |-> g[n]]
    BY <1>5
  <2> QED BY <2>2, <2>3 DEF SumsUpTo
<1> QED
  BY <1>5, <1>6

\* Whatever adds up the amounts one by one ends at their total.
LEMMA SumsAgree ==
  ASSUME NEW amounts \in Seq(Int), NEW m \in 0 .. Len(amounts),
         NEW f, NEW g, SumsUpTo(amounts, m, f),
         g[0] = 0, \A n \in 1 .. m : g[n] = g[n - 1] + amounts[n]
  PROVE  \A n \in 0 .. m : f[n] = g[n]
<1> DEFINE T == {k \in 0 .. m : f[k] # g[k]}
<1> SUFFICES ASSUME T # {} PROVE FALSE
  OBVIOUS
<1>0. m \in Nat
  OBVIOUS
<1>1. PICK k \in T : \A y \in T : k <= y
  <2>1. T \subseteq Nat
    BY <1>0
  <2> HIDE DEF T
  <2> QED
    BY <2>1, Least
<1>2. k # 0
  BY <1>0 DEF SumsUpTo
<1>3. k - 1 \in 0 .. m /\ k - 1 \notin T
  <2>1. k \in 0 .. m
    OBVIOUS
  <2> HIDE DEF T
  <2> QED
    BY <1>0, <1>1, <1>2, <2>1
<1>4. f[k] = f[k - 1] + amounts[k]
  BY <1>0, <1>2 DEF SumsUpTo
<1>5. g[k] = g[k - 1] + amounts[k]
  BY <1>0, <1>2
<1> QED
  BY <1>3, <1>4, <1>5

LEMMA TotalIs ==
  ASSUME NEW amounts \in Seq(Int), NEW g,
         g[0] = 0, \A n \in 1 .. Len(amounts) : g[n] = g[n - 1] + amounts[n]
  PROVE  Total(amounts) = g[Len(amounts)]
<1> DEFINE m == Len(amounts)
           f == CHOOSE f : SumsUpTo(amounts, m, f)
<1>0. m \in Nat /\ m \in 0 .. Len(amounts)
  OBVIOUS
<1>1. SumsUpTo(amounts, m, f)
  <2>1. \E x : SumsUpTo(amounts, m, x)
    BY <1>0, SumsExist
  <2> QED
    BY <2>1
<1>2. Total(amounts) = f[m]
  BY DEF Total, SumsUpTo
<1> HIDE DEF f
<1>3. \A n \in 0 .. m : f[n] = g[n]
  <2>1. g[0] = 0 /\ \A n \in 1 .. m : g[n] = g[n - 1] + amounts[n]
    OBVIOUS
  <2> HIDE DEF m
  <2> QED
    BY <1>0, <1>1, <2>1, SumsAgree
<1>4. m \in 0 .. m
  BY <1>0
<1> QED
  BY <1>2, <1>3, <1>4

LEMMA TotalSteps ==
  ASSUME NEW amounts \in Seq(Int)
  PROVE  \E f \in [0 .. Len(amounts) -> Int] :
           /\ f[0] = 0
           /\ \A n \in 1 .. Len(amounts) : f[n] = f[n - 1] + amounts[n]
           /\ Total(amounts) = f[Len(amounts)]
<1>0. Len(amounts) \in Nat
  OBVIOUS
<1>1. PICK f \in [0 .. Len(amounts) -> Int] : SumsUpTo(amounts, Len(amounts), f)
  BY <1>0, SumsExist
<1>2. f[0] = 0 /\ \A n \in 1 .. Len(amounts) : f[n] = f[n - 1] + amounts[n]
  BY <1>0, <1>1 DEF SumsUpTo
<1>3. Total(amounts) = f[Len(amounts)]
  BY <1>2, TotalIs
<1> QED
  BY <1>2, <1>3

LEMMA TotalType ==
  ASSUME NEW amounts \in Seq(Int)
  PROVE  Total(amounts) \in Int
<1>1. Len(amounts) \in 0 .. Len(amounts)
  OBVIOUS
<1> QED
  BY <1>1, TotalSteps

LEMMA TotalOfNone == Total(<<>>) = 0
<1>1. <<>> \in Seq(Int) /\ Len(<<>>) = 0
  OBVIOUS
<1> QED
  BY <1>1, TotalSteps

LEMMA TotalOfOne ==
  ASSUME NEW x \in Int
  PROVE  Total(<<x>>) = x
<1>1. <<x>> \in Seq(Int) /\ Len(<<x>>) = 1 /\ <<x>>[1] = x
  OBVIOUS
<1>2. PICK f \in [0 .. 1 -> Int] :
        f[0] = 0 /\ (\A n \in 1 .. 1 : f[n] = f[n - 1] + <<x>>[n]) /\ Total(<<x>>) = f[1]
  BY <1>1, TotalSteps
<1>3. f[1] = f[0] + x
  BY <1>1, <1>2
<1> QED
  BY <1>2, <1>3

LEMMA TotalOfBoth ==
  ASSUME NEW a \in Seq(Int), NEW b \in Seq(Int)
  PROVE  Total(a \o b) = Total(a) + Total(b)
<1>0. Len(a) \in Nat /\ Len(b) \in Nat
  OBVIOUS
<1>1. PICK f \in [0 .. Len(a) -> Int] :
        f[0] = 0 /\ (\A n \in 1 .. Len(a) : f[n] = f[n - 1] + a[n]) /\ Total(a) = f[Len(a)]
  BY TotalSteps
<1>2. PICK g \in [0 .. Len(b) -> Int] :
        g[0] = 0 /\ (\A n \in 1 .. Len(b) : g[n] = g[n - 1] + b[n]) /\ Total(b) = g[Len(b)]
  BY TotalSteps
<1> DEFINE h == [n \in 0 .. Len(a) + Len(b) |-> IF n <= Len(a) THEN f[n] ELSE f[Len(a)] + g[n - Len(a)]]
<1>3. /\ a \o b \in Seq(Int) /\ Len(a \o b) = Len(a) + Len(b)
      /\ \A i \in 1 .. Len(a) + Len(b) : (a \o b)[i] = IF i <= Len(a) THEN a[i] ELSE b[i - Len(a)]
  BY ConcatProperties
<1>4. \A n \in 1 .. Len(a) + Len(b) : h[n] = h[n - 1] + (a \o b)[n]
  <2> TAKE n \in 1 .. Len(a) + Len(b)
  <2>1. CASE n <= Len(a)
    BY <1>0, <1>1, <1>3, <2>1
  <2>2. CASE n = Len(a) + 1
    <3>1. h[n] = f[Len(a)] + g[1] /\ h[n - 1] = f[Len(a)] /\ (a \o b)[n] = b[1]
      BY <1>0, <1>3, <2>2
    <3>2. g[1] = g[0] + b[1] /\ b[1] \in Int
      BY <1>0, <1>2, <2>2
    <3>3. f[Len(a)] \in Int
      BY <1>0
    <3> HIDE DEF h
    <3> QED
      BY <1>2, <3>1, <3>2, <3>3
  <2>3. CASE n > Len(a) + 1
    <3> DEFINE k == n - Len(a)
    <3>1. k \in 2 .. Len(b) /\ k - 1 = n - 1 - Len(a) /\ n \in Nat
      BY <1>0, <2>3
    <3>2. h[n] = f[Len(a)] + g[k] /\ h[n - 1] = f[Len(a)] + g[k - 1] /\ (a \o b)[n] = b[k]
      BY <1>0, <1>3, <2>3, <3>1
    <3> HIDE DEF k
    <3>3. k \in 1 .. Len(b) /\ k - 1 \in 0 .. Len(b)
      BY <1>0, <3>1
    <3>4. b[k] \in Int
      BY <3>3, ElementOfSeq
    <3>5. g[k] = g[k - 1] + b[k] /\ g[k - 1] \in Int
      BY <1>2, <3>3, <3>4
    <3>6. f[Len(a)] \in Int
      BY <1>0
    <3> HIDE DEF h
    <3> QED
      BY <3>2, <3>4, <3>5, <3>6
  <2> QED
    BY <1>0, <2>1, <2>2, <2>3
<1>5. h[0] = 0 /\ h[Len(a) + Len(b)] = f[Len(a)] + g[Len(b)]
  <2>1. CASE Len(b) = 0
    <3>1. f[Len(a)] \in Int
      BY <1>0
    <3> QED
      BY <1>0, <1>1, <1>2, <2>1, <3>1
  <2>2. CASE Len(b) # 0
    BY <1>0, <1>1, <2>2
  <2> QED
    BY <2>1, <2>2
<1> HIDE DEF h
<1>6. Total(a \o b) = h[Len(a) + Len(b)]
  BY <1>3, <1>4, <1>5, TotalIs
<1> QED
  BY <1>1, <1>2, <1>5, <1>6

LEMMA TotalOfNats ==
  ASSUME NEW amounts \in Seq(Nat)
  PROVE  Total(amounts) \in Nat
<1>0. amounts \in Seq(Int) /\ Len(amounts) \in Nat
  BY SeqMonotonic
<1>1. PICK f \in [0 .. Len(amounts) -> Int] :
        /\ f[0] = 0 /\ \A n \in 1 .. Len(amounts) : f[n] = f[n - 1] + amounts[n]
        /\ Total(amounts) = f[Len(amounts)]
  BY <1>0, TotalSteps
<1> DEFINE T == {k \in 0 .. Len(amounts) : f[k] \notin Nat}
<1>2. T = {}
  <2> SUFFICES ASSUME T # {} PROVE FALSE
    OBVIOUS
  <2>1. PICK k \in T : \A y \in T : k <= y
    <3>1. T \subseteq Nat
      BY <1>0
    <3> HIDE DEF T
    <3> QED
      BY <3>1, Least
  <2>2. k # 0 /\ k \in 0 .. Len(amounts)
    BY <1>0, <1>1
  <2>3. k - 1 \in 0 .. Len(amounts) /\ k - 1 \notin T
    <3> HIDE DEF T
    <3> QED
      BY <1>0, <2>1, <2>2
  <2>4. f[k] = f[k - 1] + amounts[k] /\ amounts[k] \in Nat /\ f[k - 1] \in Nat
    BY <1>0, <1>1, <2>2, <2>3
  <2> QED
    BY <2>4
<1> QED
  BY <1>0, <1>1, <1>2

-----------------------------------------------------------------------------
(* The inductive invariant.                                                *)

\* What every held position is: paid for, bought after its signal, and signalled
\* for sale only once it could be sold.
Held(p, d, ph) == /\ 0 < p.price
                  /\ p.signal < p.bought /\ p.signal <= d
                  /\ ph = "exit" => p.signal < d
                  /\ p.sellSignal # 0 => p.bought <= p.sellSignal /\ p.sellSignal <= d

\* What the exit loop leaves of a day's rows: a position that could not be sold, or
\* that nothing asks to sell (SellsWhenDue of one position).
Kept(p, d, rows) ==
  \/ p.bought >= d \/ rows[p.symbol] = NoBar \/ rows[p.symbol].suspended
  \/ LimitDownBlocks /\ rows[p.symbol].down
  \/ /\ p.sellSignal \in {0, d}
     /\ d - p.bought + 1 < HoldingDays
     /\ ~ProfitHit(p, rows[p.symbol].high) /\ ~LossHit(p, rows[p.symbol].low)

Settled(t) == t.bought <= t.signal /\ t.bought < t.sold /\ t.signal <= t.sold

\* The exit loop is over before the entry loop starts, and that one only runs while
\* there is a next day.
PhaseInv == /\ phase # "exit" => queue = <<>>
            /\ candidates # <<>> => phase = "buy" /\ day < Days

HeldInv == /\ \A i \in DOMAIN queue : Held(queue[i], day, phase)
           /\ \A i \in DOMAIN open : Held(open[i], day, phase) /\ Kept(open[i], day, today)
           /\ \A i \in DOMAIN trades : Settled(trades[i])

\* No symbol twice, whether the exit loop has come to its position or not.
Apart(q, o) ==
  /\ \A i, j \in DOMAIN q : q[i].symbol = q[j].symbol => i = j
  /\ \A i, j \in DOMAIN o : o[i].symbol = o[j].symbol => i = j
  /\ \A i \in DOMAIN q, j \in DOMAIN o : q[i].symbol # o[j].symbol
  /\ Len(q) + Len(o) <= MaxPositions

BooksInv == cash + AtCost(queue) + AtCost(open) = InitialCash + Earned(trades) - AtCost(trades)

\* While positions are opened the equity only falls, by the fees.
EquityInv == /\ phase = "buy" => cash + value <= point.equity
             /\ SizedBySignalEquity

IInv == /\ TypeOK /\ PhaseInv /\ HeldInv /\ Apart(queue, open)
        /\ CashSuffices /\ BooksInv /\ EquityInv

-----------------------------------------------------------------------------
(* Prices and amounts.                                                     *)

LEMMA BarFacts ==
  ASSUME NEW bar \in Bars
  PROVE  /\ bar \in Bar /\ bar # NoBar
         /\ {bar.low, bar.open, bar.high, bar.close} \subseteq Nat
         /\ 0 < bar.low /\ bar.low <= bar.open /\ bar.open <= bar.high
  BY BarAssumption DEF Bar

LEMMA CostFacts ==
  ASSUME NEW bar \in Bars
  PROVE  /\ BuyPrice(bar) \in Nat /\ 0 < BuyPrice(bar)
         /\ CostOf(BuyPrice(bar)) \in Nat /\ 0 < CostOf(BuyPrice(bar))
<1>1. \A a, b \in Nat : 0 < a /\ 0 < b => a * b \in Nat /\ 0 < a * b
  OBVIOUS
<1>2. 100 + SlippagePct \in Nat /\ 100 + FeePct \in Nat /\ 0 < 100 + SlippagePct /\ 0 < 100 + FeePct
  BY SettingAssumption
<1>3. bar.open \in Nat /\ 0 < bar.open
  BY BarFacts
<1>4. BuyPrice(bar) \in Nat /\ 0 < BuyPrice(bar)
  BY <1>1, <1>2, <1>3 DEF BuyPrice
<1> QED
  BY <1>1, <1>2, <1>4 DEF CostOf

\* An intraday exit is priced inside the bar; without one no stop or target was hit.
LEMMA IntradayFacts ==
  ASSUME NEW bar \in Bars, NEW p, p.price \in Nat, 0 < p.price
  PROVE  /\ Intraday(p, bar) = 0 => ~ProfitHit(p, bar.high) /\ ~LossHit(p, bar.low)
         /\ Intraday(p, bar) # 0 => /\ Intraday(p, bar) \in Nat
                                    /\ bar.low <= Intraday(p, bar) /\ Intraday(p, bar) <= bar.high
<1> DEFINE x == p.price * (100 + ProfitPct)
           y == p.price * (100 - LossPct)
<1>1. x \in Nat /\ 0 < x /\ y \in Int
  BY SettingAssumption
<1>2. /\ \A price : ProfitHit(p, price) <=> ProfitPct > 0 /\ price * 10000 >= x
      /\ \A price : LossHit(p, price) <=> LossPct > 0 /\ price * 10000 <= y
      /\ ProfitPrice(p) = (x + 9999) \div 10000
      /\ LossPrice(p) = y \div 10000
  BY DEF ProfitHit, LossHit, ProfitPrice, LossPrice
<1> HIDE DEF x, y
<1>3. /\ ProfitPrice(p) \in Nat /\ 0 < ProfitPrice(p)
      /\ x <= ProfitPrice(p) * 10000 /\ ProfitPrice(p) * 10000 < x + 10000
  BY <1>1, <1>2
<1>4. /\ LossPrice(p) \in Int
      /\ LossPrice(p) * 10000 <= y /\ y < LossPrice(p) * 10000 + 10000
  BY <1>1, <1>2
<1>5. /\ bar.low \in Nat /\ bar.open \in Nat /\ bar.high \in Nat
      /\ 0 < bar.low /\ bar.low <= bar.open /\ bar.open <= bar.high
  BY BarFacts
<1>6. CASE ProfitHit(p, bar.open) \/ LossHit(p, bar.open)
  BY <1>5, <1>6 DEF Intraday
<1>7. CASE ~ProfitHit(p, bar.open) /\ ~LossHit(p, bar.open) /\ LossHit(p, bar.low)
  <2>1. Intraday(p, bar) = LossPrice(p)
    BY <1>7 DEF Intraday
  <2>2. bar.low * 10000 <= y /\ ~(bar.open * 10000 <= y)
    BY <1>2, <1>7
  <2>3. bar.low <= LossPrice(p) /\ LossPrice(p) <= bar.open
    BY <1>1, <1>4, <1>5, <2>2
  <2>4. LossPrice(p) \in Nat /\ LossPrice(p) # 0 /\ LossPrice(p) <= bar.high
    <3>1. LossPrice(p) \in Int
      BY <1>4
    <3> QED
      BY <1>5, <2>3, <3>1
  <2> QED
    BY <2>1, <2>3, <2>4
<1>8. CASE ~ProfitHit(p, bar.open) /\ ~LossHit(p, bar.open) /\ ~LossHit(p, bar.low) /\ ProfitHit(p, bar.high)
  <2>1. Intraday(p, bar) = ProfitPrice(p)
    BY <1>8 DEF Intraday
  <2>2. bar.high * 10000 >= x /\ ~(bar.open * 10000 >= x)
    BY <1>2, <1>8
  <2>3. bar.open <= ProfitPrice(p) /\ ProfitPrice(p) <= bar.high
    BY <1>1, <1>3, <1>5, <2>2
  <2> QED
    BY <1>3, <1>5, <2>1, <2>3
<1>9. CASE ~ProfitHit(p, bar.open) /\ ~LossHit(p, bar.open) /\ ~LossHit(p, bar.low) /\ ~ProfitHit(p, bar.high)
  BY <1>9 DEF Intraday
<1> QED
  BY <1>6, <1>7, <1>8, <1>9

\* What is sold brings no negative amount.
LEMMA ProceedsType ==
  ASSUME NEW raw \in Nat, NEW shares \in Nat
  PROVE  Proceeds(raw, shares) \in Nat
<1>1. 100 - SlippagePct \in Nat /\ 100 - FeePct - TaxPct \in Nat
  BY SettingAssumption
<1>2. raw * (100 - SlippagePct) \in Nat
  BY <1>1, Product
<1>3. raw * (100 - SlippagePct) * shares \in Nat
  BY <1>2, Product
<1> QED
  BY <1>1, <1>3, Product DEF Proceeds

\* Whole lots cost no more than the amount they are bought for.
LEMMA LotsFit ==
  ASSUME NEW amount \in Nat, NEW cost \in Nat, 0 < cost
  PROVE  Lots(amount, cost) \in Nat /\ Lots(amount, cost) * cost <= amount
<1> DEFINE n == amount \div cost
           m == (n \div BoardLot) * BoardLot
<1>1. n \in Nat /\ n * cost <= amount
  BY Quotient
<1>2. BoardLot \in Nat /\ 0 < BoardLot
  BY SettingAssumption
<1> HIDE DEF n
<1>3. m \in Nat /\ m <= n
  BY <1>1, <1>2, Quotient, Product
<1>4. Lots(amount, cost) = m
  BY DEF Lots, n
<1> HIDE DEF m
<1>5. m * cost <= n * cost
  BY <1>1, <1>3, Monotone
<1>6. m * cost \in Nat /\ n * cost \in Nat
  BY <1>1, <1>3, Product
<1> QED
  BY <1>1, <1>3, <1>4, <1>5, <1>6

\* What is planned for one stock is in cash, and is its share of the equity.
LEMMA PlannedFits ==
  ASSUME cash \in Nat, value \in Nat, NEW held \in Nat
  PROVE  /\ Planned(held) \in Nat /\ Planned(held) <= cash
         /\ 100 * Planned(held) <= (cash + value) * SizePct
<1> DEFINE share == ((cash + value) * SizePct) \div 100
           cap   == Smaller(cash, share)
           slots == Larger(1, MaxPositions - held)
<1>1. (cash + value) * SizePct \in Nat
  BY SettingAssumption, Product
<1>2. share \in Nat /\ 100 * share <= (cash + value) * SizePct
  BY <1>1, Quotient
<1>3. slots \in Nat /\ 0 < slots
  BY SettingAssumption DEF Larger
<1> HIDE DEF share, slots
<1>4. cash \div slots \in Nat
  BY <1>3, Quotient
<1>5. cap \in Nat /\ cap <= cash /\ cap <= share
  BY <1>2 DEF Smaller
<1>6. Planned(held) \in {cap, Smaller(cap, cash \div slots)}
  BY DEF Planned, share, slots
<1> HIDE DEF cap
<1>7. Planned(held) \in Nat /\ Planned(held) <= cap
  BY <1>4, <1>5, <1>6 DEF Smaller
<1> QED
  BY <1>1, <1>2, <1>5, <1>7

-----------------------------------------------------------------------------
(* Positions and trades in sequence.                                       *)

LEMMA LastAdded ==
  ASSUME NEW S, NEW s \in Seq(S), NEW x \in S
  PROVE  /\ Append(s, x) \in Seq(S) /\ Append(s, x) = s \o <<x>>
         /\ DOMAIN Append(s, x) = 1 .. Len(s) + 1 /\ DOMAIN s = 1 .. Len(s)
         /\ Len(s) \in Nat /\ Len(Append(s, x)) = Len(s) + 1
         /\ \A i \in 1 .. Len(s) : Append(s, x)[i] = s[i]
         /\ Append(s, x)[Len(s) + 1] = x
  OBVIOUS

LEMMA AddedIs ==
  ASSUME NEW S, NEW s \in Seq(S), NEW x \in S, NEW i \in DOMAIN Append(s, x)
  PROVE  \/ i \in DOMAIN s /\ Append(s, x)[i] = s[i]
         \/ i = Len(s) + 1 /\ Append(s, x)[i] = x
<1>1. i \in 1 .. Len(s) + 1 /\ Len(s) \in Nat /\ DOMAIN s = 1 .. Len(s)
  BY LastAdded
<1>2. CASE i \in 1 .. Len(s)
  <2>1. Append(s, x)[i] = s[i] /\ i \in DOMAIN s
    BY <1>2, LastAdded
  <2> QED
    BY <2>1, Zenon
<1>3. CASE i = Len(s) + 1
  BY <1>3, LastAdded
<1> QED
  BY <1>1, <1>2, <1>3

LEMMA FirstTaken ==
  ASSUME NEW S, NEW s \in Seq(S), s # <<>>
  PROVE  /\ Tail(s) \in Seq(S) /\ s = <<Head(s)>> \o Tail(s)
         /\ Head(s) \in S /\ Head(s) = s[1] /\ 1 \in DOMAIN s
         /\ DOMAIN s = 1 .. Len(s) /\ DOMAIN Tail(s) = 1 .. Len(s) - 1
         /\ Len(s) \in Nat \ {0} /\ Len(Tail(s)) = Len(s) - 1
         /\ \A i \in 1 .. Len(s) - 1 : Tail(s)[i] = s[i + 1]
<1>1. /\ Tail(s) \in Seq(S) /\ Head(s) \in S /\ Head(s) = s[1]
      /\ DOMAIN s = 1 .. Len(s) /\ Len(s) \in Nat \ {0} /\ Len(Tail(s)) = Len(s) - 1
      /\ DOMAIN Tail(s) = 1 .. Len(s) - 1
      /\ \A i \in 1 .. Len(s) - 1 : Tail(s)[i] = s[i + 1]
  OBVIOUS
<1>2. s = <<Head(s)>> \o Tail(s)
  <2>1. <<Head(s)>> \in Seq(S) /\ Len(<<Head(s)>>) = 1 /\ <<Head(s)>>[1] = s[1]
    BY <1>1
  <2>2. /\ <<Head(s)>> \o Tail(s) \in Seq(S) /\ Len(<<Head(s)>> \o Tail(s)) = Len(s)
        /\ \A i \in 1 .. Len(s) : (<<Head(s)>> \o Tail(s))[i]
                                    = IF i <= 1 THEN <<Head(s)>>[i] ELSE Tail(s)[i - 1]
    BY <1>1, <2>1, ConcatProperties
  <2>3. \A i \in 1 .. Len(s) : (<<Head(s)>> \o Tail(s))[i] = s[i]
    BY <1>1, <2>1, <2>2
  <2> QED
    BY <2>2, <2>3, SeqEqual
<1> QED
  BY <1>1, <1>2

Amounts(items)   == [i \in DOMAIN items |-> items[i].amount]
Brings(closed)   == [i \in DOMAIN closed |-> closed[i].proceeds]

LEMMA AmountsType ==
  ASSUME NEW S, \A x \in S : x.amount \in Nat, NEW s \in Seq(S)
  PROVE  /\ Amounts(s) \in Seq(Nat) /\ Amounts(s) \in Seq(Int)
         /\ AtCost(s) = Total(Amounts(s)) /\ AtCost(s) \in Nat
<1>1. Amounts(s) \in Seq(Nat)
  BY DEF Amounts
<1>2. Amounts(s) \in Seq(Int)
  BY <1>1, SeqMonotonic
<1>3. AtCost(s) = Total(Amounts(s))
  BY DEF AtCost, Amounts
<1> QED
  BY <1>1, <1>2, <1>3, TotalOfNats

LEMMA CostOfBoth ==
  ASSUME NEW S, \A x \in S : x.amount \in Nat, NEW a \in Seq(S), NEW b \in Seq(S)
  PROVE  AtCost(a \o b) = AtCost(a) + AtCost(b)
<1>1. /\ a \o b \in Seq(S) /\ Len(a \o b) = Len(a) + Len(b) /\ Len(a) \in Nat /\ Len(b) \in Nat
      /\ \A i \in 1 .. Len(a) + Len(b) : (a \o b)[i] = IF i <= Len(a) THEN a[i] ELSE b[i - Len(a)]
  BY ConcatProperties
<1>2. ASSUME NEW c \in Seq(S)
      PROVE /\ Amounts(c) \in Seq(Int) /\ Len(Amounts(c)) = Len(c)
            /\ \A i \in 1 .. Len(c) : Amounts(c)[i] = c[i].amount
  <2>1. Amounts(c) \in Seq(Int)
    BY AmountsType
  <2> QED
    BY <2>1 DEF Amounts
<1> DEFINE u == Amounts(a)
           v == Amounts(b)
           w == Amounts(a \o b)
<1>3. /\ u \in Seq(Int) /\ Len(u) = Len(a) /\ \A i \in 1 .. Len(a) : u[i] = a[i].amount
      /\ v \in Seq(Int) /\ Len(v) = Len(b) /\ \A i \in 1 .. Len(b) : v[i] = b[i].amount
      /\ w \in Seq(Int) /\ Len(w) = Len(a) + Len(b)
      /\ \A i \in 1 .. Len(a) + Len(b) : w[i] = (a \o b)[i].amount
  BY <1>1, <1>2
<1> HIDE DEF u, v, w
<1>4. w = u \o v
  <2>1. /\ u \o v \in Seq(Int) /\ Len(u \o v) = Len(a) + Len(b)
        /\ \A i \in 1 .. Len(a) + Len(b) : (u \o v)[i] = IF i <= Len(a) THEN u[i] ELSE v[i - Len(a)]
    <3>1. /\ u \o v \in Seq(Int) /\ Len(u \o v) = Len(u) + Len(v)
          /\ \A i \in 1 .. Len(u) + Len(v) : (u \o v)[i] = IF i <= Len(u) THEN u[i] ELSE v[i - Len(u)]
      <4>1. u \in Seq(Int) /\ v \in Seq(Int)
        BY <1>3
      <4> QED
        BY <4>1, ConcatProperties
    <3> QED
      BY <1>3, <3>1
  <2>2. ASSUME NEW i \in 1 .. Len(a) + Len(b) PROVE w[i] = (u \o v)[i]
    <3>1. CASE i <= Len(a)
      <4>1. i \in 1 .. Len(a) /\ (a \o b)[i] = a[i]
        BY <1>1, <3>1
      <4> QED
        BY <1>3, <2>1, <3>1, <4>1
    <3>2. CASE i > Len(a)
      <4>1. i - Len(a) \in 1 .. Len(b) /\ ~(i <= Len(a)) /\ (a \o b)[i] = b[i - Len(a)]
        BY <1>1, <3>2
      <4> QED
        BY <1>3, <2>1, <4>1
    <3>3. i <= Len(a) \/ i > Len(a)
      <4>1. Len(a) \in Nat /\ Len(b) \in Nat
        BY <1>1
      <4> QED
        BY <4>1
    <3> QED
      BY <3>1, <3>2, <3>3
  <2> QED
    BY <1>3, <2>1, <2>2, SeqEqual
<1>5. AtCost(a) = Total(u) /\ AtCost(b) = Total(v) /\ AtCost(a \o b) = Total(w)
  BY <1>1, AmountsType DEF u, v, w
<1> QED
  BY <1>3, <1>4, <1>5, TotalOfBoth

LEMMA CostOfOne ==
  ASSUME NEW S, \A x \in S : x.amount \in Nat, NEW x \in S
  PROVE  AtCost(<<x>>) = x.amount
<1>1. Amounts(<<x>>) = <<x.amount>>
  BY DEF Amounts
<1> QED
  BY <1>1, TotalOfOne DEF AtCost, Amounts

LEMMA CostAdded ==
  ASSUME NEW S, \A x \in S : x.amount \in Nat, NEW s \in Seq(S), NEW x \in S
  PROVE  AtCost(Append(s, x)) = AtCost(s) + x.amount
<1>1. <<x>> \in Seq(S) /\ Append(s, x) = s \o <<x>>
  BY LastAdded
<1>2. AtCost(s \o <<x>>) = AtCost(s) + AtCost(<<x>>)
  BY <1>1, CostOfBoth
<1>3. AtCost(<<x>>) = x.amount
  BY CostOfOne
<1> QED
  BY <1>1, <1>2, <1>3

LEMMA CostTaken ==
  ASSUME NEW S, \A x \in S : x.amount \in Nat, NEW s \in Seq(S), s # <<>>
  PROVE  AtCost(s) = Head(s).amount + AtCost(Tail(s))
<1>1. <<Head(s)>> \in Seq(S) /\ Tail(s) \in Seq(S) /\ Head(s) \in S /\ s = <<Head(s)>> \o Tail(s)
  BY FirstTaken
<1>2. AtCost(<<Head(s)>> \o Tail(s)) = AtCost(<<Head(s)>>) + AtCost(Tail(s))
  BY <1>1, CostOfBoth
<1>3. AtCost(<<Head(s)>>) = Head(s).amount
  BY <1>1, CostOfOne
<1> QED
  BY <1>1, <1>2, <1>3

LEMMA CostOfNone == AtCost(<<>>) = 0 /\ Earned(<<>>) = 0
  BY TotalOfNone DEF AtCost, Earned

LEMMA EarnedAdded ==
  ASSUME NEW S, \A x \in S : x.proceeds \in Nat, NEW s \in Seq(S), NEW x \in S
  PROVE  Earned(Append(s, x)) = Earned(s) + x.proceeds /\ Earned(s) \in Int
<1>1. ASSUME NEW c \in Seq(S) PROVE Brings(c) \in Seq(Int) /\ Earned(c) = Total(Brings(c))
  <2>1. Brings(c) \in Seq(Nat)
    BY DEF Brings
  <2> QED
    BY <2>1, SeqMonotonic DEF Brings, Earned
<1>2. Append(s, x) \in Seq(S)
  OBVIOUS
<1>3. Brings(Append(s, x)) = Append(Brings(s), x.proceeds)
  BY LastAdded DEF Brings
<1>4. Append(Brings(s), x.proceeds) = Brings(s) \o <<x.proceeds>> /\ <<x.proceeds>> \in Seq(Int)
  BY <1>1, SMTT(30)
<1>5. Brings(s) \in Seq(Int) /\ Earned(s) = Total(Brings(s)) /\ Earned(Append(s, x)) = Total(Brings(Append(s, x)))
  BY <1>1, <1>2
<1>6. x.proceeds \in Int
  OBVIOUS
<1>7. Total(Brings(s) \o <<x.proceeds>>) = Total(Brings(s)) + x.proceeds
  BY <1>4, <1>5, <1>6, TotalOfBoth, TotalOfOne
<1> QED
  BY <1>3, <1>4, <1>5, <1>7, TotalType

-----------------------------------------------------------------------------
(* No two positions of one symbol.                                         *)

LEMMA ApartTaken ==
  ASSUME NEW q \in Seq(Open), q # <<>>, NEW o \in Seq(Open), Apart(q, o)
  PROVE  Apart(Tail(q), o)
<1>1. /\ Len(q) \in Nat \ {0} /\ DOMAIN q = 1 .. Len(q) /\ DOMAIN Tail(q) = 1 .. Len(q) - 1
      /\ Len(Tail(q)) = Len(q) - 1 /\ \A i \in 1 .. Len(q) - 1 : Tail(q)[i] = q[i + 1]
  BY FirstTaken
<1>2. Len(o) \in Nat
  OBVIOUS
<1>3. \A i, j \in DOMAIN Tail(q) : Tail(q)[i].symbol = Tail(q)[j].symbol => i = j
  <2> SUFFICES ASSUME NEW i \in DOMAIN Tail(q), NEW j \in DOMAIN Tail(q),
                      Tail(q)[i].symbol = Tail(q)[j].symbol
               PROVE  i = j
    OBVIOUS
  <2>1. i + 1 \in DOMAIN q /\ j + 1 \in DOMAIN q /\ q[i + 1].symbol = q[j + 1].symbol
    BY <1>1
  <2>2. i + 1 = j + 1
    BY <2>1 DEF Apart
  <2> QED
    BY <1>1, <2>2
<1>4. \A i \in DOMAIN Tail(q), j \in DOMAIN o : Tail(q)[i].symbol # o[j].symbol
  <2> TAKE i \in DOMAIN Tail(q), j \in DOMAIN o
  <2>1. i + 1 \in DOMAIN q /\ Tail(q)[i] = q[i + 1]
    BY <1>1
  <2> QED
    BY <2>1 DEF Apart
<1>5. Len(Tail(q)) + Len(o) <= MaxPositions
  BY <1>1, <1>2, SettingAssumption DEF Apart
<1> QED
  BY <1>3, <1>4, <1>5 DEF Apart

LEMMA ApartMoved ==
  ASSUME NEW q \in Seq(Open), q # <<>>, NEW o \in Seq(Open), Apart(q, o),
         NEW x \in Open, x.symbol = Head(q).symbol
  PROVE  Apart(Tail(q), Append(o, x))
<1>1. /\ Len(q) \in Nat \ {0} /\ DOMAIN q = 1 .. Len(q) /\ DOMAIN Tail(q) = 1 .. Len(q) - 1
      /\ Len(Tail(q)) = Len(q) - 1 /\ \A i \in 1 .. Len(q) - 1 : Tail(q)[i] = q[i + 1]
      /\ Head(q) = q[1] /\ 1 \in DOMAIN q
  BY FirstTaken
<1>2. /\ Len(o) \in Nat /\ DOMAIN o = 1 .. Len(o) /\ DOMAIN Append(o, x) = 1 .. Len(o) + 1
      /\ Len(Append(o, x)) = Len(o) + 1 /\ Append(o, x)[Len(o) + 1] = x
      /\ \A i \in 1 .. Len(o) : Append(o, x)[i] = o[i]
  BY LastAdded
<1>3. Apart(Tail(q), o)
  BY ApartTaken
<1>4. \A i \in DOMAIN o : o[i].symbol # x.symbol
  BY <1>1 DEF Apart
<1>5. \A i \in DOMAIN Tail(q) : Tail(q)[i].symbol # x.symbol
  <2> SUFFICES ASSUME NEW i \in DOMAIN Tail(q), Tail(q)[i].symbol = x.symbol PROVE FALSE
    OBVIOUS
  <2>1. i + 1 \in DOMAIN q /\ q[i + 1].symbol = q[1].symbol /\ i + 1 # 1
    BY <1>1
  <2> QED
    BY <1>1, <2>1 DEF Apart
<1>6. \A i \in DOMAIN Append(o, x) : \/ i \in DOMAIN o /\ Append(o, x)[i] = o[i]
                                     \/ i = Len(o) + 1 /\ Append(o, x)[i] = x
  BY <1>2, AddedIs
<1>7. \A i, j \in DOMAIN Append(o, x) : Append(o, x)[i].symbol = Append(o, x)[j].symbol => i = j
  <2> SUFFICES ASSUME NEW i \in DOMAIN Append(o, x), NEW j \in DOMAIN Append(o, x),
                      Append(o, x)[i].symbol = Append(o, x)[j].symbol
               PROVE  i = j
    OBVIOUS
  <2>1. CASE i \in DOMAIN o /\ j \in DOMAIN o
    BY <1>2, <1>3, <2>1 DEF Apart
  <2>2. CASE i = Len(o) + 1 /\ j = Len(o) + 1
    BY <2>2
  <2> QED
    BY <1>4, <1>6, <2>1, <2>2
<1>8. \A i \in DOMAIN Tail(q), j \in DOMAIN Append(o, x) : Tail(q)[i].symbol # Append(o, x)[j].symbol
  BY <1>3, <1>5, <1>6 DEF Apart
<1>9. Len(Tail(q)) + Len(Append(o, x)) <= MaxPositions
  BY <1>1, <1>2, SettingAssumption DEF Apart
<1> QED
  BY <1>3, <1>7, <1>8, <1>9 DEF Apart

LEMMA ApartAdded ==
  ASSUME NEW o \in Seq(Open), Apart(<<>>, o), NEW x \in Open, Len(o) < MaxPositions,
         \A i \in DOMAIN o : o[i].symbol # x.symbol
  PROVE  Apart(<<>>, Append(o, x))
<1>1. /\ Len(o) \in Nat /\ DOMAIN o = 1 .. Len(o) /\ DOMAIN Append(o, x) = 1 .. Len(o) + 1
      /\ Len(Append(o, x)) = Len(o) + 1 /\ Append(o, x)[Len(o) + 1] = x
      /\ \A i \in 1 .. Len(o) : Append(o, x)[i] = o[i]
  BY LastAdded
<1>2. \A i \in DOMAIN Append(o, x) : \/ i \in DOMAIN o /\ Append(o, x)[i] = o[i]
                                     \/ i = Len(o) + 1 /\ Append(o, x)[i] = x
  BY <1>1, AddedIs
<1>3. \A i, j \in DOMAIN Append(o, x) : Append(o, x)[i].symbol = Append(o, x)[j].symbol => i = j
  <2> SUFFICES ASSUME NEW i \in DOMAIN Append(o, x), NEW j \in DOMAIN Append(o, x),
                      Append(o, x)[i].symbol = Append(o, x)[j].symbol
               PROVE  i = j
    OBVIOUS
  <2>1. CASE i \in DOMAIN o /\ j \in DOMAIN o
    BY <1>1, <2>1 DEF Apart
  <2>2. CASE i = Len(o) + 1 /\ j = Len(o) + 1
    BY <2>2
  <2> QED
    BY <1>2, <2>1, <2>2
<1>4. DOMAIN <<>> = {} /\ Len(<<>>) = 0
  OBVIOUS
<1>5. Len(<<>>) + Len(Append(o, x)) <= MaxPositions
  BY <1>1, <1>4, SettingAssumption
<1> QED
  BY <1>3, <1>4, <1>5 DEF Apart

LEMMA ApartTurned ==
  ASSUME NEW o \in Seq(Open), Apart(<<>>, o)
  PROVE  Apart(o, <<>>)
<1>1. DOMAIN <<>> = {} /\ Len(<<>>) = 0 /\ Len(o) \in Nat
  OBVIOUS
<1> QED
  BY <1>1 DEF Apart

-----------------------------------------------------------------------------
(* The exit loop.                                                          *)

\* The position the exit loop looks at.
LEMMA PositionFacts ==
  ASSUME IInv, Exiting
  PROVE  /\ queue \in Seq(Open) /\ queue # <<>> /\ open \in Seq(Open) /\ trades \in Seq(Closed)
         /\ Position \in Open /\ Held(Position, day, phase) /\ phase = "exit"
         /\ day \in 1 .. Days
         /\ Tradable(Position) => BarOf(Position) \in Bars
<1>1. queue \in Seq(Open) /\ queue # <<>> /\ open \in Seq(Open) /\ trades \in Seq(Closed) /\ phase = "exit"
  BY DEF IInv, TypeOK, Exiting
<1>2. Position \in Open /\ Position = queue[1] /\ 1 \in DOMAIN queue
  BY <1>1, FirstTaken DEF Position
<1>3. Held(Position, day, phase)
  BY <1>2 DEF IInv, HeldInv
<1>4. BarOf(Position) \in Bars \cup {NoBar}
  <2>1. Position.symbol \in Symbols
    BY <1>2 DEF Open
  <2>2. today \in Rows \cup {NoRows}
    BY DEF IInv, TypeOK
  <2> QED
    BY <2>1, <2>2 DEF BarOf, Rows, NoRows
<1> QED
  BY <1>1, <1>2, <1>3, <1>4 DEF Tradable, IInv, TypeOK

LEMMA AmountsAreNat ==
  /\ \A x \in Open : x.amount \in Nat
  /\ \A x \in Closed : x.amount \in Nat /\ x.proceeds \in Nat
  BY DEF Open, Closed

\* A position that stays, perhaps with a new sell signal.
LEMMA KeepStep ==
  ASSUME IInv, Exiting, NEW x \in Open, Keep(x),
         x.symbol = Position.symbol, x.amount = Position.amount,
         Held(x, day, phase), Kept(x, day, today)
  PROVE  IInv'
<1>1. /\ queue \in Seq(Open) /\ queue # <<>> /\ open \in Seq(Open) /\ phase = "exit"
      /\ open' = Append(open, x) /\ queue' = Tail(queue)
      /\ UNCHANGED <<phase, trades, cash, day, today, next, lastClose,
                     candidates, bought, value, peak, point>>
  BY PositionFacts DEF Keep, market, entry
<1>2. TypeOK'
  <2>1. queue' \in Seq(Open) /\ open' \in Seq(Open)
    BY <1>1, FirstTaken, LastAdded
  <2> QED
    BY <1>1, <2>1 DEF IInv, TypeOK
<1>3. PhaseInv'
  BY <1>1 DEF IInv, PhaseInv
<1>4. HeldInv'
  <2>1. \A i \in DOMAIN queue' : Held(queue'[i], day, phase)
    <3>1. \A i \in DOMAIN queue' : i + 1 \in DOMAIN queue /\ queue'[i] = queue[i + 1]
      BY <1>1, FirstTaken
    <3> QED
      BY <3>1 DEF IInv, HeldInv
  <2>2. \A i \in DOMAIN open' : Held(open'[i], day, phase) /\ Kept(open'[i], day, today)
    <3>1. \A i \in DOMAIN open' : (i \in DOMAIN open /\ open'[i] = open[i]) \/ open'[i] = x
      BY <1>1, LastAdded
    <3> QED
      BY <3>1 DEF IInv, HeldInv
  <2> QED
    BY <1>1, <2>1, <2>2 DEF IInv, HeldInv
<1>5. Apart(queue', open')
  BY <1>1, ApartMoved DEF IInv, Position
<1>6. BooksInv'
  <2>1. AtCost(open') = AtCost(open) + x.amount
    BY <1>1, CostAdded, AmountsAreNat
  <2>2. AtCost(queue) = x.amount + AtCost(queue')
    BY <1>1, CostTaken, AmountsAreNat DEF Position
  <2>3. AtCost(open) \in Nat /\ AtCost(queue') \in Nat /\ x.amount \in Nat /\ cash \in Int
    BY <1>1, <1>2, AmountsType, AmountsAreNat DEF IInv, TypeOK
  <2>4. AtCost(queue') + AtCost(open') = AtCost(queue) + AtCost(open)
    BY <2>1, <2>2, <2>3
  <2>5. cash + AtCost(queue') + AtCost(open') = cash + AtCost(queue) + AtCost(open)
    BY <2>1, <2>2, <2>3
  <2> QED
    BY <1>1, <2>5 DEF IInv, BooksInv
<1>7. CashSuffices' /\ EquityInv'
  BY <1>1 DEF IInv, CashSuffices, EquityInv, SizedBySignalEquity
<1> QED
  BY <1>2, <1>3, <1>4, <1>5, <1>6, <1>7 DEF IInv

\* A position that is sold.
LEMMA CloseStep ==
  ASSUME IInv, Exiting, NEW signal \in 1 .. Days, NEW raw \in Nat, Close(Position, signal, raw),
         Position.bought <= signal, Position.bought < day, signal <= day
  PROVE  IInv'
<1> DEFINE p == Position
           t == [symbol |-> p.symbol, bought |-> p.bought, amount |-> p.amount, signal |-> signal,
                 sold |-> day, raw |-> raw, proceeds |-> Proceeds(raw, p.shares)]
<1>1. /\ queue \in Seq(Open) /\ queue # <<>> /\ open \in Seq(Open) /\ phase = "exit"
      /\ trades \in Seq(Closed) /\ p \in Open /\ p = Head(queue) /\ day \in 1 .. Days
  BY PositionFacts DEF Position
<1>2. /\ queue' = Tail(queue) /\ trades' = Append(trades, t) /\ cash' = cash + Proceeds(raw, p.shares)
      /\ UNCHANGED <<phase, open, day, today, next, lastClose, candidates, bought, value, peak, point>>
  BY DEF Close, market, entry
<1>3. t \in Closed /\ Proceeds(raw, p.shares) \in Nat
  <2>1. /\ p.shares \in Nat /\ p.symbol \in Symbols /\ p.bought \in 2 .. Days /\ p.amount \in Nat
    BY <1>1 DEF Open
  <2>2. Proceeds(raw, p.shares) \in Nat
    BY <2>1, ProceedsType
  <2> QED
    BY <1>1, <2>1, <2>2 DEF Closed
<1>4. Settled(t) /\ t.amount = p.amount /\ t.proceeds = Proceeds(raw, p.shares)
  BY DEF Settled
<1> HIDE DEF p, t
<1>5. TypeOK'
  <2>1. queue' \in Seq(Open) /\ trades' \in Seq(Closed) /\ cash' \in Int
    BY <1>1, <1>2, <1>3, FirstTaken, LastAdded DEF IInv, TypeOK
  <2> QED
    BY <1>2, <2>1 DEF IInv, TypeOK
<1>6. PhaseInv'
  BY <1>1, <1>2 DEF IInv, PhaseInv
<1>7. HeldInv'
  <2>1. \A i \in DOMAIN queue' : i + 1 \in DOMAIN queue /\ queue'[i] = queue[i + 1]
    BY <1>1, <1>2, FirstTaken
  <2>2. \A i \in DOMAIN trades' : (i \in DOMAIN trades /\ trades'[i] = trades[i]) \/ trades'[i] = t
    BY <1>1, <1>2, <1>3, LastAdded
  <2>3. \A i \in DOMAIN queue' : Held(queue'[i], day, phase)
    BY <2>1 DEF IInv, HeldInv
  <2>4. \A i \in DOMAIN trades' : Settled(trades'[i])
    BY <1>4, <2>2 DEF IInv, HeldInv
  <2> QED
    BY <1>2, <2>3, <2>4 DEF IInv, HeldInv
<1>8. Apart(queue', open')
  BY <1>1, <1>2, ApartTaken DEF IInv
<1>9. BooksInv'
  <2>1. AtCost(queue) = p.amount + AtCost(queue')
    BY <1>1, <1>2, CostTaken, AmountsAreNat
  <2>2. AtCost(trades') = AtCost(trades) + p.amount /\ AtCost(trades) \in Nat
    BY <1>1, <1>2, <1>3, <1>4, CostAdded, AmountsType, AmountsAreNat
  <2>3. Earned(trades') = Earned(trades) + Proceeds(raw, p.shares) /\ Earned(trades) \in Int
    BY <1>1, <1>2, <1>3, <1>4, EarnedAdded, AmountsAreNat
  <2>4. AtCost(open) \in Nat /\ AtCost(queue') \in Nat /\ p.amount \in Nat /\ cash \in Int
    BY <1>1, <1>5, AmountsType, AmountsAreNat DEF IInv, TypeOK
  <2>5. InitialCash \in Nat
    BY SettingAssumption
  <2>6. cash + AtCost(queue) + AtCost(open) = InitialCash + Earned(trades) - AtCost(trades)
    BY DEF IInv, BooksInv
  <2>7. cash' + AtCost(queue') + AtCost(open) = InitialCash + Earned(trades') - AtCost(trades')
    <3>1. \A c, d, e, f, g, h, i, k \in Int :
            c + (d + e) + f = g + h - i => c + k + e + f = g + (h + k) - (i + d)
      OBVIOUS
    <3>2. cash + (p.amount + AtCost(queue')) + AtCost(open) = InitialCash + Earned(trades) - AtCost(trades)
      BY <2>1, <2>6
    <3>3. Proceeds(raw, p.shares) \in Int
      BY <1>3
    <3>4. cash + Proceeds(raw, p.shares) + AtCost(queue') + AtCost(open)
            = InitialCash + (Earned(trades) + Proceeds(raw, p.shares)) - (AtCost(trades) + p.amount)
      BY <2>2, <2>3, <2>4, <2>5, <3>1, <3>2, <3>3
    <3> QED
      BY <1>2, <2>2, <2>3, <3>4
  <2> QED
    BY <1>2, <2>7 DEF BooksInv
<1>10. CashSuffices' /\ EquityInv'
  BY <1>1, <1>2, <1>3 DEF IInv, TypeOK, CashSuffices, EquityInv, SizedBySignalEquity
<1> QED
  BY <1>5, <1>6, <1>7, <1>8, <1>9, <1>10 DEF IInv

\* A position that is to be sold stays only when the bar opens near its lower limit.
LEMMA SellStep ==
  ASSUME IInv, Exiting, Tradable(Position), NEW signal \in 1 .. Days, NEW raw \in Nat,
         Sell(Position, signal, raw), Position.bought <= signal, signal <= day
  PROVE  IInv'
<1>1. CASE LimitDownBlocks /\ BarOf(Position).down
  <2>1. Keep(Position)
    BY <1>1 DEF Sell
  <2>2. Kept(Position, day, today)
    BY <1>1 DEF Kept, BarOf
  <2> QED
    BY <2>1, <2>2, PositionFacts, KeepStep
<1>2. CASE ~(LimitDownBlocks /\ BarOf(Position).down)
  <2>1. Close(Position, signal, raw)
    BY <1>2 DEF Sell
  <2>2. Position.bought < day
    BY DEF Tradable
  <2> QED
    BY <2>1, <2>2, CloseStep
<1> QED
  BY <1>1, <1>2

LEMMA HoldOnStep == IInv /\ HoldOn => IInv'
<1> SUFFICES ASSUME IInv, HoldOn PROVE IInv'
  OBVIOUS
<1>1. Exiting /\ ~Tradable(Position) /\ Keep(Position)
  BY DEF HoldOn
<1>2. Position \in Open /\ day \in 1 .. Days /\ Held(Position, day, phase)
  BY <1>1, PositionFacts
<1>3. Position.bought >= day \/ BarOf(Position) = NoBar \/ BarOf(Position).suspended
  <2>1. Position.bought \in Int /\ day \in Int
    BY <1>2, SettingAssumption DEF Open
  <2> QED
    BY <1>1, <2>1 DEF Tradable
<1>4. Kept(Position, day, today)
  BY <1>3 DEF Kept, BarOf
<1> QED
  BY <1>1, <1>2, <1>4, KeepStep

LEMMA SellPendingStep == IInv /\ SellPending => IInv'
<1> SUFFICES ASSUME IInv, SellPending PROVE IInv'
  OBVIOUS
<1>1. /\ Exiting /\ Tradable(Position) /\ Position.sellSignal # 0
      /\ Sell(Position, Position.sellSignal, BarOf(Position).open)
  BY DEF SellPending, Pending
<1>2. Position \in Open /\ Held(Position, day, phase) /\ BarOf(Position) \in Bars
  BY <1>1, PositionFacts
<1>3. BarOf(Position).open \in Nat
  BY <1>2, BarFacts
<1>4. Position.sellSignal \in 0 .. Days
  BY <1>2 DEF Open
<1>5. Position.sellSignal \in 1 .. Days
  BY <1>1, <1>4, SettingAssumption
<1>6. Position.bought <= Position.sellSignal /\ Position.sellSignal <= day
  BY <1>1, <1>2 DEF Held
<1> QED
  BY <1>1, <1>3, <1>5, <1>6, SellStep

\* A sale signalled today.
LEMMA SellTodayStep ==
  ASSUME IInv, Exiting, Tradable(Position), NEW raw \in Nat, Sell(Position, day, raw)
  PROVE  IInv'
<1>1. Position.bought < day /\ Position \in Open /\ day \in 1 .. Days
  BY PositionFacts DEF Tradable
<1>2. Position.bought \in Int /\ day \in Int
  BY <1>1, SettingAssumption DEF Open
<1>3. Position.bought <= day /\ day <= day
  BY <1>1, <1>2
<1> QED
  BY <1>1, <1>3, SellStep

LEMMA SellHeldStep == IInv /\ SellHeld => IInv'
<1> SUFFICES ASSUME IInv, SellHeld PROVE IInv'
  OBVIOUS
<1>1. Exiting /\ Tradable(Position) /\ Sell(Position, day, BarOf(Position).open)
  BY DEF SellHeld
<1>2. BarOf(Position).open \in Nat
  BY <1>1, PositionFacts, BarFacts
<1> QED
  BY <1>1, <1>2, SellTodayStep

\* What an intraday exit rests on.
LEMMA RawFacts ==
  ASSUME IInv, Exiting, Tradable(Position)
  PROVE  LET bar == BarOf(Position)  raw == Intraday(Position, BarOf(Position))
         IN  /\ raw = 0 => ~ProfitHit(Position, bar.high) /\ ~LossHit(Position, bar.low)
             /\ raw # 0 => raw \in Nat /\ bar.low <= raw /\ raw <= bar.high
<1>1. BarOf(Position) \in Bars /\ Position \in Open /\ Held(Position, day, phase)
  BY PositionFacts
<1>2. Position.price \in Nat /\ 0 < Position.price
  BY <1>1 DEF Open, Held
<1> QED
  BY <1>1, <1>2, IntradayFacts

LEMMA SellIntradayStep == IInv /\ SellIntraday => IInv'
<1> SUFFICES ASSUME IInv, SellIntraday PROVE IInv'
  OBVIOUS
<1> DEFINE raw == Intraday(Position, BarOf(Position))
<1>1. Exiting /\ Tradable(Position) /\ raw # 0 /\ Sell(Position, day, raw)
  BY DEF SellIntraday
<1>2. raw \in Nat
  BY <1>1, RawFacts
<1> HIDE DEF raw
<1> QED
  BY <1>1, <1>2, SellTodayStep

LEMMA ExitRulesStep == IInv /\ ExitRules => IInv'
<1> SUFFICES ASSUME IInv, ExitRules PROVE IInv'
  OBVIOUS
<1>1. /\ Exiting /\ Tradable(Position) /\ Position.sellSignal = 0 /\ ~HeldOut(Position)
      /\ Intraday(Position, BarOf(Position)) = 0
  BY DEF ExitRules, Pending
<1>2. Position \in Open /\ day \in 1 .. Days /\ Held(Position, day, phase) /\ Position.bought < day
  BY <1>1, PositionFacts DEF Tradable
<1>3. PICK new \in {0, day} : Keep([Position EXCEPT !.sellSignal = new])
  BY DEF ExitRules
<1> DEFINE x == [Position EXCEPT !.sellSignal = new]
<1>4. /\ x \in Open /\ x.symbol = Position.symbol /\ x.amount = Position.amount
      /\ x.price = Position.price /\ x.signal = Position.signal /\ x.bought = Position.bought
      /\ x.sellSignal = new /\ x.bought \in Nat
  <2>1. new \in 0 .. Days
    BY <1>2, <1>3, SettingAssumption
  <2> QED
    BY <1>2, <2>1, SettingAssumption DEF Open
<1> HIDE DEF x
<1>5. Held(x, day, phase)
  BY <1>2, <1>3, <1>4, SettingAssumption DEF Held
<1>6. Kept(x, day, today)
  <2>1. x.sellSignal \in {0, day}
    BY <1>3, <1>4
  <2>2. day - x.bought + 1 < HoldingDays
    BY <1>1, <1>2, <1>4, SettingAssumption DEF HeldOut
  <2>3. ~ProfitHit(Position, BarOf(Position).high) /\ ~LossHit(Position, BarOf(Position).low)
    BY <1>1, RawFacts
  <2>4. ~ProfitHit(x, today[x.symbol].high) /\ ~LossHit(x, today[x.symbol].low)
    BY <1>4, <2>3 DEF ProfitHit, LossHit, BarOf
  <2> QED
    BY <2>1, <2>2, <2>4 DEF Kept
<1> QED
  BY <1>1, <1>3, <1>4, <1>5, <1>6, KeepStep DEF x

-----------------------------------------------------------------------------
(* The scan, the entry loop and the end of a day.                          *)

LEMMA RowFacts ==
  ASSUME NEW rows \in Rows \cup {NoRows}, NEW s \in Symbols
  PROVE  rows[s] # NoBar => rows[s] \in Bars
  BY DEF Rows, NoRows

\* The market value of the positions.
LEMMA MarkedType ==
  ASSUME NEW rows \in Rows \cup {NoRows}, NEW last \in [Symbols -> Nat], NEW held \in Seq(Open)
  PROVE  MarkedTo(rows, last, held) \in Nat
<1>1. ASSUME NEW p \in Open
      PROVE  100 * MarkPrice(p, rows, last) * p.shares \in Nat
  <2>1. p.symbol \in Symbols /\ p.price \in Nat /\ p.shares \in Nat
    BY DEF Open
  <2>2. MarkPrice(p, rows, last) \in Nat
    <3>1. CASE rows[p.symbol] # NoBar
      <4>1. rows[p.symbol].close \in Nat
        BY <2>1, <3>1, RowFacts, BarFacts
      <4> QED
        BY <3>1, <4>1 DEF MarkPrice
    <3>2. CASE rows[p.symbol] = NoBar
      BY <2>1, <3>2 DEF MarkPrice
    <3> QED
      BY <3>1, <3>2
  <2>3. 100 * MarkPrice(p, rows, last) \in Nat
    BY <2>2
  <2> QED
    BY <2>1, <2>3, Product
<1> DEFINE amounts == [i \in DOMAIN held |-> 100 * MarkPrice(held[i], rows, last) * held[i].shares]
<1>2. amounts \in Seq(Nat)
  <2>1. DOMAIN held = 1 .. Len(held) /\ Len(held) \in Nat /\ \A i \in DOMAIN held : held[i] \in Open
    OBVIOUS
  <2>2. \A i \in DOMAIN held : 100 * MarkPrice(held[i], rows, last) * held[i].shares \in Nat
    BY <1>1, <2>1
  <2>3. amounts \in [1 .. Len(held) -> Nat]
    BY <2>1, <2>2
  <2> HIDE DEF amounts
  <2> QED
    BY <2>1, <2>3, SeqDef
<1> HIDE DEF amounts
<1> QED
  BY <1>2, TotalOfNats DEF MarkedTo, amounts

LEMMA RankedType ==
  ASSUME NEW found \in SUBSET Symbols, NEW ranked \in Ranked(found)
  PROVE  ranked \in Seq(Symbols)
<1>1. Cardinality(found) \in Nat
  BY SettingAssumption, FS_Subset, FS_CardinalityType
<1>2. ranked \in [1 .. Cardinality(found) -> Symbols]
  BY DEF Ranked
<1> QED
  BY <1>1, <1>2, SeqDef

LEMMA ScanStep == IInv /\ Scan => IInv'
<1> SUFFICES ASSUME IInv, Scan PROVE IInv'
  OBVIOUS
<1> DEFINE marked == MarkedTo(today, lastClose, open)
<1>1. /\ phase = "exit" /\ queue = <<>> /\ phase' = "buy" /\ bought' = 0
      /\ value' = marked /\ peak' = Larger(peak, cash + marked)
      /\ point' = [day |-> day, cash |-> cash, equity |-> cash + marked]
      /\ UNCHANGED <<day, today, next, lastClose, queue, open, trades, cash>>
  BY DEF Scan, market
<1>2. marked \in Nat
  BY MarkedType DEF IInv, TypeOK
<1>3. candidates' \in Seq(Symbols) /\ (candidates' # <<>> => day < Days)
  <2>1. PICK found \in SUBSET Quoted : \E ranked \in Ranked(found) :
               candidates' = IF Room THEN ranked ELSE <<>>
    BY DEF Scan
  <2>2. found \in SUBSET Symbols
    BY DEF Quoted
  <2>3. PICK ranked \in Ranked(found) : candidates' = IF Room THEN ranked ELSE <<>>
    BY <2>1
  <2>4. ranked \in Seq(Symbols)
    BY <2>2, <2>3, RankedType
  <2> QED
    BY <2>3, <2>4 DEF Room
<1> HIDE DEF marked
<1>4. cash \in Nat /\ day \in 1 .. Days /\ peak \in Nat
  BY DEF IInv, TypeOK, CashSuffices
<1>5. TypeOK'
  <2>1. value' \in Nat /\ peak' \in Nat /\ point' \in [day : 0 .. Days, cash : Int, equity : Int]
    BY <1>1, <1>2, <1>4, SettingAssumption DEF Larger
  <2>2. bought' \in 0 .. MaxDailyBuys
    BY <1>1, SettingAssumption
  <2> QED
    BY <1>1, <1>3, <2>1, <2>2 DEF IInv, TypeOK
<1>6. PhaseInv'
  BY <1>1, <1>3 DEF PhaseInv
<1>7. HeldInv'
  BY <1>1 DEF IInv, HeldInv, Held
<1>8. Apart(queue', open') /\ CashSuffices' /\ BooksInv'
  BY <1>1 DEF IInv, CashSuffices, BooksInv
<1>9. EquityInv'
  <2>1. cash' + value' <= point'.equity
    BY <1>1, <1>2, <1>4
  <2>2. \A i \in DOMAIN open' : open'[i].signal # day'
    <3> TAKE i \in DOMAIN open'
    <3>1. open[i] \in Open /\ open[i].signal < day
      BY <1>1 DEF IInv, TypeOK, HeldInv, Held
    <3>2. open[i].signal \in Int /\ day \in Int
      BY <1>4, <3>1, SettingAssumption DEF Open
    <3> QED
      BY <1>1, <3>1, <3>2
  <2> QED
    BY <2>1, <2>2 DEF EquityInv, SizedBySignalEquity
<1> QED
  BY <1>5, <1>6, <1>7, <1>8, <1>9 DEF IInv

LEMMA SkipCandidateStep == IInv /\ SkipCandidate => IInv'
<1> SUFFICES ASSUME IInv, SkipCandidate PROVE IInv'
  OBVIOUS
<1>1. /\ phase = "buy" /\ candidates # <<>> /\ candidates' = Tail(candidates)
      /\ UNCHANGED <<phase, day, today, next, lastClose, queue, open, trades, cash, bought, value, peak, point>>
  BY DEF SkipCandidate, Entering, market
<1>2. candidates' \in Seq(Symbols)
  BY <1>1, FirstTaken DEF IInv, TypeOK
<1>3. TypeOK'
  BY <1>1, <1>2 DEF IInv, TypeOK
<1>4. PhaseInv'
  BY <1>1 DEF IInv, PhaseInv
<1>5. HeldInv' /\ Apart(queue', open') /\ CashSuffices' /\ BooksInv' /\ EquityInv'
  BY <1>1 DEF IInv, HeldInv, CashSuffices, BooksInv, EquityInv, SizedBySignalEquity
<1> QED
  BY <1>3, <1>4, <1>5 DEF IInv

\* The shares bought of a candidate cost no more than what is planned for it.
LEMMA BuyFacts ==
  ASSUME IInv, Entering, Buyable(Candidate)
  PROVE  LET s == Candidate  shares == Shares(s)  price == BuyPrice(next[s])
         IN  /\ s \in Symbols /\ shares \in Nat /\ price \in Nat /\ 0 < price
             /\ shares * CostOf(price) \in Nat /\ shares * CostOf(price) <= cash
             /\ 100 * (shares * CostOf(price)) <= (cash + value) * SizePct
             /\ 100 * price * shares \in Nat
             /\ 100 * price * shares <= shares * CostOf(price)
<1> DEFINE s      == Candidate
           shares == Shares(s)
           price  == BuyPrice(next[s])
           cost   == CostOf(price)
           amount == Planned(Len(open))
<1>1. s \in Symbols /\ next[s] \in Bars
  <2>1. s \in Symbols
    BY FirstTaken DEF IInv, TypeOK, Entering, Candidate
  <2>2. next \in Rows \cup {NoRows} /\ next[s] # NoBar
    BY DEF IInv, TypeOK, Buyable
  <2> QED
    BY <2>1, <2>2, RowFacts
<1>2. price \in Nat /\ 0 < price /\ cost \in Nat /\ 0 < cost
  BY <1>1, CostFacts
<1>3. cash \in Nat /\ value \in Nat /\ Len(open) \in Nat
  BY DEF IInv, TypeOK, CashSuffices
<1>4. amount \in Nat /\ amount <= cash /\ 100 * amount <= (cash + value) * SizePct
  BY <1>3, PlannedFits
<1>5. shares = Lots(amount, cost)
  BY DEF Shares
<1>6. cost = price * (100 + FeePct)
  BY DEF CostOf
<1> HIDE DEF s, shares, price, cost, amount
<1>7. shares \in Nat /\ shares * cost <= amount
  BY <1>2, <1>4, <1>5, LotsFit
<1>8. shares * cost \in Nat
  BY <1>2, <1>7, Product
<1>9. 100 * (shares * cost) <= (cash + value) * SizePct
  <2>1. (cash + value) * SizePct \in Nat
    BY <1>3, SettingAssumption, Product
  <2> QED
    BY <1>4, <1>7, <1>8, <2>1
<1>10. 100 * price * shares \in Nat /\ 100 * price * shares <= shares * cost
  <2>1. 100 * price \in Nat /\ 100 * price <= cost
    <3>1. price * (100 + FeePct) = 100 * price + price * FeePct /\ FeePct \in Nat
      BY <1>2, SettingAssumption
    <3>2. price * FeePct \in Nat
      BY <1>2, <3>1, Product
    <3> QED
      BY <1>2, <1>6, <3>1, <3>2
  <2>2. 100 * price * shares <= cost * shares
    <3> DEFINE hundred == 100 * price
    <3>1. hundred \in Nat /\ hundred <= cost
      BY <2>1
    <3> HIDE DEF hundred
    <3>2. hundred * shares <= cost * shares
      BY <1>2, <1>7, <3>1, Monotone
    <3> QED
      BY <3>2 DEF hundred
  <2>3. cost * shares = shares * cost
    BY <1>2, <1>7
  <2>4. 100 * price * shares \in Nat
    BY <1>7, <2>1, Product
  <2> QED
    BY <2>2, <2>3, <2>4
<1>11. shares * cost <= cash
  BY <1>3, <1>4, <1>7, <1>8
<1> QED
  BY <1>1, <1>2, <1>7, <1>8, <1>9, <1>10, <1>11, Zenon DEF s, shares, price, cost

LEMMA OpenPositionStep == IInv /\ OpenPosition => IInv'
<1> SUFFICES ASSUME IInv, OpenPosition PROVE IInv'
  OBVIOUS
<1> DEFINE s      == Candidate
           shares == Shares(s)
           price  == BuyPrice(next[s])
           paid   == shares * CostOf(price)
           x      == [symbol |-> s, signal |-> day, bought |-> day + 1, price |-> price,
                      shares |-> shares, amount |-> paid, sellSignal |-> 0]
<1>1. /\ Entering /\ Buyable(Candidate)
      /\ phase = "buy" /\ candidates # <<>> /\ Len(open) < MaxPositions /\ bought < MaxDailyBuys
      /\ \A i \in DOMAIN open : open[i].symbol # s
      /\ open' = Append(open, x) /\ cash' = cash - paid
      /\ value' = value + 100 * price * shares /\ bought' = bought + 1
      /\ candidates' = Tail(candidates)
      /\ UNCHANGED <<phase, day, today, next, lastClose, queue, trades, peak, point>>
  BY DEF OpenPosition, Entering, Buyable, HoldsIt, market
<1>2. /\ s \in Symbols /\ shares \in Nat /\ price \in Nat /\ 0 < price
      /\ paid \in Nat /\ paid <= cash /\ 100 * paid <= (cash + value) * SizePct
      /\ 100 * price * shares \in Nat /\ 100 * price * shares <= paid
  BY <1>1, BuyFacts, Zenon
<1>3. /\ queue = <<>> /\ open \in Seq(Open) /\ cash \in Nat /\ value \in Nat /\ day \in 1 .. Days
      /\ day < Days /\ bought \in 0 .. MaxDailyBuys /\ cash + value <= point.equity
      /\ point.equity \in Int /\ candidates \in Seq(Symbols) /\ trades \in Seq(Closed)
  BY <1>1 DEF IInv, TypeOK, PhaseInv, CashSuffices, EquityInv
<1> HIDE DEF s, shares, price, paid
<1>4. x \in Open
  BY <1>2, <1>3, SettingAssumption DEF Open
<1>5. /\ x.symbol = s /\ x.amount = paid /\ x.signal = day /\ x.bought = day + 1
      /\ x.price = price /\ x.sellSignal = 0
  OBVIOUS
<1> HIDE DEF x
<1>6. Held(x, day, phase) /\ Kept(x, day, today)
  BY <1>1, <1>2, <1>3, <1>5, SettingAssumption DEF Held, Kept
<1> DEFINE worth == 100 * price * shares
<1>7. worth \in Nat /\ worth <= paid /\ value' = value + worth
  BY <1>1, <1>2
<1> HIDE DEF worth
<1>8. cash' \in Nat /\ value' \in Nat
  BY <1>1, <1>2, <1>3, <1>7
<1>9. TypeOK'
  <2>1. open' \in Seq(Open) /\ candidates' \in Seq(Symbols)
    BY <1>1, <1>3, <1>4, FirstTaken, LastAdded
  <2>2. bought' \in 0 .. MaxDailyBuys
    BY <1>1, <1>3, SettingAssumption
  <2> QED
    BY <1>1, <1>8, <2>1, <2>2 DEF IInv, TypeOK
<1>10. PhaseInv'
  BY <1>1 DEF IInv, PhaseInv
<1>11. \A i \in DOMAIN open' : (i \in DOMAIN open /\ open'[i] = open[i]) \/ open'[i] = x
  BY <1>1, <1>3, <1>4, AddedIs
<1>12. HeldInv'
  <2>1. \A i \in DOMAIN open' : Held(open'[i], day, phase) /\ Kept(open'[i], day, today)
    BY <1>6, <1>11 DEF IInv, HeldInv
  <2> QED
    BY <1>1, <2>1 DEF IInv, HeldInv
<1>13. Apart(queue', open')
  <2>1. Apart(<<>>, open)
    BY <1>3 DEF IInv
  <2>2. \A i \in DOMAIN open : open[i].symbol # x.symbol
    BY <1>1, <1>5
  <2>3. Apart(<<>>, Append(open, x))
    BY <1>1, <1>3, <1>4, <2>1, <2>2, ApartAdded
  <2> QED
    BY <1>1, <1>3, <2>3
<1>14. BooksInv'
  <2>1. AtCost(open') = AtCost(open) + paid /\ AtCost(open) \in Nat
    BY <1>1, <1>3, <1>4, <1>5, CostAdded, AmountsType, AmountsAreNat
  <2>2. AtCost(queue') = AtCost(queue) /\ AtCost(queue) = 0
    BY <1>1, <1>3, CostOfNone
  <2>3. cash' + AtCost(queue') + AtCost(open') = cash + AtCost(queue) + AtCost(open)
    BY <1>1, <1>2, <1>3, <2>1, <2>2
  <2> QED
    BY <1>1, <2>3 DEF IInv, BooksInv
<1>15. CashSuffices'
  BY <1>8 DEF CashSuffices
<1>16. EquityInv'
  <2>1. cash' + value' <= point'.equity
    BY <1>1, <1>2, <1>3, <1>7
  <2>2. 100 * paid <= SizePct * point.equity
    <3>1. cash + value \in Nat /\ point.equity \in Nat /\ SizePct \in Nat
      BY <1>3, SettingAssumption
    <3>2. (cash + value) * SizePct <= point.equity * SizePct
      <4> DEFINE e == cash + value
                 f == point.equity
      <4>1. e \in Nat /\ f \in Nat /\ e <= f
        BY <1>3, <3>1
      <4> HIDE DEF e, f
      <4>2. e * SizePct <= f * SizePct
        BY <3>1, <4>1, Monotone
      <4> QED
        BY <4>2 DEF e, f
    <3>3. (cash + value) * SizePct \in Nat /\ point.equity * SizePct \in Nat
      BY <3>1, Product
    <3>4. point.equity * SizePct = SizePct * point.equity
      BY <3>1
    <3> QED
      BY <1>2, <3>2, <3>3, <3>4
  <2>3. \A i \in DOMAIN open' : open'[i].signal = day => 100 * open'[i].amount <= SizePct * point.equity
    <3> TAKE i \in DOMAIN open'
    <3>1. CASE i \in DOMAIN open /\ open'[i] = open[i]
      BY <1>1, <3>1 DEF IInv, EquityInv, SizedBySignalEquity
    <3>2. CASE open'[i] = x
      BY <1>5, <2>2, <3>2
    <3> QED
      BY <1>11, <3>1, <3>2
  <2> QED
    BY <1>1, <2>1, <2>3 DEF EquityInv, SizedBySignalEquity
<1> QED
  BY <1>9, <1>10, <1>12, <1>13, <1>14, <1>15, <1>16 DEF IInv

LEMMA EndDayStep == IInv /\ EndDay => IInv'
<1> SUFFICES ASSUME IInv, EndDay PROVE IInv'
  OBVIOUS
<1>1. /\ phase = "buy" /\ candidates' = <<>> /\ bought' = 0 /\ value' = 0
      /\ lastClose' = [s \in Symbols |-> IF today[s] # NoBar THEN today[s].close ELSE lastClose[s]]
      /\ UNCHANGED <<trades, cash, peak, point>>
  BY DEF EndDay
<1>2. /\ queue = <<>> /\ open \in Seq(Open) /\ day \in 1 .. Days
      /\ today \in Rows \cup {NoRows} /\ next \in Rows \cup {NoRows} /\ trades \in Seq(Closed)
  BY <1>1 DEF IInv, TypeOK, PhaseInv
<1>3. lastClose' \in [Symbols -> Nat]
  <2>1. \A s \in Symbols : today[s] # NoBar => today[s].close \in Nat
    BY <1>2, RowFacts, BarFacts
  <2> QED
    BY <1>1, <2>1 DEF IInv, TypeOK
<1>4. <<>> \in Seq(Symbols) /\ <<>> \in Seq(Open) /\ bought' \in 0 .. MaxDailyBuys /\ value' \in Nat
  BY <1>1, SettingAssumption
<1>5. CASE MoreDays
  <2>1. /\ day < Days /\ day' = day + 1 /\ phase' = "exit" /\ today' = next
        /\ next' \in RowsOf(day + 2) /\ queue' = open /\ open' = <<>>
    BY <1>5 DEF EndDay, MoreDays
  <2>2. TypeOK'
    <3>1. day' \in 1 .. Days
      BY <1>2, <2>1, SettingAssumption
    <3>2. next' \in Rows \cup {NoRows}
      BY <2>1 DEF RowsOf
    <3> QED
      BY <1>1, <1>2, <1>3, <1>4, <2>1, <3>1, <3>2 DEF IInv, TypeOK
  <2>3. PhaseInv'
    BY <1>1, <2>1 DEF PhaseInv
  <2>4. HeldInv'
    <3>1. \A i \in DOMAIN open : Held(open[i], day + 1, "exit")
      <4> TAKE i \in DOMAIN open
      <4>1. open[i] \in Open /\ Held(open[i], day, phase)
        BY <1>2 DEF IInv, HeldInv
      <4>2. /\ open[i].signal \in Int /\ open[i].bought \in Int /\ open[i].sellSignal \in Int /\ day \in Int
        BY <1>2, <4>1, SettingAssumption DEF Open
      <4> QED
        BY <4>1, <4>2 DEF Held
    <3>2. DOMAIN open' = {}
      BY <2>1
    <3> QED
      BY <1>1, <2>1, <3>1, <3>2 DEF IInv, HeldInv
  <2>5. Apart(queue', open')
    <3>1. Apart(<<>>, open)
      BY <1>2 DEF IInv
    <3> QED
      BY <1>2, <2>1, <3>1, ApartTurned
  <2>6. BooksInv'
    <3>1. AtCost(queue') = AtCost(open) /\ AtCost(open') = 0 /\ AtCost(queue) = 0
      BY <1>2, <2>1, CostOfNone
    <3>2. AtCost(open) \in Nat /\ cash \in Int
      <4>1. AtCost(open) \in Nat
        BY <1>2, AmountsType, AmountsAreNat
      <4> QED
        BY <4>1 DEF IInv, TypeOK
    <3>3. cash + AtCost(queue') + AtCost(open') = cash + AtCost(queue) + AtCost(open)
      BY <3>1, <3>2
    <3> QED
      BY <1>1, <3>3 DEF IInv, BooksInv
  <2>7. CashSuffices' /\ EquityInv'
    BY <1>1, <2>1 DEF IInv, CashSuffices, EquityInv, SizedBySignalEquity
  <2> QED
    BY <2>2, <2>3, <2>4, <2>5, <2>6, <2>7 DEF IInv
<1>6. CASE ~MoreDays
  <2>1. phase' = "done" /\ UNCHANGED <<day, today, next, queue, open>>
    BY <1>6 DEF EndDay
  <2>2. TypeOK'
    BY <1>1, <1>3, <1>4, <2>1 DEF IInv, TypeOK
  <2>3. PhaseInv'
    BY <1>1, <1>2, <2>1 DEF PhaseInv
  <2>4. HeldInv'
    BY <1>1, <2>1 DEF IInv, HeldInv, Held
  <2>5. Apart(queue', open') /\ CashSuffices' /\ BooksInv' /\ EquityInv'
    BY <1>1, <2>1 DEF IInv, CashSuffices, BooksInv, EquityInv, SizedBySignalEquity
  <2> QED
    BY <2>2, <2>3, <2>4, <2>5 DEF IInv
<1> QED
  BY <1>5, <1>6

-----------------------------------------------------------------------------
(* The theorems.                                                           *)

LEMMA Initially == Init => IInv
<1> SUFFICES ASSUME Init PROVE IInv
  OBVIOUS
<1>1. /\ day = 1 /\ phase = "exit" /\ today \in Rows /\ next \in RowsOf(2)
      /\ queue = <<>> /\ open = <<>> /\ trades = <<>> /\ candidates = <<>>
      /\ cash = InitialCash /\ bought = 0 /\ value = 0 /\ lastClose = [s \in Symbols |-> 0]
      /\ peak = InitialCash /\ point = [day |-> 0, cash |-> InitialCash, equity |-> InitialCash]
  BY DEF Init
<1>2. TypeOK
  <2>1. next \in Rows \cup {NoRows}
    BY <1>1 DEF RowsOf
  <2> QED
    BY <1>1, <2>1, SettingAssumption DEF TypeOK
<1>3. PhaseInv /\ CashSuffices
  BY <1>1, SettingAssumption DEF PhaseInv, CashSuffices
<1>4. DOMAIN <<>> = {} /\ Len(<<>>) = 0
  OBVIOUS
<1>5. HeldInv /\ EquityInv
  BY <1>1, <1>4 DEF HeldInv, EquityInv, SizedBySignalEquity
<1>6. Apart(queue, open)
  <2>1. Len(<<>>) + Len(<<>>) <= MaxPositions
    BY <1>4, SettingAssumption
  <2> QED
    BY <1>1, <1>4, <2>1 DEF Apart
<1>7. BooksInv
  BY <1>1, CostOfNone, SettingAssumption DEF BooksInv
<1> QED
  BY <1>2, <1>3, <1>5, <1>6, <1>7 DEF IInv

LEMMA StepKeeps == IInv /\ [Next]_vars => IInv'
<1> SUFFICES ASSUME IInv, [Next]_vars PROVE IInv'
  OBVIOUS
<1>1. CASE UNCHANGED vars
  BY <1>1 DEF vars, IInv, TypeOK, PhaseInv, HeldInv, CashSuffices, BooksInv, EquityInv, SizedBySignalEquity
<1>2. CASE Next
  BY <1>2, HoldOnStep, SellPendingStep, SellHeldStep, SellIntradayStep, ExitRulesStep,
     ScanStep, SkipCandidateStep, OpenPositionStep, EndDayStep DEF Next
<1> QED
  BY <1>1, <1>2

\* What the exit loop has still to look at, and what it has kept, item by item.
LEMMA PositionsAre ==
  ASSUME IInv
  PROVE  /\ Len(Positions) = Len(queue) + Len(open) /\ Len(queue) \in Nat /\ Len(open) \in Nat
         /\ DOMAIN queue = 1 .. Len(queue) /\ DOMAIN open = 1 .. Len(open)
         /\ \A i \in DOMAIN Positions :
              \/ i \in DOMAIN queue /\ Positions[i] = queue[i]
              \/ /\ i \in Int /\ Len(queue) < i /\ i - Len(queue) \in DOMAIN open
                 /\ Positions[i] = open[i - Len(queue)]
<1>1. queue \in Seq(Open) /\ open \in Seq(Open)
  BY DEF IInv, TypeOK
<1>2. /\ Positions \in Seq(Open) /\ Len(Positions) = Len(queue) + Len(open)
      /\ \A i \in 1 .. Len(queue) + Len(open) :
           Positions[i] = IF i <= Len(queue) THEN queue[i] ELSE open[i - Len(queue)]
  BY <1>1, ConcatProperties DEF Positions
<1>3. /\ Len(queue) \in Nat /\ Len(open) \in Nat /\ DOMAIN queue = 1 .. Len(queue)
      /\ DOMAIN open = 1 .. Len(open) /\ DOMAIN Positions = 1 .. Len(Positions)
  BY <1>1, <1>2
<1>4. ASSUME NEW i \in DOMAIN Positions
      PROVE  \/ i \in DOMAIN queue /\ Positions[i] = queue[i]
             \/ /\ i \in Int /\ Len(queue) < i /\ i - Len(queue) \in DOMAIN open
                /\ Positions[i] = open[i - Len(queue)]
  <2>1. i \in 1 .. Len(queue) + Len(open)
    BY <1>2, <1>3
  <2>2. CASE i <= Len(queue)
    <3>1. i \in DOMAIN queue
      BY <1>3, <2>1, <2>2
    <3> QED
      BY <1>2, <2>1, <2>2, <3>1
  <2>3. CASE ~(i <= Len(queue))
    <3>1. i \in Int /\ Len(queue) < i /\ i - Len(queue) \in DOMAIN open
      BY <1>3, <2>1, <2>3
    <3> QED
      BY <1>2, <2>1, <2>3, <3>1
  <2> QED
    BY <2>2, <2>3
<1> QED
  BY <1>2, <1>3, <1>4

LEMMA InvIsSound == IInv => PortfolioIsSound
<1> SUFFICES ASSUME IInv PROVE PortfolioIsSound
  OBVIOUS
<1>1. CashSuffices
  BY DEF IInv
<1>2. BooksBalance
  <2>1. queue \in Seq(Open) /\ open \in Seq(Open) /\ cash \in Int
    BY DEF IInv, TypeOK
  <2>2. AtCost(Positions) = AtCost(queue) + AtCost(open)
    BY <2>1, CostOfBoth, AmountsAreNat DEF Positions
  <2>3. AtCost(queue) \in Nat /\ AtCost(open) \in Nat
    BY <2>1, AmountsType, AmountsAreNat
  <2>4. cash + AtCost(Positions) = cash + AtCost(queue) + AtCost(open)
    BY <2>1, <2>2, <2>3
  <2> QED
    BY <2>4 DEF IInv, BooksInv, BooksBalance
<1>3. PortfolioBounded
  <2>1. Len(Positions) <= MaxPositions
    BY PositionsAre DEF IInv, Apart
  <2>2. ASSUME NEW i \in DOMAIN Positions, NEW j \in DOMAIN Positions,
               Positions[i].symbol = Positions[j].symbol
        PROVE  i = j
    <3>1. CASE i \in DOMAIN queue /\ Positions[i] = queue[i]
      <4>1. CASE j \in DOMAIN queue /\ Positions[j] = queue[j]
        BY <2>2, <3>1, <4>1 DEF IInv, Apart
      <4>2. CASE j - Len(queue) \in DOMAIN open /\ Positions[j] = open[j - Len(queue)]
        BY <2>2, <3>1, <4>2 DEF IInv, Apart
      <4> QED
        BY <4>1, <4>2, PositionsAre
    <3>2. CASE i \in Int /\ i - Len(queue) \in DOMAIN open /\ Positions[i] = open[i - Len(queue)]
      <4>1. CASE j \in DOMAIN queue /\ Positions[j] = queue[j]
        BY <2>2, <3>2, <4>1 DEF IInv, Apart
      <4>2. CASE j \in Int /\ j - Len(queue) \in DOMAIN open /\ Positions[j] = open[j - Len(queue)]
        <5>1. i - Len(queue) = j - Len(queue)
          BY <2>2, <3>2, <4>2 DEF IInv, Apart
        <5>2. Len(queue) \in Int
          BY PositionsAre
        <5> QED
          BY <3>2, <4>2, <5>1, <5>2
      <4> QED
        BY <4>1, <4>2, PositionsAre
    <3> QED
      BY <3>1, <3>2, PositionsAre
  <2> QED
    BY <2>1, <2>2 DEF PortfolioBounded
<1> QED
  BY <1>1, <1>2, <1>3 DEF PortfolioIsSound

LEMMA InvSettles == IInv => SettlesLater
<1> SUFFICES ASSUME IInv PROVE SettlesLater
  OBVIOUS
<1>1. \A i \in DOMAIN Positions : Positions[i].signal < Positions[i].bought
  <2> TAKE i \in DOMAIN Positions
  <2>1. \/ i \in DOMAIN queue /\ Positions[i] = queue[i]
        \/ i - Len(queue) \in DOMAIN open /\ Positions[i] = open[i - Len(queue)]
    BY PositionsAre
  <2> QED
    BY <2>1 DEF IInv, HeldInv, Held
<1>2. \A i \in DOMAIN trades : Settled(trades[i])
  BY DEF IInv, HeldInv
<1> QED
  BY <1>1, <1>2 DEF SettlesLater, Settled

LEMMA InvSells == IInv => SellsWhenDue
<1> SUFFICES ASSUME IInv, NEW i \in DOMAIN open PROVE
      LET p == open[i]
      IN  \/ Unsellable(p)
          \/ /\ p.sellSignal \in {0, day}
             /\ day - p.bought + 1 < HoldingDays
             /\ ~ProfitHit(p, today[p.symbol].high) /\ ~LossHit(p, today[p.symbol].low)
  BY DEF SellsWhenDue
<1>1. Kept(open[i], day, today)
  BY DEF IInv, HeldInv
<1> QED
  BY <1>1 DEF Kept, Unsellable

\* The sale of the position the exit loop looks at, at a price of its bar.
Fills == LET t   == trades'[Len(trades')]
             bar == today[t.symbol]
         IN  /\ bar # NoBar /\ ~bar.suspended /\ ~(LimitDownBlocks /\ bar.down)
             /\ bar.low <= t.raw /\ t.raw <= bar.high

LEMMA SaleFills ==
  ASSUME IInv, Exiting, Tradable(Position), NEW signal, NEW raw, Sell(Position, signal, raw),
         BarOf(Position).low <= raw, raw <= BarOf(Position).high, Len(trades') > Len(trades)
  PROVE  Fills
<1>1. trades \in Seq(Closed) /\ Len(trades) \in Nat
  BY DEF IInv, TypeOK
<1>2. CASE LimitDownBlocks /\ BarOf(Position).down
  <2>1. trades' = trades
    BY <1>2 DEF Sell, Keep
  <2> QED
    BY <1>1, <2>1
<1>3. CASE ~(LimitDownBlocks /\ BarOf(Position).down)
  <2> DEFINE t == [symbol |-> Position.symbol, bought |-> Position.bought, amount |-> Position.amount,
                   signal |-> signal, sold |-> day, raw |-> raw,
                   proceeds |-> Proceeds(raw, Position.shares)]
  <2>1. trades' = Append(trades, t)
    BY <1>3 DEF Sell, Close
  <2>2. t.symbol = Position.symbol /\ t.raw = raw
    OBVIOUS
  <2> HIDE DEF t
  <2>3. trades \in Seq(Closed \cup {t})
    BY <1>1, SeqMonotonic
  <2>4. trades'[Len(trades')] = t
    BY <2>1, <2>3, LastAdded
  <2> QED
    BY <1>3, <2>2, <2>4 DEF Fills, Tradable, BarOf
<1> QED
  BY <1>2, <1>3

LEMMA StepFills == IInv /\ [Next]_vars /\ Len(trades') > Len(trades) => Fills
<1> SUFFICES ASSUME IInv, [Next]_vars, Len(trades') > Len(trades) PROVE Fills
  OBVIOUS
<1>1. trades' # trades
  <2>1. Len(trades) \in Nat
    BY DEF IInv, TypeOK
  <2> QED
    BY <2>1
<1>2. SellPending \/ SellHeld \/ SellIntraday
  BY <1>1 DEF Next, vars, HoldOn, ExitRules, Keep, Scan, SkipCandidate, OpenPosition, EndDay
<1>3. Exiting /\ Tradable(Position)
  BY <1>2 DEF SellPending, SellHeld, SellIntraday
<1>4. /\ {BarOf(Position).low, BarOf(Position).open, BarOf(Position).high} \subseteq Nat
      /\ BarOf(Position).low <= BarOf(Position).open /\ BarOf(Position).open <= BarOf(Position).high
  BY <1>3, PositionFacts, BarFacts
<1>5. CASE SellPending
  BY <1>3, <1>4, <1>5, SaleFills DEF SellPending
<1>6. CASE SellHeld
  BY <1>3, <1>4, <1>6, SaleFills DEF SellHeld
<1>7. CASE SellIntraday
  BY <1>3, <1>7, RawFacts, SaleFills DEF SellIntraday
<1> QED
  BY <1>2, <1>5, <1>6, <1>7

\* The state keeps its types: no amount of money becomes a fraction, no day passes the
\* last (engine.py:590-810).
THEOREM BacktestTypeCorrect == Spec => []TypeOK
<1>1. IInv => TypeOK
  BY DEF IInv
<1> QED
  BY <1>1, Initially, StepKeeps, PTL DEF Spec

\* PortfolioIsSound for every setting: cash never falls below zero, money is neither made
\* nor lost, and no symbol is held twice (engine.py:590-810).
THEOREM PortfolioCorrect == Spec => []PortfolioIsSound
  BY Initially, StepKeeps, InvIsSound, PTL DEF Spec

\* A position costs no more than its share of the equity on its signal day, however many
\* are opened that day (engine.py:556-567).
THEOREM SizedCorrect == Spec => []SizedBySignalEquity
<1>1. IInv => SizedBySignalEquity
  BY DEF IInv, EquityInv
<1> QED
  BY <1>1, Initially, StepKeeps, PTL DEF Spec

\* No sell signal, holding limit, stop or target is forgotten (engine.py:620-701).
THEOREM SellsCorrect == Spec => []SellsWhenDue
  BY Initially, StepKeeps, InvSells, PTL DEF Spec

\* Every trade respects T+1 and is made in a bar that trades, at a price of that bar
\* (engine.py:383-419, 620-701).
THEOREM TradesCorrect == Spec => TradesAreLegal
<1>1. IInv /\ [Next]_vars => [Len(trades') > Len(trades) => Fills]_vars
  BY StepFills
<1>2. Spec => []IInv
  BY Initially, StepKeeps, PTL DEF Spec
<1>3. IInv /\ [Next]_vars
        => [Len(trades') > Len(trades) =>
              LET t   == trades'[Len(trades')]
                  bar == today[t.symbol]
              IN  /\ bar # NoBar /\ ~bar.suspended /\ ~(LimitDownBlocks /\ bar.down)
                  /\ bar.low <= t.raw /\ t.raw <= bar.high]_vars
  BY <1>1 DEF Fills
<1>4. Spec => FillsInTheBar
  BY <1>2, <1>3, PTL DEF Spec, FillsInTheBar
<1>5. Spec => []SettlesLater
  BY <1>2, InvSettles, PTL
<1> QED
  BY <1>4, <1>5, PTL DEF TradesAreLegal

=============================================================================
